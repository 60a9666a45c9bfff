----------------------------- MODULE PieKernels -----------------------------
(***************************************************************************)
(* The vector kernels, vector by vector (engine/pie_rows.S, pie_attn.S),   *)
(* and the engine's two ways through an int4 row: nibbles unpacked in      *)
(* registers (ne_gemv_rows) or once into a buffer (ne_gemm_rows).          *)
(*                                                                         *)
(* A dot product is bilinear: a kernel is right on all inputs if it is on  *)
(* those where the activation has one element that is not zero.  Weights   *)
(* are not unpacked linearly, so one of them is free and the others share  *)
(* a value of their own.  What lies in the vector past the end of the      *)
(* activation, which the fused load reads, must not matter.                *)
(***************************************************************************)
EXTENDS Integers, Sequences, Functions

CONSTANTS
  L,       \* int8 lanes of a vector: 16
  RU,      \* chunks of an unrolled block of pie_rowsum_i8: 4
  DU,      \* vectors of an unrolled block of pie_dots: 4
  N,       \* nibble values: 16
  MaxCh,   \* bound: chunks of a row
  MaxRows, \* bound: rows of pie_dots
  Fill     \* values of the weights beside the free one

Nibbles == -(N \div 2) .. (N \div 2) - 1   \* values of an int4 weight

ASSUME KernelAssumption ==
  /\ {L, RU, DU, MaxCh, MaxRows} \subseteq Nat \ {0}
  /\ N \in {4, 8, 16}
  /\ Fill \subseteq Nibbles

Pack == 2 * L                       \* NE_PACK: elements of a chunk
Grouped == {"row_i8", "row_i4"}
Packed == {"row_i4", "rowsum_i4", "gemm"}
Kind == Grouped \cup Packed \cup {"rowsum_i8", "dots"}

RoundUp(n, unit) == ((n + unit - 1) \div unit) * unit

VARIABLES
  kind, len, rows,  \* the call: kernel, elements of a row, rows
  a, w,             \* activation (a vector of slack included), weights
  pc,
  pa, pb,           \* vectors consumed of the activation and of the weights
  left,             \* vectors (fused) or chunks left in this row
  q0,               \* the register a fused load fills ahead
  acc,              \* xacc
  out               \* drained sums

input == <<kind, len, rows, a, w>>
vars == <<input, pc, pa, pb, left, q0, acc, out>>

-----------------------------------------------------------------------------
(* Memory.                                                                 *)

(* A load past the buffer finds whatever lies there.                       *)
At(f, i) == IF i \in DOMAIN f THEN f[i] ELSE 1

(* Byte j of a chunk holds element j low and element j + L high.           *)
Byte(i) ==
  LET e == (i \div L) * Pack + (i % L)
  IN  (At(w, e) % N) + N * (At(w, e + L) % N)

Signed(v) == IF v >= N \div 2 THEN v - N ELSE v

(* unpack_i4_row: both nibbles of a byte, sign extended, L elements apart. *)
Unpacked(e) ==
  LET b == Byte((e \div Pack) * L + (e % L))
  IN  IF e % Pack < L THEN Signed(b % N) ELSE Signed(b \div N)

VecA(v) == [i \in 0 .. L - 1 |-> At(a, v * L + i)]
VecW(v) == [i \in 0 .. L - 1 |-> IF kind = "gemm" THEN Unpacked(v * L + i) ELSE At(w, v * L + i)]

Mac(x, y) == SumFunction([i \in 0 .. L - 1 |-> x[i] * y[i]])

(* Nibbles in registers: and, lanes shifted as words (the neighbour's low  *)
(* bits come in above), and, then (v xor N/2) - N/2.                       *)
XorSub(v) == ((v + (N \div 2)) % N) - (N \div 2)
Low(v) == [i \in 0 .. L - 1 |-> XorSub(Byte(v * L + i) % N)]
Shifted(v, i) ==
  (Byte(v * L + i) \div N) + N * (IF i < L - 1 THEN Byte(v * L + i + 1) % N ELSE 0)
High(v) == [i \in 0 .. L - 1 |-> XorSub(Shifted(v, i) % N)]

-----------------------------------------------------------------------------

(* Rows a caller passes: whole chunks of weights; scores and values of     *)
(* attention are padded to a block, with zeros in the padding.             *)
Init ==
  /\ kind \in Kind
  /\ rows \in 1 .. (IF kind = "dots" THEN MaxRows ELSE 1)
  /\ \E n \in 1 .. MaxCh, live \in 1 .. MaxCh * Pack, e, f \in 0 .. MaxCh * Pack * MaxRows,
        x \in {-1, 1}, past \in {0, 1}, t \in Nibbles, u \in Fill :
       /\ kind # "dots" => live = n * Pack
       /\ kind = "dots" => n = 1
       /\ e < live /\ f < live * rows
       /\ len = RoundUp(live, IF kind = "dots" THEN DU * L ELSE Pack)
       /\ a = [i \in 0 .. len + L - 1 |->
                 IF i >= len THEN past ELSE IF i = e THEN x ELSE 0]
       /\ w = [i \in 0 .. len * rows - 1 |->
                 IF i % len >= live THEN 0
                 ELSE IF (i % len) + (i \div len) * live = f THEN t ELSE u]
  /\ pc = "row" /\ pa = 0 /\ pb = 0 /\ left = 0
  /\ q0 = [i \in 0 .. L - 1 |-> 0] /\ acc = 0 /\ out = <<>>

(* MUTANT: the unrolled loop for every length.                             *)
FusesAny == kind \in {"dots", "rowsum_i8", "gemm"}

(* pie_rowsum_i8 takes the unrolled loop only for whole blocks.            *)
Fuses == kind = "dots" \/ (kind \in {"rowsum_i8", "gemm"} /\ (len \div Pack) % RU = 0)

(* Vectors of the unrolled loop: whole blocks, at least one.               *)
FusedVectors ==
  LET unit == IF kind = "dots" THEN DU ELSE 2 * RU
      blocks == (len \div L) \div unit
  IN  unit * (IF blocks = 0 THEN 1 ELSE blocks)

(* MUTANT: the row is not cleared.                                         *)
RowKeeps ==
  /\ pc = "row"
  /\ acc' = acc
  /\ IF Fuses
     THEN /\ left' = FusedVectors /\ q0' = VecA(0) /\ pa' = 1 /\ pc' = "fused"
     ELSE /\ left' = len \div Pack /\ pc' = "chunk" /\ UNCHANGED <<q0, pa>>
  /\ UNCHANGED <<input, pb, out>>

(* The head of a row: clear, and preload for the fused loop.  pie_dots     *)
(* walks its activation again for each row and its rows in one sweep.      *)
Row ==
  /\ pc = "row"
  /\ acc' = 0
  /\ IF Fuses
     THEN /\ left' = FusedVectors /\ q0' = VecA(0) /\ pa' = 1 /\ pc' = "fused"
     ELSE /\ left' = len \div Pack /\ pc' = "chunk" /\ UNCHANGED <<q0, pa>>
  /\ UNCHANGED <<input, pb, out>>

(* Load weights; multiply what was loaded before, and load the next.       *)
Fused ==
  /\ pc = "fused"
  /\ acc' = acc + Mac(q0, VecW(pb))
  /\ q0' = VecA(pa) /\ pa' = pa + 1 /\ pb' = pb + 1
  /\ left' = left - 1
  /\ pc' = IF left = 1 THEN "drain" ELSE pc
  /\ UNCHANGED <<input, out>>

(* A chunk: two vectors of int8, or one of bytes and two of activation.    *)
ChunkSum ==
  IF kind \in {"row_i4", "rowsum_i4"}
  THEN Mac(VecA(pa), Low(pb)) + Mac(VecA(pa + 1), High(pb))
  ELSE Mac(VecA(pa), VecW(pb)) + Mac(VecA(pa + 1), VecW(pb + 1))

Chunk ==
  /\ pc = "chunk"
  /\ acc' = acc + ChunkSum
  /\ pa' = pa + 2
  /\ pb' = pb + (IF kind \in {"row_i4", "rowsum_i4"} THEN 1 ELSE 2)
  /\ left' = left - 1
  /\ pc' = IF kind \in Grouped \/ left = 1 THEN "drain" ELSE pc
  /\ UNCHANGED <<input, q0, out>>

(* Drain, and the next group or row, or return.                            *)
Drain ==
  /\ pc = "drain"
  /\ out' = Append(out, acc)
  /\ IF kind \in Grouped /\ left > 0
     THEN acc' = 0 /\ pc' = "chunk"
     ELSE /\ UNCHANGED acc
          /\ pc' = IF kind = "dots" /\ Len(out) + 1 < rows THEN "row" ELSE "done"
  /\ UNCHANGED <<input, pa, pb, left, q0>>

Done == pc = "done" /\ UNCHANGED vars

Next == Row \/ Fused \/ Chunk \/ Drain \/ Done

Spec == Init /\ [][Next]_vars

-----------------------------------------------------------------------------

(* The definition: sum of a[i] * w[r * len + i] over the elements s.       *)
Dot(r, s) == SumFunction([i \in s |-> a[i] * w[r * len + i]])

Expected ==
  IF kind \in Grouped
  THEN [g \in 1 .. (len \div Pack) |-> Dot(0, Pack * (g - 1) .. Pack * g - 1)]
  ELSE [r \in 1 .. rows |-> Dot(r - 1, 0 .. len - 1)]

(* Every kernel computes the dot products of its definition, whichever     *)
(* loop the length selects, and all agree on one row: unpacking into a     *)
(* buffer or in registers makes no difference (engine.c:249-256).          *)
Exact == pc = "done" => out = Expected

(* No load goes further than one vector past the activation or past the    *)
(* weights at all: the slack the callers leave is enough.                  *)
LoadsInBounds ==
  /\ pa * L <= len + L
  /\ pb * L <= (IF kind \in {"row_i4", "rowsum_i4"} THEN len \div 2 ELSE len * rows)
=============================================================================
