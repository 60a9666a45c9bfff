--------------------------- MODULE QueryAttention ---------------------------
(***************************************************************************)
(* Attention over the life of a query on the vector build: the encoder's   *)
(* (EncAttention, one layer of it, on two cores) and then the mirrors      *)
(* decoding reads (DecodeMirrors), for prompts of any lengths one after    *)
(* the other.  A query with ne_force_scalar touches neither arena nor self *)
(* mirrors, but packs the cross mirrors all the same.                      *)
(***************************************************************************)
EXTENDS DecodeMirrors

CONSTANTS Heads

(* The static assertion before ne_attn_heads.                              *)
ASSUME HeadAssumption == Heads = 2 * KvHeads

VARIABLES
  encoded,              \* encoder layers attended to, over all queries
  keys, lanes,          \* S and Sp of the job
  arena_kq, arena_vq, ao,
  range, pos, work      \* the two cores

E == INSTANCE EncAttention WITH
       MaxS <- MaxEnc, Layers <- MaxQueries, Lengths <- 1 .. MaxEnc,
       layer <- encoded, S <- keys, Sp <- lanes, kq <- arena_kq, vq <- arena_vq, out <- ao

encVars == <<encoded, keys, lanes, arena_kq, arena_vq, ao, range, pos, work>>

QueryInit == Init /\ E!Init

(* enc_from_layer: attention first, unless scalar; the mirrors at its end. *)
StartQuery(n, split) ==
  /\ Encode(n)
  /\ IF scalar' THEN ~split /\ UNCHANGED encVars ELSE E!Layer(n, split)

Attend == (\E c \in E!Core : E!Step(c)) /\ UNCHANGED vars

PackMirrors == E!Quiet /\ PackLayer /\ UNCHANGED encVars

Give == (\E n \in 0 .. MaxEnc + 1 : Refuse(n) \/ BadToken(n)) /\ UNCHANGED encVars

Decode == (StartStep \/ StepLayer \/ Finish) /\ UNCHANGED encVars

QueryNext ==
  \/ \E n \in 1 .. MaxEnc, split \in BOOLEAN : StartQuery(n, split)
  \/ Attend \/ PackMirrors \/ Give \/ Decode

QuerySpec == QueryInit /\ [][QueryNext]_<<vars, encVars>>

-----------------------------------------------------------------------------

(* Whatever prompts came before, when both cores have come back every row  *)
(* of every head of the encoder's attention is its own: no head left with  *)
(* an older layer's row, none mixed with the other core's, no padded lane  *)
(* counted ("wrong logits", engine.c:1391-1395).                           *)
AttentionIsOwn == E!AttentionIsOwn
=============================================================================
