---------------------------- MODULE WarmSchema -----------------------------
(***************************************************************************)
(* The one-slot warm-schema cache (infer in firmware/main/fw_main.c) and   *)
(* the encoder passes that fill and use it (ne_encode, ne_schema_capture,  *)
(* ne_encode_warm, enc_from_layer in engine/needle_engine.c).              *)
(*                                                                         *)
(* Numbers are abstracted to where they come from.  A row of the residual  *)
(* is the token it started from, how many layers were applied to it and    *)
(* the prompts whose tokens flowed into it; a K/V row also keeps the       *)
(* position it was rotated for.  One query runs at a time (BoardServer).   *)
(* Both front ends pass valid ids only, so an encode does not fail; an     *)
(* allocation may.                                                         *)
(***************************************************************************)
EXTENDS Integers

CONSTANTS
  Prompts,    \* id lists: a query, then perhaps <tools> and a schema
  Schemas,    \* the id lists from <tools> on
  NQ,         \* NQ[p]: rows of p before <tools>
  Schema,     \* Schema[p]: the schema p carries, None if it has no <tools>
  NS,         \* NS[s]: rows of schema s
  MinNS,      \* WARM_MIN_NS
  F,          \* NE_WARM_F: layers whose schema K/V are kept
  EncLayers,  \* NE_ENC_LAYERS
  MaxRows,    \* NE_MAX_ENC
  Objs,       \* cache objects malloc can hand out
  None

Rows(p) == NQ[p] + (IF Schema[p] = None THEN 0 ELSE NS[Schema[p]])

ASSUME WarmAssumption ==
  /\ None \notin Prompts \cup Schemas \cup Objs
  /\ Schema \in [Prompts -> Schemas \cup {None}]
  /\ NQ \in [Prompts -> Nat]
  /\ NS \in [Schemas -> Nat \ {0}]
  /\ MinNS \in Nat \ {0}
  /\ F \in Nat \ {0} /\ EncLayers \in Nat /\ F < EncLayers
  /\ MaxRows \in Nat
  /\ \A p \in Prompts : Rows(p) \in 1 .. MaxRows

VARIABLES
  pc,      \* idle, or where the encoder pass is
  mode,    \* exact, capture or warm
  prompt,  \* the ids being encoded
  layer,   \* the layer it is at
  x,       \* residual rows (ctx->enc_x)
  k,       \* K/V rows of the current layer (the arena)
  heap,    \* heap[o]: cache object o, None when free
  slot,    \* g_warm
  cap,     \* ws_cap
  capNq,   \* ws_cap_nq
  path     \* g_infer_path

passVars == <<pc, mode, prompt, layer>>
vars == <<passVars, x, k, heap, slot, cap, capNq, path>>

-----------------------------------------------------------------------------

Row   == 0 .. MaxRows - 1
Layer == 0 .. EncLayers - 1

(* The token in row r of prompt p.  Prompts with the same schema have the  *)
(* same tokens there, at positions that depend on their query.             *)
Token(p, r) == IF r < NQ[p] THEN <<p, r>> ELSE <<Schema[p], r - NQ[p]>>

Embedded(p, r) == [tok |-> Token(p, r), depth |-> 0, from |-> {p}]

Garbage == [tok |-> <<None, 0>>, depth |-> 0, from |-> {}]
KVGarbage == [tok |-> <<None, 0>>, pos |-> 0, depth |-> 0, from |-> {}]

(* A block fresh from malloc, but for its key.                             *)
NewCache(p) ==
  [key |-> Schema[p], src |-> p,
   k   |-> [l \in 0 .. F - 1 |-> [i \in 0 .. NS[Schema[p]] - 1 |-> KVGarbage]],
   x   |-> [i \in 0 .. NS[Schema[p]] - 1 |-> Garbage]]

Init ==
  /\ pc = "idle" /\ mode = "exact" /\ prompt = None /\ layer = 0
  /\ x = [r \in Row |-> Garbage]
  /\ k = [r \in Row |-> KVGarbage]
  /\ heap = [o \in Objs |-> None]
  /\ slot = None
  /\ cap = None /\ capNq = 0
  /\ path = "e"
-----------------------------------------------------------------------------

(* MUTANT: the slot is compared by the schema's length alone.              *)
MatchesByLength(p) ==
  /\ slot # None
  /\ Schema[p] # None
  /\ NS[Schema[p]] = NS[heap[slot].key]

(* ne_schema_cache_matches on g_warm; ne_encode_warm checks the same again.*)
Matches(p) ==
  /\ slot # None
  /\ Schema[p] # None
  /\ heap[slot].key = Schema[p]

(* A schema worth a slot.                                                  *)
Big(p) == Schema[p] # None /\ NS[Schema[p]] >= MinNS

(* MUTANT: only query rows are embedded, whatever the mode.                *)
StartPassQueryOnly(m, p) ==
  /\ pc' = "project" /\ mode' = m /\ prompt' = p /\ layer' = 0
  /\ x' = [r \in Row |-> IF r < NQ[p] THEN Embedded(p, r) ELSE x[r]]

(* Every row is embedded, but a warm encode embeds the query's rows only.  *)
StartPass(m, p) ==
  /\ pc' = "project" /\ mode' = m /\ prompt' = p /\ layer' = 0
  /\ x' = [r \in Row |->
             IF r < (IF m = "warm" THEN NQ[p] ELSE Rows(p)) THEN Embedded(p, r) ELSE x[r]]

(* run_query_ref: the console encodes exactly and knows nothing of the slot.*)
ConsoleEncode(p) ==
  /\ pc = "idle"
  /\ StartPass("exact", p)
  /\ UNCHANGED <<k, heap, slot, cap, capNq, path>>

(* infer, the slot matches.                                                *)
WarmEncode(p) ==
  /\ pc = "idle"
  /\ Matches(p)
  /\ StartPass("warm", p)
  /\ path' = "e"
  /\ UNCHANGED <<k, heap, slot, cap, capNq>>

(* infer, no match and a schema worth keeping: ne_schema_capture arms the  *)
(* hooks and encodes.  The old slot is still allocated.                    *)
CaptureEncode(p) ==
  /\ pc = "idle"
  /\ ~Matches(p) /\ Big(p)
  /\ \E o \in Objs : /\ heap[o] = None
                      /\ heap' = [heap EXCEPT ![o] = NewCache(p)]
                      /\ cap' = o
  /\ capNq' = NQ[p]
  /\ StartPass("capture", p)
  /\ path' = "e"
  /\ UNCHANGED <<k, slot>>

(* infer, no match and either a schema too small or one of the capture's   *)
(* five allocations failing (what was allocated is freed again).           *)
ExactEncode(p) ==
  /\ pc = "idle"
  /\ ~Matches(p)
  /\ StartPass("exact", p)
  /\ path' = "e"
  /\ UNCHANGED <<k, heap, slot, cap, capNq>>

-----------------------------------------------------------------------------

(* ne_encode_warm's phase A: only query rows are computed.                 *)
Partial == mode = "warm" /\ layer < F

Computed(r) == r < (IF Partial THEN NQ[prompt] ELSE Rows(prompt))

(* K/V of row r projected from the residual and rotated for position r.    *)
Fresh(r) == [tok |-> x[r].tok, pos |-> r, depth |-> x[r].depth, from |-> x[r].from]

(* The K/V rows attention reads: in phase A the schema's come from the     *)
(* cache (ws_load_kv).                                                     *)
KV(r) ==
  IF Computed(r) THEN Fresh(r)
  ELSE IF Partial /\ r < Rows(prompt) THEN heap[slot].k[layer][r - NQ[prompt]]
         ELSE k[r]

(* MUTANT: the hook copies from the head of the sequence.                  *)
SaveKVFromHead ==
  [heap EXCEPT ![cap].k[layer] = [i \in DOMAIN @ |-> k'[i]]]

(* MUTANT: the hook runs before the rotation.                              *)
SaveKVUnrotated ==
  [heap EXCEPT ![cap].k[layer] = [i \in DOMAIN @ |-> [k'[capNq + i] EXCEPT !.pos = 0]]]

(* ws_save_kv: into the object being captured, with the offset of capture. *)
SaveKV == [heap EXCEPT ![cap].k[layer] = [i \in DOMAIN @ |-> k'[capNq + i]]]

(* A layer's projections, head norms and rotation.                         *)
Project ==
  /\ pc = "project"
  /\ k' = [r \in Row |-> KV(r)]
  /\ heap' = IF cap # None /\ layer < F THEN SaveKV ELSE heap
  /\ pc' = "attend"
  /\ UNCHANGED <<mode, prompt, layer, x, slot, cap, capNq, path>>

(* Row r after the layer: it attends to every key row of the prompt.       *)
Advanced(r) ==
  [tok |-> x[r].tok, depth |-> x[r].depth + 1,
   from |-> x[r].from \cup UNION {k[j].from : j \in 0 .. Rows(prompt) - 1}]

(* MUTANT: the splice after phase A is forgotten.                          *)
ResidualUnspliced(r) == IF Computed(r) THEN Advanced(r) ELSE x[r]

(* The residual after the layer.  The last layer of phase A is followed by *)
(* the splice of the schema's cached rows (ws_load_x).                     *)
Residual(r) ==
  IF Computed(r) THEN Advanced(r)
  ELSE IF Partial /\ layer + 1 = F /\ r < Rows(prompt) THEN heap[slot].x[r - NQ[prompt]]
         ELSE x[r]

(* Attention, output projection and gated residual; ws_save_x_splice.      *)
Attend ==
  /\ pc = "attend"
  /\ x' = [r \in Row |-> Residual(r)]
  /\ heap' = IF cap # None /\ layer + 1 = F
               THEN [heap EXCEPT ![cap].x = [i \in DOMAIN @ |-> x'[capNq + i]]]
               ELSE heap
  /\ layer' = layer + 1
  /\ pc' = IF layer + 1 = EncLayers THEN "finish" ELSE "project"
  /\ UNCHANGED <<mode, prompt, k, slot, cap, capNq, path>>

(* MUTANT: the hooks stay armed after the capture.                         *)
FinishArmed ==
  /\ pc = "finish"
  /\ pc' = "idle"
  /\ IF mode = "capture"
       THEN /\ heap' = [o \in Objs |-> IF slot # None /\ o = slot THEN None ELSE heap[o]]
            /\ slot' = cap
            /\ path' = "c"
       ELSE /\ path' = IF mode = "warm" THEN "w" ELSE path
            /\ UNCHANGED <<heap, slot>>
  /\ UNCHANGED <<mode, prompt, layer, x, k, cap, capNq>>

(* MUTANT: the old slot is not freed.                                      *)
FinishLeak ==
  /\ pc = "finish"
  /\ pc' = "idle"
  /\ IF mode = "capture"
       THEN slot' = cap /\ cap' = None /\ path' = "c"
       ELSE /\ path' = IF mode = "warm" THEN "w" ELSE path
            /\ UNCHANGED <<slot, cap>>
  /\ UNCHANGED <<mode, prompt, layer, x, k, heap, capNq>>

(* The encode is over (the final norm and the cross K/V are BoardServer's  *)
(* and decode uses nothing else of this).  A capture stops capturing and   *)
(* its object replaces the slot, whose old object is freed.                *)
Finish ==
  /\ pc = "finish"
  /\ pc' = "idle"
  /\ IF mode = "capture"
       THEN /\ heap' = [o \in Objs |-> IF slot # None /\ o = slot THEN None ELSE heap[o]]
            /\ slot' = cap
            /\ cap' = None
            /\ path' = "c"
       ELSE /\ path' = IF mode = "warm" THEN "w" ELSE path
            /\ UNCHANGED <<heap, slot, cap>>
  /\ UNCHANGED <<mode, prompt, layer, x, k, capNq>>

Next ==
  \/ \E p \in Prompts : \/ ConsoleEncode(p) \/ WarmEncode(p)
                        \/ CaptureEncode(p) \/ ExactEncode(p)
  \/ Project \/ Attend \/ Finish

Spec == Init /\ [][Next]_vars

-----------------------------------------------------------------------------

Tokens == {<<None, 0>>} \cup {Token(p, r) : p \in Prompts, r \in Row}
XRows  == [tok : Tokens, depth : 0 .. EncLayers, from : SUBSET Prompts]
KVRows == [tok : Tokens, pos : Row, depth : 0 .. EncLayers, from : SUBSET Prompts]

(* Cache objects of schema s.                                              *)
CacheOf(s) ==
  [key : {s}, src : Prompts,
   k   : [0 .. F - 1 -> [0 .. NS[s] - 1 -> KVRows]],
   x   : [0 .. NS[s] - 1 -> XRows]]

ASSUME CacheAssumption == \A s \in Schemas : None \notin CacheOf(s)

TypeOK ==
  /\ pc \in {"idle", "project", "attend", "finish"}
  /\ mode \in {"exact", "capture", "warm"}
  /\ prompt \in Prompts \cup {None}
  /\ layer \in 0 .. EncLayers
  /\ x \in [Row -> XRows]
  /\ k \in [Row -> KVRows]
  /\ DOMAIN heap = Objs
  /\ \A o \in Objs : heap[o] = None \/ \E s \in Schemas : heap[o] \in CacheOf(s)
  /\ slot \in Objs \cup {None} /\ cap \in Objs \cup {None}
  /\ capNq \in 0 .. MaxRows
  /\ path \in {"e", "c", "w"}

InPass(l) == pc = l /\ prompt # None

(* Attention never reads a key of another prompt's token or of another     *)
(* layer's depth: neither what an earlier encode left in the arena nor a   *)
(* cached row of the wrong layer (needle_engine.c:1985-1986).              *)
AttendsOwnLayer ==
  InPass("attend") => \A r \in 0 .. Rows(prompt) - 1 :
    k[r].tok = Token(prompt, r) /\ k[r].depth = layer

(* However it was encoded, every row of the prompt, and no fewer, is its   *)
(* own token after each of the layers exactly once (1896-2018).            *)
FullDepth ==
  InPass("finish") => \A r \in 0 .. Rows(prompt) - 1 :
    x[r].tok = Token(prompt, r) /\ x[r].depth = EncLayers

(* The approximation of a warm encode does not compound: whatever it read  *)
(* came from the prompt itself and the one prompt the slot was captured    *)
(* from.  An exact or capturing encode depends on its prompt alone.        *)
OnePromptApart ==
  InPass("finish") => \A r \in 0 .. Rows(prompt) - 1 :
    x[r].from \subseteq {prompt} \cup (IF mode = "warm" THEN {heap[slot].src} ELSE {})

(* A warm encode of the prompt the slot was captured from reads, row by    *)
(* row, what an exact encode reads (docs/notebook/RESULTS-WARMF4.md,       *)
(* "Fixture warm parity"): same positions, same influences.                *)
SelfWarmIsExact ==
  InPass("attend") /\ (mode = "warm" => heap[slot].src = prompt) =>
    \A r \in 0 .. Rows(prompt) - 1 :
      /\ k[r].pos = r
      /\ Computed(r) => k[r].from = x[r].from
      /\ k[r].from \subseteq {prompt}
      /\ layer > 0 => k[r].from = {prompt}

(* The slot holds a schema worth keeping, complete, and from one exact     *)
(* encode: K/V of each kept layer and the residual after the last of them. *)
SlotComplete ==
  slot # None =>
    LET c == heap[slot] IN
    /\ c # None
    /\ NS[c.key] >= MinNS
    /\ \A i \in 0 .. NS[c.key] - 1 :
         /\ \A l \in 0 .. F - 1 :
              c.k[l][i] = [tok |-> <<c.key, i>>, pos |-> NQ[c.src] + i, depth |-> l,
                           from |-> {c.src}]
         /\ c.x[i] = [tok |-> <<c.key, i>>, depth |-> F, from |-> {c.src}]

(* No encode writes into the slot: the hooks are armed during a capture    *)
(* and then only for the object being captured.                            *)
SlotImmutable == [][slot # None /\ slot' = slot => heap'[slot] = heap[slot]]_vars

(* Cache objects neither leak nor dangle: what is allocated is the slot    *)
(* and, during a capture, the object being captured.                       *)
NoLeak == {o \in Objs : heap[o] # None} = {slot, cap} \ {None}
=============================================================================
