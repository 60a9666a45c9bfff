-------------------------- MODULE WarmSchemaProofs --------------------------
(***************************************************************************)
(* The warm-schema cache for any prompts, schemas, layers and objects.     *)
(*                                                                         *)
(* What attention reads in a warm encode was written one or many encodes   *)
(* ago, so the invariant follows a cached row from the hook that saved it: *)
(* CapInv says how much of the object being captured is final, SlotInv     *)
(* that the slot is, WarmInv that a warm encode runs with the slot it      *)
(* matched.  Of the pass itself ResidualInv and KeyInv say what each row   *)
(* of the prompt holds; the rows beyond it, which keep what earlier        *)
(* encodes left there, are never spoken of.                                *)
(***************************************************************************)
EXTENDS WarmSchema, TLAPS

Running == pc # "idle"

(* Whose tokens may have flowed into a row of this encode.                 *)
Allowed == {prompt} \cup (IF mode = "warm" THEN {heap[slot].src} ELSE {})

PassInv ==
  Running =>
    /\ prompt \in Prompts
    /\ pc = "finish" => layer = EncLayers
    /\ pc # "finish" => layer < EncLayers

(* A row of the prompt that this encode has computed or spliced in.        *)
RowInv(r) ==
  /\ x[r].tok = Token(prompt, r)
  /\ x[r].depth = layer
  /\ x[r].from # {} /\ x[r].from \subseteq Allowed

ResidualInv ==
  Running => \A r \in 0 .. Rows(prompt) - 1 : Computed(r) => RowInv(r)

(* A key row attention reads.                                              *)
KeyRowInv(r) ==
  /\ k[r].tok = Token(prompt, r)
  /\ k[r].depth = layer
  /\ Computed(r) => k[r].pos = r /\ k[r].from = x[r].from
  /\ ~Computed(r) => /\ k[r].pos = NQ[heap[slot].src] + (r - NQ[prompt])
                     /\ k[r].from = {heap[slot].src}

KeyInv == pc = "attend" => \A r \in 0 .. Rows(prompt) - 1 : KeyRowInv(r)

(* What a capture of p leaves in row i of the schema, at layer l.          *)
CachedK(p, l, i) ==
  [tok |-> <<Schema[p], i>>, pos |-> NQ[p] + i, depth |-> l, from |-> {p}]
CachedX(p, i) ==
  [tok |-> <<Schema[p], i>>, depth |-> F, from |-> {p}]

KSaved(c, l) == \A i \in 0 .. NS[c.key] - 1 : c.k[l][i] = CachedK(c.src, l, i)
XSaved(c) == \A i \in 0 .. NS[c.key] - 1 : c.x[i] = CachedX(c.src, i)

(* The object being captured: its layers are final once projected, its     *)
(* residual once the last kept layer is done.                              *)
CapInv ==
  /\ cap # None <=> Running /\ mode = "capture"
  /\ cap # None =>
       /\ heap[cap] \in CacheOf(Schema[prompt])
       /\ heap[cap].src = prompt
       /\ Big(prompt) /\ capNq = NQ[prompt]
       /\ \A l \in 0 .. F - 1 :
            l < layer \/ (l = layer /\ pc = "attend") => KSaved(heap[cap], l)
       /\ F <= layer => XSaved(heap[cap])

Complete(c) ==
  /\ Schema[c.src] = c.key
  /\ NS[c.key] >= MinNS
  /\ \A l \in 0 .. F - 1 : KSaved(c, l)
  /\ XSaved(c)

SlotInv == slot # None => heap[slot] # None /\ Complete(heap[slot])

(* A warm encode runs with the slot it matched.                            *)
WarmInv ==
  Running /\ mode = "warm" =>
    /\ slot # None
    /\ Schema[prompt] # None /\ heap[slot].key = Schema[prompt]

(* An object is allocated if it is the slot or being captured, and never   *)
(* both.                                                                   *)
OwnerInv ==
  /\ \A o \in Objs : heap[o] # None <=> o \in {slot, cap}
  /\ cap # None => cap # slot

IInv ==
  /\ TypeOK /\ PassInv /\ ResidualInv /\ KeyInv
  /\ CapInv /\ SlotInv /\ WarmInv /\ OwnerInv

-----------------------------------------------------------------------------

(* Rows of a prompt and where its schema starts.                           *)
LEMMA RowFacts ==
  ASSUME NEW p \in Prompts
  PROVE  /\ NQ[p] \in Nat /\ Rows(p) \in 1 .. MaxRows /\ NQ[p] <= Rows(p)
         /\ \A r \in 0 .. Rows(p) - 1 : r \in Row
         /\ Schema[p] # None => /\ Schema[p] \in Schemas
                                /\ NS[Schema[p]] \in Nat \ {0}
                                /\ Rows(p) = NQ[p] + NS[Schema[p]]
         /\ Schema[p] = None => Rows(p) = NQ[p]
BY WarmAssumption DEF Rows, Row

(* A row of the schema and the token in it.                                *)
LEMMA SchemaRow ==
  ASSUME NEW p \in Prompts, NEW r \in 0 .. Rows(p) - 1, r >= NQ[p]
  PROVE  /\ Schema[p] # None
         /\ r - NQ[p] \in 0 .. NS[Schema[p]] - 1
         /\ Token(p, r) = <<Schema[p], r - NQ[p]>>
BY RowFacts DEF Token

(* The same row counted from the schema's start.                           *)
LEMMA RowOfSchema ==
  ASSUME NEW p \in Prompts, Schema[p] # None, NEW i \in 0 .. NS[Schema[p]] - 1
  PROVE  /\ NQ[p] + i \in 0 .. Rows(p) - 1 /\ NQ[p] + i \in Row
         /\ Token(p, NQ[p] + i) = <<Schema[p], i>>
BY RowFacts DEF Token

(* Every row of every prompt has a token.                                  *)
LEMMA TokenType == ASSUME NEW p \in Prompts, NEW r \in Row PROVE Token(p, r) \in Tokens
BY DEF Tokens

(* The rows a pass starts from are its own.                                *)
LEMMA StartFacts ==
  ASSUME TypeOK, NEW p \in Prompts, NEW m \in {"exact", "capture", "warm"}, StartPass(m, p)
  PROVE  /\ x' \in [Row -> XRows]
         /\ pc' = "project" /\ mode' = m /\ prompt' = p /\ layer' = 0
         /\ PassInv' /\ ResidualInv' /\ KeyInv'
<1>1. /\ pc' = "project" /\ mode' = m /\ prompt' = p /\ layer' = 0
      /\ 0 < EncLayers /\ 0 < F /\ 0 \in 0 .. EncLayers
  BY WarmAssumption DEF StartPass
<1>2. \A r \in Row : Embedded(p, r) \in XRows
  BY <1>1, TokenType DEF Embedded, XRows
<1>3. x' \in [Row -> XRows]
  BY <1>2 DEF StartPass, TypeOK
<1>4. PassInv'
  BY <1>1 DEF PassInv, Running
<1>5. ASSUME NEW r \in 0 .. Rows(p) - 1, Computed(r)' PROVE RowInv(r)'
  <2>1. r \in Row
    BY RowFacts
  <2>2. x'[r] = Embedded(p, r)
    BY <1>1, <1>5, <2>1 DEF StartPass, Computed, Partial
  <2> QED
    BY <1>1, <2>2 DEF RowInv, Embedded, Allowed
<1>6. ResidualInv'
  BY <1>1, <1>5 DEF ResidualInv
<1>7. KeyInv'
  BY <1>1 DEF KeyInv
<1> QED
  BY <1>1, <1>3, <1>4, <1>6, <1>7

(* ConsoleEncode, WarmEncode and ExactEncode leave the objects alone.      *)
LEMMA PlainStart ==
  ASSUME IInv, NEW p \in Prompts, NEW m \in {"exact", "warm"}, StartPass(m, p),
         pc = "idle", m = "warm" => Matches(p),
         UNCHANGED <<k, heap, slot, cap, capNq>>, path' \in {"e", "c", "w"}
  PROVE  IInv'
<1>1. /\ x' \in [Row -> XRows]
      /\ pc' = "project" /\ mode' = m /\ prompt' = p /\ layer' = 0
      /\ PassInv' /\ ResidualInv' /\ KeyInv'
  BY StartFacts DEF IInv
<1>2. cap = None
  BY DEF IInv, CapInv, Running
<1>3. TypeOK'
  BY <1>1, WarmAssumption DEF IInv, TypeOK
<1>4. CapInv'
  BY <1>1, <1>2 DEF CapInv
<1>5. SlotInv'
  BY DEF IInv, SlotInv
<1>6. WarmInv'
  BY <1>1 DEF WarmInv, Matches
<1>7. OwnerInv'
  BY DEF IInv, OwnerInv
<1> QED
  BY <1>1, <1>3, <1>4, <1>5, <1>6, <1>7 DEF IInv

(* A fresh object is one of its schema's.                                  *)
LEMMA NewCacheType ==
  ASSUME NEW p \in Prompts, Schema[p] # None
  PROVE  NewCache(p) \in CacheOf(Schema[p]) /\ NewCache(p).src = p
<1>1. KVGarbage \in KVRows /\ Garbage \in XRows
  BY RowFacts, WarmAssumption DEF KVGarbage, Garbage, KVRows, XRows, Tokens, Row
<1> QED
  BY <1>1 DEF NewCache, CacheOf

(* A capture arms the hooks with an object of its own.                     *)
LEMMA CaptureStart ==
  ASSUME IInv, NEW p \in Prompts, CaptureEncode(p)
  PROVE  IInv'
<1>1. /\ x' \in [Row -> XRows]
      /\ pc' = "project" /\ mode' = "capture" /\ prompt' = p /\ layer' = 0
      /\ PassInv' /\ ResidualInv' /\ KeyInv'
  BY StartFacts DEF IInv, CaptureEncode
<1>2. PICK o \in Objs : heap[o] = None /\ heap' = [heap EXCEPT ![o] = NewCache(p)] /\ cap' = o
  BY DEF CaptureEncode
<1>3. Schema[p] # None /\ Schema[p] \in Schemas /\ Big(p)
  BY RowFacts DEF CaptureEncode, Big
<1>4. /\ DOMAIN heap' = Objs
      /\ heap'[o] = NewCache(p) /\ heap'[o] \in CacheOf(Schema[p]) /\ heap'[o].src = p
      /\ heap'[o] # None
      /\ \A q \in Objs : q # o => heap'[q] = heap[q]
  BY <1>2, <1>3, NewCacheType, CacheAssumption DEF IInv, TypeOK
<1>5. cap = None /\ slot' = slot /\ slot # o
  <2>1. cap = None /\ slot' = slot
    BY DEF IInv, CapInv, CaptureEncode, Running
  <2> QED
    BY <1>2, <2>1 DEF IInv, OwnerInv
<1>6. TypeOK'
  <2>1. \A q \in Objs : heap'[q] = None \/ \E s \in Schemas : heap'[q] \in CacheOf(s)
    BY <1>3, <1>4 DEF IInv, TypeOK
  <2>2. capNq' \in 0 .. MaxRows
    BY RowFacts, WarmAssumption DEF CaptureEncode
  <2>3. /\ k' = k /\ path' = "e" /\ cap' \in Objs
        /\ slot' \in Objs \cup {None}
    BY <1>2, <1>5 DEF CaptureEncode, IInv, TypeOK
  <2> QED
    BY <1>1, <1>4, <2>1, <2>2, <2>3, WarmAssumption DEF IInv, TypeOK
<1>7. CapInv'
  <2>1. capNq' = NQ[p] /\ o # None
    BY WarmAssumption DEF CaptureEncode
  <2> QED
    BY <1>1, <1>2, <1>3, <1>4, <2>1, WarmAssumption DEF CapInv, Running, Big
<1>8. SlotInv'
  <2>1. slot # None => heap'[slot] = heap[slot]
    BY <1>4, <1>5 DEF IInv, TypeOK
  <2> QED
    BY <1>5, <2>1 DEF IInv, SlotInv, Complete, KSaved, XSaved
<1>9. WarmInv'
  BY <1>1 DEF WarmInv
<1>10. OwnerInv'
  <2>1. ASSUME NEW q \in Objs PROVE heap'[q] # None <=> q \in {slot', cap'}
    <3>1. CASE q = o
      BY <1>2, <1>4, <3>1
    <3>2. CASE q # o
      <4>1. heap'[q] # None <=> q \in {slot, cap}
        BY <1>4, <3>2 DEF IInv, OwnerInv
      <4> QED
        BY <1>2, <1>5, <3>2, <4>1, WarmAssumption
    <3> QED
      BY <3>1, <3>2
  <2> QED
    BY <1>2, <1>5, <2>1 DEF OwnerInv
<1> QED
  BY <1>1, <1>6, <1>7, <1>8, <1>9, <1>10 DEF IInv

(* One layer of K/V saved into an object changes nothing else of it.       *)
LEMMA SaveKFacts ==
  ASSUME NEW s \in Schemas, NEW c \in CacheOf(s), NEW l \in 0 .. F - 1,
         NEW f \in [0 .. NS[s] - 1 -> KVRows]
  PROVE  LET d == [c EXCEPT !.k[l] = f]
         IN  /\ d \in CacheOf(s) /\ d.key = c.key /\ d.src = c.src /\ d.x = c.x
             /\ d.k[l] = f
             /\ \A m \in 0 .. F - 1 : m # l => d.k[m] = c.k[m]
BY DEF CacheOf

(* The key rows of a pass: its own projections, and in phase A the slot's  *)
(* rows for the schema.                                                    *)
LEMMA ProjectKeys ==
  ASSUME IInv, Project
  PROVE  /\ k' \in [Row -> KVRows]
         /\ \A r \in 0 .. Rows(prompt) - 1 : Computed(r) => k'[r] = Fresh(r)
         /\ \A r \in 0 .. Rows(prompt) - 1 : ~Computed(r) =>
              /\ mode = "warm" /\ layer < F /\ r >= NQ[prompt]
              /\ k'[r] = CachedK(heap[slot].src, layer, r - NQ[prompt])
              /\ Schema[heap[slot].src] = Schema[prompt]
<1>1. prompt \in Prompts /\ layer \in 0 .. EncLayers
  BY DEF IInv, PassInv, Running, Project, TypeOK
<1>2. ASSUME NEW r \in 0 .. Rows(prompt) - 1, ~Computed(r)
      PROVE  /\ mode = "warm" /\ layer < F /\ r >= NQ[prompt]
             /\ KV(r) = CachedK(heap[slot].src, layer, r - NQ[prompt])
             /\ Schema[heap[slot].src] = Schema[prompt]
             /\ KV(r) \in KVRows
  <2>1. Partial /\ mode = "warm" /\ layer < F /\ r >= NQ[prompt]
    BY <1>1, <1>2, RowFacts DEF Computed, Partial
  <2>2. /\ KV(r) = heap[slot].k[layer][r - NQ[prompt]]
        /\ r - NQ[prompt] \in 0 .. NS[Schema[prompt]] - 1
    BY <1>1, <1>2, <2>1, SchemaRow, RowFacts DEF KV
  <2>3. /\ slot # None /\ slot \in Objs /\ Schema[prompt] # None
        /\ heap[slot].key = Schema[prompt] /\ Complete(heap[slot]) /\ heap[slot] # None
    BY <2>1 DEF IInv, TypeOK, WarmInv, SlotInv, Running, Project
  <2>4. layer \in 0 .. F - 1
    BY <1>1, <2>1, WarmAssumption
  <2>5. KV(r) = CachedK(heap[slot].src, layer, r - NQ[prompt])
    BY <2>2, <2>3, <2>4 DEF Complete, KSaved
  <2>6. KV(r) \in KVRows
    <3>1. PICK s \in Schemas : heap[slot] \in CacheOf(s)
      BY <2>3 DEF IInv, TypeOK
    <3>2. s = Schema[prompt]
      BY <2>3, <3>1 DEF CacheOf
    <3>3. heap[slot].k \in [0 .. F - 1 -> [0 .. NS[s] - 1 -> KVRows]]
      BY <3>1 DEF CacheOf
    <3>4. heap[slot].k[layer] \in [0 .. NS[s] - 1 -> KVRows]
      BY <2>4, <3>3
    <3> QED
      BY <2>2, <3>2, <3>4
  <2> QED
    BY <2>1, <2>3, <2>5, <2>6 DEF Complete
<1>3. ASSUME NEW r \in Row PROVE Fresh(r) \in KVRows
  BY DEF Fresh, KVRows, XRows, IInv, TypeOK
<1>4. ASSUME NEW r \in Row PROVE KV(r) \in KVRows
  <2>1. CASE r \in 0 .. Rows(prompt) - 1 /\ ~Computed(r)
    BY <1>2, <2>1
  <2>2. CASE Computed(r)
    BY <1>3, <2>2 DEF KV
  <2>3. CASE ~Computed(r) /\ r \notin 0 .. Rows(prompt) - 1
    <3>1. ~(r < Rows(prompt))
      BY <1>1, <2>3, RowFacts DEF Row
    <3>2. KV(r) = k[r]
      BY <2>3, <3>1 DEF KV
    <3> QED
      BY <3>2 DEF IInv, TypeOK
  <2> QED
    BY <2>1, <2>2, <2>3
<1>5. k' = [r \in Row |-> KV(r)]
  BY DEF Project
<1>6. \A r \in 0 .. Rows(prompt) - 1 : k'[r] = KV(r)
  BY <1>1, <1>5, RowFacts
<1>7. k' \in [Row -> KVRows]
  BY <1>4, <1>5
<1>8. \A r \in 0 .. Rows(prompt) - 1 : Computed(r) => k'[r] = Fresh(r)
  BY <1>6 DEF KV
<1> QED
  BY <1>2, <1>6, <1>7, <1>8

(* The hook saves the schema's rows as they were just computed, into the   *)
(* object being captured and nowhere else.                                 *)
LEMMA ProjectSaves ==
  ASSUME IInv, Project, cap # None, layer < F
  PROVE  /\ DOMAIN heap' = Objs
         /\ heap'[cap] \in CacheOf(Schema[prompt]) /\ heap'[cap].src = prompt
         /\ \A l \in 0 .. F - 1 : l <= layer => KSaved(heap'[cap], l)
         /\ \A o \in Objs : o # cap => heap'[o] = heap[o]
<1> DEFINE c == heap[cap]
           f == [i \in DOMAIN c.k[layer] |-> k'[capNq + i]]
           s == Schema[prompt]
<1>1. /\ cap \in Objs /\ mode = "capture" /\ prompt \in Prompts /\ DOMAIN heap = Objs
      /\ c \in CacheOf(s) /\ c.src = prompt /\ capNq = NQ[prompt]
      /\ layer \in 0 .. F - 1
  BY WarmAssumption DEF IInv, TypeOK, CapInv, PassInv, Running, Project
<1>2. s # None /\ s \in Schemas /\ NS[s] \in Nat
  BY <1>1, RowFacts DEF IInv, CapInv, Big
<1>3. c.key = s /\ DOMAIN c.k[layer] = 0 .. NS[s] - 1
  BY <1>1 DEF CacheOf
<1>4. ASSUME NEW i \in 0 .. NS[s] - 1
      PROVE  f[i] = CachedK(prompt, layer, i) /\ f[i] \in KVRows
  <2>1. /\ NQ[prompt] + i \in 0 .. Rows(prompt) - 1 /\ NQ[prompt] + i \in Row
        /\ Token(prompt, NQ[prompt] + i) = <<s, i>>
    BY <1>1, <1>2, RowOfSchema
  <2>2. Computed(NQ[prompt] + i)
    BY <1>1, <2>1, RowFacts DEF Computed, Partial
  <2>3. f[i] = Fresh(NQ[prompt] + i)
    BY <1>1, <1>3, <2>1, <2>2, ProjectKeys
  <2>4. RowInv(NQ[prompt] + i)
    BY <2>1, <2>2 DEF IInv, ResidualInv, Running, Project
  <2>5. x[NQ[prompt] + i].from = {prompt}
    BY <1>1, <2>4 DEF RowInv, Allowed
  <2>6. f[i] = CachedK(prompt, layer, i)
    BY <2>1, <2>3, <2>4, <2>5 DEF RowInv, Fresh, CachedK
  <2>7. f[i] \in KVRows
    BY <1>1, <1>3, <2>1, ProjectKeys
  <2> QED
    BY <2>6, <2>7
<1>5. f \in [0 .. NS[s] - 1 -> KVRows]
  BY <1>3, <1>4
<1> DEFINE d == [c EXCEPT !.k[layer] = f]
<1>6. heap' = [heap EXCEPT ![cap] = d]
  BY DEF Project, SaveKV
<1>7. /\ d \in CacheOf(s) /\ d.key = c.key /\ d.src = c.src
      /\ d.k[layer] = f
      /\ \A m \in 0 .. F - 1 : m # layer => d.k[m] = c.k[m]
  <2> HIDE DEF c, f, s
  <2> QED
    BY <1>1, <1>2, <1>5, SaveKFacts
<1> HIDE DEF d
<1>8. heap'[cap] = d /\ DOMAIN heap' = Objs /\ \A o \in Objs : o # cap => heap'[o] = heap[o]
  BY <1>1, <1>6
<1>9. ASSUME NEW l \in 0 .. F - 1, l <= layer PROVE KSaved(d, l)
  <2>1. CASE l = layer
    <3> HIDE DEF f
    <3> QED
      BY <1>1, <1>3, <1>4, <1>7, <2>1 DEF KSaved
  <2>2. CASE l # layer
    <3>1. KSaved(c, l)
      BY <1>1, <1>9, <2>2 DEF IInv, CapInv, TypeOK
    <3> QED
      BY <1>7, <2>2, <3>1 DEF KSaved
  <2> QED
    BY <2>1, <2>2
<1> QED
  BY <1>1, <1>7, <1>8, <1>9

(* A layer's projections keep the invariant.                               *)
LEMMA ProjectInv ==
  ASSUME IInv, Project
  PROVE  IInv'
<1>1. /\ pc = "project" /\ pc' = "attend"
      /\ UNCHANGED <<mode, prompt, layer, x, slot, cap, capNq, path>>
  BY DEF Project
<1>2. /\ prompt \in Prompts /\ layer \in 0 .. EncLayers /\ layer < EncLayers
      /\ DOMAIN heap = Objs
  BY <1>1 DEF IInv, TypeOK, PassInv, Running
<1>3. heap' = heap \/ (cap # None /\ layer < F)
  BY DEF Project
<1>4. cap # None => cap \in Objs /\ mode = "capture" /\ cap # slot
  BY DEF IInv, TypeOK, CapInv, OwnerInv
<1>5. /\ DOMAIN heap' = Objs
      /\ \A o \in Objs : o # cap => heap'[o] = heap[o]
  BY <1>2, <1>3, ProjectSaves
<1>6. slot # None => slot \in Objs /\ heap'[slot] = heap[slot]
  BY <1>4, <1>5 DEF IInv, TypeOK
<1>7. cap # None => heap'[cap] \in CacheOf(Schema[prompt])
  BY <1>3, ProjectSaves DEF IInv, CapInv
<1>8. cap # None => Schema[prompt] \in Schemas /\ heap'[cap] # None
  BY <1>2, <1>7, RowFacts, CacheAssumption DEF IInv, CapInv, Big
<1>9. TypeOK'
  <2>1. \A o \in Objs : heap'[o] = None \/ \E s \in Schemas : heap'[o] \in CacheOf(s)
    BY <1>5, <1>7, <1>8, WarmAssumption DEF IInv, TypeOK
  <2>2. k' \in [Row -> KVRows]
    BY ProjectKeys
  <2> QED
    BY <1>1, <1>5, <2>1, <2>2 DEF IInv, TypeOK
<1>10. PassInv'
  BY <1>1, <1>2 DEF PassInv
<1>11. mode = "warm" => Allowed' = Allowed /\ heap' = heap
  BY <1>1, <1>3, <1>4 DEF Allowed
<1>12. ResidualInv'
  <2>1. ASSUME NEW r \in 0 .. Rows(prompt) - 1, Computed(r) PROVE RowInv(r)'
    <3>1. RowInv(r)
      BY <1>1, <2>1 DEF IInv, ResidualInv, Running
    <3>2. Allowed' = Allowed
      BY <1>1, <1>11 DEF Allowed
    <3> QED
      BY <1>1, <3>1, <3>2 DEF RowInv
  <2> QED
    BY <1>1, <2>1 DEF ResidualInv, Computed, Partial
<1>13. KeyInv'
  <2>1. ASSUME NEW r \in 0 .. Rows(prompt) - 1 PROVE KeyRowInv(r)'
    <3>1. Computed(r)' <=> Computed(r)
      BY <1>1 DEF Computed, Partial
    <3>2. CASE Computed(r)
      <4>1. k'[r] = Fresh(r) /\ RowInv(r)
        BY <1>1, <3>2, ProjectKeys DEF IInv, ResidualInv, Running
      <4> QED
        BY <1>1, <3>1, <3>2, <4>1 DEF KeyRowInv, RowInv, Fresh
    <3>3. CASE ~Computed(r)
      <4>1. /\ mode = "warm" /\ r >= NQ[prompt]
            /\ k'[r] = CachedK(heap[slot].src, layer, r - NQ[prompt])
            /\ Schema[heap[slot].src] = Schema[prompt]
        BY <3>3, ProjectKeys
      <4>2. Token(prompt, r) = <<Schema[prompt], r - NQ[prompt]>>
        BY <1>2, <4>1, SchemaRow
      <4> QED
        BY <1>1, <1>11, <3>1, <3>3, <4>1, <4>2 DEF KeyRowInv, CachedK
    <3> QED
      BY <3>2, <3>3
  <2> QED
    BY <1>1, <2>1 DEF KeyInv
<1>14. CapInv'
  <2>1. CASE cap = None
    BY <1>1, <2>1 DEF IInv, CapInv, Running
  <2>2. CASE cap # None /\ layer < F
    <3>1. /\ heap'[cap].src = prompt
          /\ \A l \in 0 .. F - 1 : l <= layer => KSaved(heap'[cap], l)
      BY <2>2, ProjectSaves
    <3>2. ~(F <= layer)
      BY <1>2, <2>2, WarmAssumption
    <3>3. \A l \in 0 .. F - 1 : l < layer \/ l = layer => l <= layer
      BY <1>2, WarmAssumption
    <3> QED
      BY <1>1, <1>7, <2>2, <3>1, <3>2, <3>3 DEF IInv, CapInv, Running, Big
  <2>3. CASE cap # None /\ ~(layer < F)
    <3>1. heap' = heap
      BY <2>3 DEF Project
    <3>2. \A l \in 0 .. F - 1 : l < layer
      BY <1>2, <2>3, WarmAssumption
    <3> QED
      BY <1>1, <2>3, <3>1, <3>2 DEF IInv, CapInv, Running, Big
  <2> QED
    BY <2>1, <2>2, <2>3
<1>15. SlotInv'
  BY <1>1, <1>6 DEF IInv, SlotInv, Complete, KSaved, XSaved
<1>16. WarmInv'
  BY <1>1, <1>6 DEF IInv, WarmInv, Running
<1>17. OwnerInv'
  <2>1. ASSUME NEW q \in Objs PROVE heap'[q] # None <=> q \in {slot, cap}
    BY <1>5, <1>8, WarmAssumption DEF IInv, OwnerInv
  <2> QED
    BY <1>1, <2>1 DEF IInv, OwnerInv
<1> QED
  BY <1>9, <1>10, <1>12, <1>13, <1>14, <1>15, <1>16, <1>17 DEF IInv

(* Attention mixes nothing into a row but what the prompt, or in a warm    *)
(* encode the slot's prompt, brought along.                                *)
LEMMA AttendRow ==
  ASSUME IInv, pc = "attend", NEW r \in 0 .. Rows(prompt) - 1, Computed(r)
  PROVE  /\ Advanced(r).tok = Token(prompt, r) /\ Advanced(r).depth = layer + 1
         /\ Advanced(r).from # {} /\ Advanced(r).from \subseteq Allowed
<1>1. prompt \in Prompts
  BY DEF IInv, PassInv, Running
<1>2. RowInv(r)
  BY DEF IInv, ResidualInv, Running
<1>3. ASSUME NEW j \in 0 .. Rows(prompt) - 1 PROVE k[j].from \subseteq Allowed
  <2>1. KeyRowInv(j)
    BY DEF IInv, KeyInv
  <2>2. CASE Computed(j)
    <3>1. RowInv(j)
      BY <2>2 DEF IInv, ResidualInv, Running
    <3> QED
      BY <2>1, <2>2, <3>1 DEF KeyRowInv, RowInv
  <2>3. CASE ~Computed(j)
    <3>1. mode = "warm"
      BY <1>1, <2>3, RowFacts DEF Computed, Partial
    <3> QED
      BY <2>1, <2>3, <3>1 DEF KeyRowInv, Allowed
  <2> QED
    BY <2>2, <2>3
<1>4. UNION {k[j].from : j \in 0 .. Rows(prompt) - 1} \subseteq Allowed
  BY <1>3
<1> QED
  BY <1>2, <1>4 DEF Advanced, RowInv

(* The residual after a layer: computed rows are one layer further, and    *)
(* after phase A the slot's rows join them.                                *)
LEMMA AttendResidual ==
  ASSUME IInv, Attend
  PROVE  /\ x' \in [Row -> XRows]
         /\ \A r \in 0 .. Rows(prompt) - 1 : Computed(r) => x'[r] = Advanced(r)
         /\ \A r \in 0 .. Rows(prompt) - 1 : ~Computed(r) /\ layer + 1 = F =>
              /\ mode = "warm"
              /\ x'[r] = CachedX(heap[slot].src, r - NQ[prompt])
              /\ Token(prompt, r) = <<Schema[heap[slot].src], r - NQ[prompt]>>
<1>1. prompt \in Prompts /\ layer \in 0 .. EncLayers /\ layer < EncLayers /\ pc = "attend"
  BY DEF IInv, PassInv, Running, Attend, TypeOK
<1>2. ASSUME NEW r \in 0 .. Rows(prompt) - 1, Computed(r) PROVE Advanced(r) \in XRows
  <2>1. /\ Advanced(r).tok = Token(prompt, r) /\ Advanced(r).depth = layer + 1
        /\ Advanced(r).from \subseteq Allowed
    BY <1>1, <1>2, AttendRow
  <2>2. Allowed \subseteq Prompts
    <3>1. CASE mode = "warm"
      <4>1. slot \in Objs /\ heap[slot] # None
        BY <1>1, <3>1 DEF IInv, TypeOK, WarmInv, SlotInv, Running
      <4>2. heap[slot].src \in Prompts
        BY <4>1 DEF IInv, TypeOK, CacheOf
      <4> QED
        BY <1>1, <4>2 DEF Allowed
    <3>2. CASE mode # "warm"
      BY <1>1, <3>2 DEF Allowed
    <3> QED
      BY <3>1, <3>2
  <2>3. Token(prompt, r) \in Tokens
    BY <1>1, RowFacts, TokenType
  <2>4. layer + 1 \in 0 .. EncLayers
    BY <1>1, WarmAssumption
  <2>5. Advanced(r) = [tok |-> Advanced(r).tok, depth |-> Advanced(r).depth,
                       from |-> Advanced(r).from]
    BY DEF Advanced
  <2> QED
    BY <2>1, <2>2, <2>3, <2>4, <2>5 DEF XRows
<1>3. ASSUME NEW r \in 0 .. Rows(prompt) - 1, ~Computed(r), layer + 1 = F
      PROVE  /\ mode = "warm"
             /\ Residual(r) = CachedX(heap[slot].src, r - NQ[prompt])
             /\ Token(prompt, r) = <<Schema[heap[slot].src], r - NQ[prompt]>>
             /\ Residual(r) \in XRows
  <2>1. Partial /\ mode = "warm" /\ r >= NQ[prompt]
    BY <1>1, <1>3, RowFacts DEF Computed, Partial
  <2>2. /\ Residual(r) = heap[slot].x[r - NQ[prompt]]
        /\ r - NQ[prompt] \in 0 .. NS[Schema[prompt]] - 1
        /\ Token(prompt, r) = <<Schema[prompt], r - NQ[prompt]>>
    BY <1>1, <1>3, <2>1, SchemaRow, RowFacts DEF Residual
  <2>3. /\ slot # None /\ slot \in Objs
        /\ heap[slot].key = Schema[prompt] /\ Complete(heap[slot]) /\ heap[slot] # None
    BY <1>1, <2>1 DEF IInv, TypeOK, WarmInv, SlotInv, Running
  <2>4. Residual(r) = CachedX(heap[slot].src, r - NQ[prompt])
    BY <2>2, <2>3 DEF Complete, XSaved
  <2>5. heap[slot].x \in [0 .. NS[Schema[prompt]] - 1 -> XRows]
    BY <2>3 DEF IInv, TypeOK, CacheOf
  <2> QED
    BY <2>1, <2>2, <2>3, <2>4, <2>5 DEF Complete
<1>4. ASSUME NEW r \in Row PROVE Residual(r) \in XRows
  <2>1. CASE r \in 0 .. Rows(prompt) - 1 /\ Computed(r)
    BY <1>2, <2>1 DEF Residual
  <2>2. CASE r \in 0 .. Rows(prompt) - 1 /\ ~Computed(r) /\ layer + 1 = F
    BY <1>3, <2>2
  <2>3. CASE ~Computed(r) /\ ~(r < Rows(prompt) /\ layer + 1 = F)
    <3>1. Residual(r) = x[r]
      BY <2>3 DEF Residual
    <3> QED
      BY <3>1 DEF IInv, TypeOK
  <2>4. r < Rows(prompt) => r \in 0 .. Rows(prompt) - 1
    BY <1>1, RowFacts DEF Row
  <2>5. Computed(r) => r < Rows(prompt)
    BY <1>1, RowFacts DEF Row, Computed
  <2> QED
    BY <2>1, <2>2, <2>3, <2>4, <2>5
<1>5. x' = [r \in Row |-> Residual(r)]
  BY DEF Attend
<1>6. \A r \in 0 .. Rows(prompt) - 1 : x'[r] = Residual(r)
  BY <1>1, <1>5, RowFacts
<1>7. \A r \in 0 .. Rows(prompt) - 1 : Computed(r) => x'[r] = Advanced(r)
  BY <1>6 DEF Residual
<1> QED
  BY <1>3, <1>4, <1>5, <1>6, <1>7

(* The residual saved into an object changes nothing else of it.           *)
LEMMA SaveXFacts ==
  ASSUME NEW s \in Schemas, NEW c \in CacheOf(s), NEW f \in [0 .. NS[s] - 1 -> XRows]
  PROVE  LET d == [c EXCEPT !.x = f]
         IN  /\ d \in CacheOf(s) /\ d.key = c.key /\ d.src = c.src /\ d.k = c.k
             /\ d.x = f
BY DEF CacheOf

(* After the last kept layer the hook saves the schema's residual.         *)
LEMMA AttendSaves ==
  ASSUME IInv, Attend, cap # None, layer + 1 = F
  PROVE  /\ DOMAIN heap' = Objs
         /\ heap'[cap] \in CacheOf(Schema[prompt]) /\ heap'[cap].src = prompt
         /\ \A l \in 0 .. F - 1 : KSaved(heap[cap], l) => KSaved(heap'[cap], l)
         /\ XSaved(heap'[cap])
         /\ \A o \in Objs : o # cap => heap'[o] = heap[o]
<1> DEFINE c == heap[cap]
           f == [i \in DOMAIN c.x |-> x'[capNq + i]]
           s == Schema[prompt]
<1>1. /\ cap \in Objs /\ mode = "capture" /\ prompt \in Prompts /\ DOMAIN heap = Objs
      /\ c \in CacheOf(s) /\ c.src = prompt /\ capNq = NQ[prompt]
      /\ pc = "attend"
  BY DEF IInv, TypeOK, CapInv, PassInv, Running, Attend
<1>2. s # None /\ s \in Schemas /\ NS[s] \in Nat
  BY <1>1, RowFacts DEF IInv, CapInv, Big
<1>3. c.key = s /\ DOMAIN c.x = 0 .. NS[s] - 1
  BY <1>1 DEF CacheOf
<1>4. ASSUME NEW i \in 0 .. NS[s] - 1
      PROVE  f[i] = CachedX(prompt, i) /\ f[i] \in XRows
  <2>1. /\ NQ[prompt] + i \in 0 .. Rows(prompt) - 1 /\ NQ[prompt] + i \in Row
        /\ Token(prompt, NQ[prompt] + i) = <<s, i>>
    BY <1>1, <1>2, RowOfSchema
  <2>2. Computed(NQ[prompt] + i)
    BY <1>1, <2>1, RowFacts DEF Computed, Partial
  <2>3. f[i] = Advanced(NQ[prompt] + i)
    BY <1>1, <1>3, <2>1, <2>2, AttendResidual
  <2>4. /\ Advanced(NQ[prompt] + i).tok = <<s, i>> /\ Advanced(NQ[prompt] + i).depth = F
        /\ Advanced(NQ[prompt] + i).from = {prompt}
    BY <1>1, <2>1, <2>2, AttendRow DEF Allowed
  <2>5. Advanced(NQ[prompt] + i) = CachedX(prompt, i)
    BY <2>4 DEF Advanced, CachedX
  <2>6. f[i] \in XRows
    BY <1>1, <1>3, <2>1, AttendResidual
  <2> QED
    BY <2>3, <2>5, <2>6
<1>5. f \in [0 .. NS[s] - 1 -> XRows]
  BY <1>3, <1>4
<1> DEFINE d == [c EXCEPT !.x = f]
<1>6. heap' = [heap EXCEPT ![cap] = d]
  BY DEF Attend
<1>7. d \in CacheOf(s) /\ d.key = c.key /\ d.src = c.src /\ d.k = c.k /\ d.x = f
  <2> HIDE DEF c, f, s
  <2> QED
    BY <1>1, <1>2, <1>5, SaveXFacts
<1> HIDE DEF d
<1>8. heap'[cap] = d /\ DOMAIN heap' = Objs /\ \A o \in Objs : o # cap => heap'[o] = heap[o]
  BY <1>1, <1>6
<1>9. \A l \in 0 .. F - 1 : KSaved(c, l) => KSaved(d, l)
  <2> HIDE DEF c, f
  <2> QED
    BY <1>7 DEF KSaved
<1>10. XSaved(d)
  <2> HIDE DEF c, f
  <2> QED
    BY <1>1, <1>3, <1>4, <1>7 DEF XSaved
<1> QED
  BY <1>1, <1>7, <1>8, <1>9, <1>10

(* A layer's attention keeps the invariant.                                *)
LEMMA AttendInv ==
  ASSUME IInv, Attend
  PROVE  IInv'
<1>1. /\ pc = "attend" /\ layer' = layer + 1
      /\ pc' = IF layer + 1 = EncLayers THEN "finish" ELSE "project"
      /\ UNCHANGED <<mode, prompt, k, slot, cap, capNq, path>>
  BY DEF Attend
<1>2. /\ prompt \in Prompts /\ layer \in 0 .. EncLayers /\ layer < EncLayers
      /\ DOMAIN heap = Objs /\ layer \in Nat
  BY <1>1, WarmAssumption DEF IInv, TypeOK, PassInv, Running
<1>3. heap' = heap \/ (cap # None /\ layer + 1 = F)
  BY DEF Attend
<1>4. cap # None => cap \in Objs /\ mode = "capture" /\ cap # slot
  BY DEF IInv, TypeOK, CapInv, OwnerInv
<1>5. /\ DOMAIN heap' = Objs
      /\ \A o \in Objs : o # cap => heap'[o] = heap[o]
  BY <1>2, <1>3, AttendSaves
<1>6. slot # None => slot \in Objs /\ heap'[slot] = heap[slot]
  BY <1>4, <1>5 DEF IInv, TypeOK
<1>7. cap # None => heap'[cap] \in CacheOf(Schema[prompt])
  BY <1>3, AttendSaves DEF IInv, CapInv
<1>8. cap # None => Schema[prompt] \in Schemas /\ heap'[cap] # None
  BY <1>2, <1>7, RowFacts, CacheAssumption DEF IInv, CapInv, Big
<1>9. TypeOK'
  <2>1. \A o \in Objs : heap'[o] = None \/ \E s \in Schemas : heap'[o] \in CacheOf(s)
    BY <1>5, <1>7, <1>8, WarmAssumption DEF IInv, TypeOK
  <2>2. x' \in [Row -> XRows]
    BY AttendResidual
  <2>3. layer' \in 0 .. EncLayers
    BY <1>1, <1>2, WarmAssumption
  <2> QED
    BY <1>1, <1>5, <2>1, <2>2, <2>3 DEF IInv, TypeOK
<1>10. PassInv'
  BY <1>1, <1>2, WarmAssumption DEF PassInv
<1>11. Allowed' = Allowed
  <2>1. mode = "warm" => heap' = heap
    BY <1>3, <1>4
  <2> QED
    BY <1>1, <2>1 DEF Allowed
<1>12. ResidualInv'
  <2>1. ASSUME NEW r \in 0 .. Rows(prompt) - 1, Computed(r)' PROVE RowInv(r)'
    <3>1. CASE Computed(r)
      <4>1. x'[r] = Advanced(r)
        BY <3>1, AttendResidual
      <4>2. /\ Advanced(r).tok = Token(prompt, r) /\ Advanced(r).depth = layer + 1
            /\ Advanced(r).from # {} /\ Advanced(r).from \subseteq Allowed
        BY <1>1, <3>1, AttendRow
      <4> QED
        BY <1>1, <1>11, <4>1, <4>2 DEF RowInv
    <3>2. CASE ~Computed(r)
      <4>1. layer + 1 = F
        BY <1>1, <1>2, <2>1, <3>2, WarmAssumption DEF Computed, Partial
      <4>2. /\ mode = "warm"
            /\ x'[r] = CachedX(heap[slot].src, r - NQ[prompt])
            /\ Token(prompt, r) = <<Schema[heap[slot].src], r - NQ[prompt]>>
        BY <3>2, <4>1, AttendResidual
      <4>3. {heap[slot].src} \subseteq Allowed
        BY <4>2 DEF Allowed
      <4> QED
        BY <1>1, <1>11, <4>1, <4>2, <4>3 DEF RowInv, CachedX
    <3> QED
      BY <3>1, <3>2
  <2> QED
    BY <1>1, <2>1 DEF ResidualInv
<1>13. KeyInv'
  BY <1>1 DEF KeyInv
<1>14. CapInv'
  <2>1. CASE cap = None
    BY <1>1, <2>1 DEF IInv, CapInv, Running
  <2>2. CASE cap # None
    <3>1. \A l \in 0 .. F - 1 : l < layer + 1 => KSaved(heap[cap], l)
      BY <1>1, <1>2, <2>2, WarmAssumption DEF IInv, CapInv
    <3>2. CASE layer + 1 = F
      <4>1. /\ heap'[cap].src = prompt /\ XSaved(heap'[cap])
            /\ \A l \in 0 .. F - 1 : KSaved(heap[cap], l) => KSaved(heap'[cap], l)
        BY <2>2, <3>2, AttendSaves
      <4> QED
        BY <1>1, <1>7, <2>2, <3>1, <4>1 DEF IInv, CapInv, Running, Big
    <3>3. CASE layer + 1 # F
      <4>1. heap' = heap
        BY <1>3, <3>3
      <4>2. F <= layer + 1 => F <= layer
        BY <1>2, <3>3, WarmAssumption
      <4> QED
        BY <1>1, <2>2, <3>1, <4>1, <4>2 DEF IInv, CapInv, Running, Big
    <3> QED
      BY <3>2, <3>3
  <2> QED
    BY <2>1, <2>2
<1>15. SlotInv'
  BY <1>1, <1>6 DEF IInv, SlotInv, Complete, KSaved, XSaved
<1>16. WarmInv'
  BY <1>1, <1>6 DEF IInv, WarmInv, Running
<1>17. OwnerInv'
  <2>1. ASSUME NEW q \in Objs PROVE heap'[q] # None <=> q \in {slot, cap}
    BY <1>5, <1>8, WarmAssumption DEF IInv, OwnerInv
  <2> QED
    BY <1>1, <2>1 DEF IInv, OwnerInv
<1> QED
  BY <1>9, <1>10, <1>12, <1>13, <1>14, <1>15, <1>16, <1>17 DEF IInv

(* The captured object takes the slot whole; the object it replaces is     *)
(* freed.                                                                  *)
LEMMA FinishInv ==
  ASSUME IInv, Finish
  PROVE  IInv'
<1>1. /\ pc = "finish" /\ pc' = "idle"
      /\ UNCHANGED <<mode, prompt, layer, x, k, capNq>>
      /\ path' \in {"e", "c", "w"}
  BY DEF Finish, IInv, TypeOK
<1>2. PassInv' /\ ResidualInv' /\ KeyInv' /\ WarmInv'
  BY <1>1 DEF PassInv, ResidualInv, KeyInv, WarmInv, Running
<1>3. CASE mode # "capture"
  <2>1. UNCHANGED <<heap, slot, cap>> /\ cap = None
    BY <1>1, <1>3 DEF Finish, IInv, CapInv
  <2>2. TypeOK'
    BY <1>1, <2>1 DEF IInv, TypeOK
  <2>3. CapInv' /\ SlotInv' /\ OwnerInv'
    BY <1>1, <2>1 DEF IInv, CapInv, SlotInv, OwnerInv, Complete, KSaved, XSaved, Running
  <2> QED
    BY <1>2, <2>2, <2>3 DEF IInv
<1>4. CASE mode = "capture"
  <2>1. /\ heap' = [o \in Objs |-> IF slot # None /\ o = slot THEN None ELSE heap[o]]
        /\ slot' = cap /\ cap' = None
    BY <1>4 DEF Finish
  <2>2. cap # None /\ cap \in Objs /\ cap # slot /\ prompt \in Prompts
    BY <1>1, <1>4 DEF IInv, CapInv, TypeOK, OwnerInv, PassInv, Running
  <2>3. heap'[cap] = heap[cap]
    BY <2>1, <2>2
  <2>4. Complete(heap[cap]) /\ heap[cap] # None
    <3>1. layer = EncLayers
      BY <1>1 DEF IInv, PassInv, Running
    <3>2. /\ heap[cap] \in CacheOf(Schema[prompt]) /\ heap[cap].src = prompt
          /\ \A l \in 0 .. F - 1 : KSaved(heap[cap], l)
          /\ XSaved(heap[cap])
      BY <2>2, <3>1, WarmAssumption DEF IInv, CapInv
    <3>3. Big(prompt) /\ Schema[prompt] \in Schemas
      BY <2>2, RowFacts DEF IInv, CapInv, Big
    <3> QED
      BY <3>2, <3>3, CacheAssumption DEF Complete, CacheOf, Big
  <2>5. TypeOK'
    <3>1. DOMAIN heap' = Objs
      BY <2>1
    <3>2. \A o \in Objs : heap'[o] = None \/ heap'[o] = heap[o]
      BY <2>1
    <3>3. \A o \in Objs : heap'[o] = None \/ \E s \in Schemas : heap'[o] \in CacheOf(s)
      BY <3>2 DEF IInv, TypeOK
    <3> QED
      BY <1>1, <2>1, <2>2, <3>1, <3>3 DEF IInv, TypeOK
  <2>6. CapInv'
    BY <1>1, <2>1 DEF CapInv, Running
  <2>7. SlotInv'
    BY <2>1, <2>3, <2>4 DEF SlotInv, Complete, KSaved, XSaved
  <2>8. OwnerInv'
    <3>1. ASSUME NEW o \in Objs PROVE heap'[o] # None <=> o \in {slot', cap'}
      BY <2>1, <2>2, <2>4, WarmAssumption DEF IInv, OwnerInv
    <3> QED
      BY <2>1, <3>1 DEF OwnerInv
  <2> QED
    BY <1>2, <2>5, <2>6, <2>7, <2>8 DEF IInv
<1> QED
  BY <1>3, <1>4

(* At power-up there is no slot and nothing runs.                          *)
LEMMA InitInv ==
  ASSUME Init
  PROVE  IInv
<1>1. KVGarbage \in KVRows \/ Row = {}
  BY WarmAssumption DEF KVGarbage, KVRows, Tokens, Row
<1>2. Garbage \in XRows
  BY WarmAssumption DEF Garbage, XRows, Tokens
<1>3. TypeOK
  <2>1. x \in [Row -> XRows] /\ k \in [Row -> KVRows]
    BY <1>1, <1>2 DEF Init
  <2>2. DOMAIN heap = Objs /\ \A o \in Objs : heap[o] = None
    BY DEF Init
  <2> QED
    BY <2>1, <2>2, WarmAssumption DEF Init, TypeOK
<1>4. PassInv /\ ResidualInv /\ KeyInv /\ CapInv /\ SlotInv /\ WarmInv
  BY DEF Init, PassInv, ResidualInv, KeyInv, CapInv, SlotInv, WarmInv, Running
<1>5. OwnerInv
  BY WarmAssumption DEF Init, OwnerInv
<1> QED
  BY <1>3, <1>4, <1>5 DEF IInv

(* Every step of an encode, or of the next one, keeps the invariant.       *)
LEMMA NextInv ==
  ASSUME IInv, [Next]_vars
  PROVE  IInv'
<1>1. ASSUME NEW p \in Prompts, ConsoleEncode(p) PROVE IInv'
  <2>1. path' \in {"e", "c", "w"}
    BY <1>1 DEF ConsoleEncode, IInv, TypeOK
  <2> QED
    BY <1>1, <2>1, PlainStart DEF ConsoleEncode
<1>2. ASSUME NEW p \in Prompts, WarmEncode(p) PROVE IInv'
  BY <1>2, PlainStart DEF WarmEncode
<1>3. ASSUME NEW p \in Prompts, CaptureEncode(p) PROVE IInv'
  BY <1>3, CaptureStart
<1>4. ASSUME NEW p \in Prompts, ExactEncode(p) PROVE IInv'
  BY <1>4, PlainStart DEF ExactEncode
<1>5. CASE Project
  BY <1>5, ProjectInv
<1>6. CASE Attend
  BY <1>6, AttendInv
<1>7. CASE Finish
  BY <1>7, FinishInv
<1>8. CASE UNCHANGED vars
  <2>1. /\ pc' = pc /\ mode' = mode /\ prompt' = prompt /\ layer' = layer /\ x' = x /\ k' = k
        /\ heap' = heap /\ slot' = slot /\ cap' = cap /\ capNq' = capNq /\ path' = path
    BY <1>8 DEF vars, passVars
  <2>2. TypeOK' /\ PassInv' /\ CapInv' /\ SlotInv' /\ WarmInv' /\ OwnerInv'
    BY <2>1 DEF IInv, TypeOK, PassInv, CapInv, SlotInv, WarmInv, OwnerInv, Running,
                Complete, KSaved, XSaved
  <2>3. ResidualInv' /\ KeyInv'
    BY <2>1 DEF IInv, ResidualInv, KeyInv, RowInv, KeyRowInv, Computed, Partial, Running, Allowed
  <2> QED
    BY <2>2, <2>3 DEF IInv
<1> QED
  BY <1>1, <1>2, <1>3, <1>4, <1>5, <1>6, <1>7, <1>8 DEF Next

-----------------------------------------------------------------------------

(* Every reachable state: the inductive invariant.                         *)
THEOREM Invariance == Spec => []IInv
BY InitInv, NextInv, PTL DEF Spec

(* The variables keep their types for any prompts, schemas and objects.    *)
THEOREM TypeCorrect == Spec => []TypeOK
<1>1. IInv => TypeOK
  BY DEF IInv
<1> QED
  BY <1>1, Invariance, PTL

(* ne_encode and ne_encode_warm: attention reads the prompt's own tokens   *)
(* at the depth of its layer, never what another encode left behind.       *)
THEOREM OwnLayer == Spec => []AttendsOwnLayer
<1>1. IInv => AttendsOwnLayer
  BY DEF IInv, KeyInv, KeyRowInv, AttendsOwnLayer, InPass
<1> QED
  BY <1>1, Invariance, PTL

(* When an encode is over nothing of its prompt is left to compute.        *)
LEMMA Finished ==
  ASSUME IInv, pc = "finish"
  PROVE  /\ prompt \in Prompts /\ layer = EncLayers
         /\ \A r \in 0 .. Rows(prompt) - 1 : RowInv(r)
<1>1. prompt \in Prompts /\ layer = EncLayers
  BY DEF IInv, PassInv, Running
<1>2. \A r \in 0 .. Rows(prompt) - 1 : Computed(r)
  BY <1>1, RowFacts, WarmAssumption DEF Computed, Partial
<1> QED
  BY <1>1, <1>2 DEF IInv, ResidualInv, Running

(* Every row went through each layer exactly once, the rows spliced in     *)
(* from the cache included.                                                *)
THEOREM AllLayersOnce == Spec => []FullDepth
<1>1. IInv => FullDepth
  BY Finished DEF RowInv, FullDepth, InPass
<1> QED
  BY <1>1, Invariance, PTL

(* The approximation of a warm encode does not compound.                   *)
THEOREM Influence == Spec => []OnePromptApart
<1>1. IInv => OnePromptApart
  BY Finished DEF RowInv, Allowed, OnePromptApart, InPass
<1> QED
  BY <1>1, Invariance, PTL

(* A warm encode of the captured prompt is the exact encode of it.         *)
THEOREM SelfWarm == Spec => []SelfWarmIsExact
<1>1. ASSUME IInv, InPass("attend"), mode = "warm" => heap[slot].src = prompt,
             NEW r \in 0 .. Rows(prompt) - 1
      PROVE  /\ k[r].pos = r
             /\ Computed(r) => k[r].from = x[r].from
             /\ k[r].from = {prompt}
  <2>1. prompt \in Prompts /\ KeyRowInv(r) /\ Allowed = {prompt}
    BY <1>1 DEF IInv, PassInv, KeyInv, InPass, Running, Allowed
  <2>2. CASE Computed(r)
    <3>1. RowInv(r)
      BY <1>1, <2>2 DEF IInv, ResidualInv, InPass, Running
    <3>2. x[r].from = {prompt}
      BY <2>1, <3>1 DEF RowInv
    <3> QED
      BY <2>1, <2>2, <3>2 DEF KeyRowInv
  <2>3. CASE ~Computed(r)
    <3>1. mode = "warm"
      BY <2>1, <2>3, RowFacts DEF Computed, Partial
    <3> QED
      BY <1>1, <2>1, <2>3, <3>1, RowFacts DEF KeyRowInv
  <2> QED
    BY <2>2, <2>3
<1>2. IInv => SelfWarmIsExact
  BY <1>1 DEF SelfWarmIsExact
<1> QED
  BY <1>2, Invariance, PTL

(* What takes the slot is whole: every kept layer and the residual after   *)
(* the last of them, all from one prompt.                                  *)
THEOREM WholeSlot == Spec => []SlotComplete
<1>1. ASSUME IInv, slot # None
      PROVE  /\ heap[slot] # None /\ NS[heap[slot].key] >= MinNS
             /\ \A i \in 0 .. NS[heap[slot].key] - 1 :
                  /\ \A l \in 0 .. F - 1 : heap[slot].k[l][i] = CachedK(heap[slot].src, l, i)
                  /\ heap[slot].x[i] = CachedX(heap[slot].src, i)
             /\ Schema[heap[slot].src] = heap[slot].key
  BY <1>1 DEF IInv, SlotInv, Complete, KSaved, XSaved
<1>2. IInv => SlotComplete
  BY <1>1 DEF SlotComplete, CachedK, CachedX
<1> QED
  BY <1>2, Invariance, PTL

(* ne_schema_free: nothing leaks and nothing dangles, whatever the order   *)
(* of captures, warm encodes and failed allocations.                       *)
THEOREM NothingLeaks == Spec => []NoLeak
<1>1. ASSUME IInv PROVE NoLeak
  <2>1. slot \in Objs \cup {None} /\ cap \in Objs \cup {None} /\ None \notin Objs
    BY <1>1, WarmAssumption DEF IInv, TypeOK
  <2> QED
    BY <1>1, <2>1 DEF IInv, OwnerInv, NoLeak
<1> QED
  BY <1>1, Invariance, PTL

(* The hooks never write into the slot, in any mode.                       *)
THEOREM NoWriteToSlot == Spec => SlotImmutable
<1>1. ASSUME IInv, Next, slot # None, slot' = slot PROVE heap'[slot] = heap[slot]
  <2>1. slot \in Objs /\ DOMAIN heap = Objs /\ (cap # None => cap # slot) /\ heap[slot] # None
    BY <1>1 DEF IInv, TypeOK, OwnerInv, SlotInv
  <2>2. ASSUME NEW p \in Prompts, ConsoleEncode(p) \/ WarmEncode(p) \/ ExactEncode(p)
        PROVE  heap' = heap
    BY <2>2 DEF ConsoleEncode, WarmEncode, ExactEncode
  <2>3. ASSUME NEW p \in Prompts, CaptureEncode(p) PROVE heap'[slot] = heap[slot]
    <3>1. PICK o \in Objs : heap[o] = None /\ heap' = [heap EXCEPT ![o] = NewCache(p)]
      BY <2>3 DEF CaptureEncode
    <3> QED
      BY <2>1, <3>1
  <2>4. CASE Project
    <3>1. heap' = heap \/ (cap # None /\ layer < F)
      BY <2>4 DEF Project
    <3> QED
      BY <1>1, <2>1, <2>4, <3>1, ProjectSaves
  <2>5. CASE Attend
    <3>1. heap' = heap \/ (cap # None /\ layer + 1 = F)
      BY <2>5 DEF Attend
    <3> QED
      BY <1>1, <2>1, <2>5, <3>1, AttendSaves
  <2>6. CASE Finish
    <3>1. mode # "capture"
      <4>1. pc = "finish"
        BY <2>6 DEF Finish
      <4>2. mode = "capture" => slot' = cap /\ cap # None
        BY <1>1, <2>6, <4>1 DEF Finish, IInv, CapInv, Running
      <4> QED
        BY <1>1, <2>1, <4>2
    <3> QED
      BY <2>6, <3>1 DEF Finish
  <2> QED
    BY <1>1, <2>2, <2>3, <2>4, <2>5, <2>6 DEF Next
<1>2. ASSUME IInv, [Next]_vars
      PROVE  [slot # None /\ slot' = slot => heap'[slot] = heap[slot]]_vars
  BY <1>1, <1>2
<1> QED
  BY <1>2, Invariance, PTL DEF Spec, SlotImmutable

=============================================================================
