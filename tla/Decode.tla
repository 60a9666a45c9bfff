------------------------------ MODULE Decode -------------------------------
(***************************************************************************)
(* The decode loop (ne_generate_cb in engine/needle_engine.c; the loops of *)
(* infer and run_query_ref in firmware/main/fw_main.c repeat it) over      *)
(* ne_step_f: the growing self-attention cache and its integer mirror, the *)
(* cross-attention K/V of the encoded prompt, grammar forcing.             *)
(*                                                                         *)
(* A cache row is the prompt it was computed under and the token that was  *)
(* fed when it was appended.  Which token has the largest logit is any     *)
(* token but <pad>, which the argmax skips.  Rows of an earlier answer     *)
(* stay in the caches; nothing clears them.                                *)
(***************************************************************************)
EXTENDS Naturals, Sequences

CONSTANTS
  Prompts,   \* id lists
  Probe,     \* the prompt of the boot's determinism check
  Vocab,     \* the tokens an argmax can return
  EOS,       \* NE_EOS_ID
  Open,      \* 356, the piece that opens a call
  Name,      \* 294
  Colon,     \* 264
  Comma,     \* 265
  Args,      \* 393
  MaxGen,    \* NE_MAX_GEN
  None

ASSUME DecodeAssumption ==
  /\ Probe \in Prompts
  /\ None \notin Prompts \cup Vocab
  /\ {EOS, Open, Name, Colon, Comma, Args} \subseteq Vocab
  /\ EOS \notin {Open, Name, Colon, Comma, Args}
  /\ Comma \notin {Name, Colon, Args}
  /\ MaxGen \in Nat \ {0, 1}

VARIABLES
  running,  \* a decode loop is running
  prompt,   \* the prompt it answers (history)
  scalar,   \* ne_force_scalar
  force,    \* the loop forces grammar (ne_grammar_force; not ne_generate_warm)
  limit,    \* max_gen after its clamp
  i,        \* the loop counter
  tok,      \* the token fed next
  out,      \* tokens emitted
  n265,     \* 265s among them
  decLen,   \* ctx->dec_len
  cross,    \* the prompt whose cross K/V and mirrors the context holds
  self,     \* ctx->self_k, ctx->self_v
  mirror,   \* ctx->self_kq
  read,     \* what the last step attended to (history)
  forcedAt  \* indices of out that were forced (history)

loopVars  == <<running, prompt, scalar, force, limit, i, tok, out, n265, forcedAt>>
cacheVars == <<decLen, cross, self, mirror, read>>
vars == <<loopVars, cacheVars>>

Pos == 0 .. MaxGen - 1
NoRow == [ids |-> None, fed |-> None]

Init ==
  /\ running = FALSE /\ prompt = None
  /\ scalar = FALSE /\ force = FALSE
  /\ limit = 0 /\ i = 0
  /\ tok = EOS /\ out = << >> /\ n265 = 0
  /\ decLen = 0 /\ cross = None
  /\ self = [r \in Pos |-> NoRow]
  /\ mirror = [r \in Pos |-> NoRow]
  /\ read = None
  /\ forcedAt = {}

-----------------------------------------------------------------------------

(* MUTANT: encoding leaves the decoder's position where it was.            *)
EncodeKeepsPosition(p) ==
  /\ cross' = p
  /\ UNCHANGED decLen

(* ne_encode and ne_encode_warm reset the decoder and recompute the cross  *)
(* K/V with its mirrors, scalar path or not.                               *)
Encode(p) ==
  /\ cross' = p
  /\ decLen' = 0

(* MUTANT: the clamp leaves no room for the start token.                   *)
ClampToCache(maxGen) == IF maxGen > MaxGen THEN MaxGen ELSE maxGen

(* The start token takes a row of the cache too.                           *)
Clamp(maxGen) == IF maxGen > MaxGen - 1 THEN MaxGen - 1 ELSE maxGen

(* A loop is entered with a caller's max_gen.                              *)
Begin(p, maxGen, forcing, byScalar) ==
  /\ ~running
  /\ running' = TRUE
  /\ prompt' = p
  /\ scalar' = byScalar /\ force' = forcing
  /\ limit' = Clamp(maxGen)
  /\ i' = 0
  /\ tok' = EOS /\ out' = << >> /\ n265' = 0
  /\ forcedAt' = {}
  /\ Encode(p)
  /\ UNCHANGED <<self, mirror, read>>

(* The lengths a caller may ask for, to one past what the cache has.       *)
Asked == 0 .. MaxGen + 1

(* A query over the integer path, whatever its caller asks for.            *)
Query(p) ==
  \E maxGen \in Asked : \E forcing \in BOOLEAN : Begin(p, maxGen, forcing, FALSE)

(* determinism_selftest: one unforced step on the scalar path.             *)
SelfTest == Begin(Probe, 1, FALSE, TRUE)

-----------------------------------------------------------------------------

(* MUTANT: every comma is followed by the arguments key.                   *)
ForcedEveryComma(prev, nOut, n) ==
  IF prev = Open /\ nOut = 2 THEN Name
  ELSE IF prev = Name /\ nOut = 3 THEN Colon
  ELSE IF prev = Comma THEN Args
  ELSE None

(* ne_forced_next.                                                         *)
ForcedNext(prev, nOut, n) ==
  IF prev = Open /\ nOut = 2 THEN Name
  ELSE IF prev = Name /\ nOut = 3 THEN Colon
  ELSE IF prev = Comma /\ n = 1 THEN Args
  ELSE None

(* What attention reads at this step: cross K/V and the rows 0..dec_len of *)
(* the self cache, through the integer mirror unless the path is scalar.   *)
Context ==
  [ids  |-> cross',
   seen |-> [r \in 1 .. decLen + 1 |-> (IF scalar THEN self' ELSE mirror')[r - 1].fed]]

(* MUTANT: a forced step skips the decoder layers along with the logits.   *)
LayersUnlessForced(forced) ==
  IF forced # None THEN UNCHANGED cacheVars
  ELSE /\ self' = [self EXCEPT ![decLen] = [ids |-> cross, fed |-> tok]]
       /\ mirror' = IF scalar THEN mirror ELSE [mirror EXCEPT ![decLen] = self'[decLen]]
       /\ decLen' = decLen + 1
       /\ UNCHANGED cross
       /\ read' = Context

(* The decoder layers of one step: append the fed token's K and V at       *)
(* dec_len, mirror the key row (quant_self_k_row), attend.                 *)
Layers(forced) ==
  /\ self' = [self EXCEPT ![decLen] = [ids |-> cross, fed |-> tok]]
  /\ mirror' = IF scalar THEN mirror ELSE [mirror EXCEPT ![decLen] = self'[decLen]]
  /\ decLen' = decLen + 1
  /\ UNCHANGED cross
  /\ read' = Context

(* The loop takes the token of its step: the end token ends it.            *)
Take(t, forced) ==
  /\ tok' = t
  /\ i' = i + 1
  /\ IF t = EOS
       THEN running' = FALSE /\ UNCHANGED <<out, n265, forcedAt>>
       ELSE /\ out' = Append(out, t)
            /\ n265' = IF t = Comma THEN n265 + 1 ELSE n265
            /\ forcedAt' = IF forced # None THEN forcedAt \cup {Len(out) + 1} ELSE forcedAt
            /\ UNCHANGED running
  /\ UNCHANGED <<prompt, scalar, force, limit>>

(* ne_step_f under the loop.  A forced step runs the layers and skips the  *)
(* logits; a full cache answers EOS without running anything.              *)
Step ==
  LET forced == IF force THEN ForcedNext(tok, Len(out), n265) ELSE None IN
  /\ running
  /\ i < limit
  /\ IF decLen >= MaxGen
       THEN Take(EOS, None) /\ UNCHANGED cacheVars
       ELSE /\ Layers(forced)
            /\ IF forced # None THEN Take(forced, forced)
               ELSE \E t \in Vocab : Take(t, None)

(* The loop's bound.                                                       *)
End ==
  /\ running
  /\ i >= limit
  /\ running' = FALSE
  /\ UNCHANGED <<prompt, scalar, force, limit, i, tok, out, n265, forcedAt, cacheVars>>

Next ==
  \/ \E p \in Prompts : Query(p)
  \/ SelfTest
  \/ Step
  \/ End

Spec == Init /\ [][Next]_vars

-----------------------------------------------------------------------------

Row == [ids : Prompts \cup {None}, fed : Vocab \cup {None}]

TypeOK ==
  /\ {running, scalar, force} \subseteq BOOLEAN
  /\ prompt \in Prompts \cup {None} /\ cross \in Prompts \cup {None}
  /\ limit \in 0 .. MaxGen - 1
  /\ i \in 0 .. limit
  /\ tok \in Vocab
  /\ out \in Seq(Vocab \ {EOS}) /\ Len(out) <= i
  /\ n265 \in 0 .. Len(out)
  /\ decLen \in 0 .. MaxGen
  /\ self \in [Pos -> Row] /\ mirror \in [Pos -> Row]
  /\ read = None \/ (read.ids \in Prompts /\ read.seen \in Seq(Vocab))
  /\ forcedAt \subseteq 1 .. Len(out)

(* The token fed at each step of this answer.                              *)
Fed == [r \in 0 .. Len(out) |-> IF r = 0 THEN EOS ELSE out[r]]

(* While an answer is decoded the live rows of the cache, and of the       *)
(* mirror the integer path reads instead, are exactly the start token and  *)
(* the emitted tokens in order, all under this prompt: no row is skipped   *)
(* by a forced step and none is left from an earlier answer.               *)
CacheIsPrefix ==
  running =>
    /\ decLen = i /\ Len(out) = i
    /\ cross = prompt
    /\ \A r \in 0 .. i - 1 :
         /\ self[r] = [ids |-> prompt, fed |-> Fed[r]]
         /\ ~scalar => mirror[r] = self[r]

(* Forcing stays at the rigid positions: "name" only at its fixed index    *)
(* behind the opening piece, the colon behind it, and "arguments" behind   *)
(* the first comma piece only, so at most three times in an answer and     *)
(* never inside a copied value (2046-2052, docs/notebook/RESULTS.md:32).   *)
RigidPositions ==
  \A p \in forcedAt :
    /\ p > 1
    /\ \/ p = 3 /\ out[2] = Open /\ out[p] = Name
       \/ p = 4 /\ out[3] = Name /\ out[p] = Colon
       \/ /\ out[p - 1] = Comma /\ out[p] = Args
          /\ \A q \in 1 .. p - 2 : out[q] # Comma

(* needle_engine.c:2037: "Decode is free until 356".  It is not: the first *)
(* comma piece forces "arguments" in an answer that never opened a call.   *)
FreeUntilOpen ==
  \A p \in forcedAt : \E q \in 1 .. p - 1 : out[q] = Open

-----------------------------------------------------------------------------

(* Decoding with caches implements decoding from the whole prefix.         *)
Abstract == INSTANCE Autoregressive WITH
  ids <- prompt, answering <- running, prefix <- <<EOS>> \o out, context <- read

ImplementsAutoregressive == Abstract!Spec
=============================================================================
