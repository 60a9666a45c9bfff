-------------------------- MODULE Autoregressive ---------------------------
(***************************************************************************)
(* What decoding promises: every token is computed from the prompt and     *)
(* from all tokens before it, in order, the start token first; an answer   *)
(* ends at the end token or at its length limit.  Nothing is said of       *)
(* caches, of their quantized copies or of forced tokens.                  *)
(***************************************************************************)
EXTENDS Naturals, Sequences

CONSTANTS
  Prompts,  \* what can be asked
  Vocab,    \* what can be answered
  EOS,      \* the start and end token
  MaxGen,   \* an answer is shorter than this
  None

VARIABLES
  ids,        \* the prompt being answered, or answered last
  answering,  \* an answer is being decoded
  prefix,     \* the start token and the tokens emitted so far
  context     \* what the last token was computed from

arVars == <<ids, answering, prefix, context>>

Init ==
  /\ ids = None
  /\ answering = FALSE
  /\ prefix = <<EOS>>
  /\ context = None

Ask(p) ==
  /\ ~answering
  /\ ids' = p
  /\ answering' = TRUE
  /\ prefix' = <<EOS>>
  /\ UNCHANGED context

(* A token is computed from the prompt and the whole prefix.               *)
Emit(t) ==
  /\ answering
  /\ Len(prefix) < MaxGen
  /\ context' = [ids |-> ids, seen |-> prefix]
  /\ IF t = EOS THEN answering' = FALSE /\ UNCHANGED prefix
                ELSE prefix' = Append(prefix, t) /\ UNCHANGED answering
  /\ UNCHANGED ids

(* The length limit.                                                       *)
Stop ==
  /\ answering
  /\ answering' = FALSE
  /\ UNCHANGED <<ids, prefix, context>>

Next ==
  \/ \E p \in Prompts : Ask(p)
  \/ \E t \in Vocab : Emit(t)
  \/ Stop

Spec == Init /\ [][Next]_arVars
=============================================================================
