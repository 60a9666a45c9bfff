---------------------------- MODULE GreedyMerge ----------------------------
(***************************************************************************)
(* What encoding promises (tokenizer/bpe.py, its header and encode): as    *)
(* long as two neighbours form a piece of the vocabulary, the best-scored  *)
(* such pair is merged, the leftmost of equals, and what is left is the    *)
(* list of ids.  Pieces are sequences of characters and stand for their    *)
(* ids; byte pieces never merge.                                           *)
(***************************************************************************)
EXTENDS Integers, Sequences

CONSTANTS
  Bytes,         \* the 256 byte-fallback pieces, as characters of their own
  Vocabularies   \* the vocabularies considered: scores of the longer pieces

VARIABLES scores, pieces, busy, ids

vars == <<scores, pieces, busy, ids>>

Init ==
  /\ scores \in Vocabularies
  /\ pieces = <<>> /\ ids = <<>> /\ busy = FALSE

(* The text as single characters and bytes.                                *)
Begin ==
  /\ ~busy /\ busy'
  /\ \A k \in DOMAIN pieces' : Len(pieces'[k]) = 1
  /\ ids' = <<>>
  /\ UNCHANGED scores

Joined(k) == pieces[k] \o pieces[k + 1]

(* Places whose piece and its right neighbour merge.                       *)
Places ==
  {k \in 1 .. Len(pieces) - 1 :
     /\ pieces[k][1] \notin Bytes /\ pieces[k + 1][1] \notin Bytes
     /\ Joined(k) \in DOMAIN scores}

Best(k) ==
  \A m \in Places :
    \/ scores[Joined(k)] > scores[Joined(m)]
    \/ scores[Joined(k)] = scores[Joined(m)] /\ k <= m

Merge ==
  /\ busy
  /\ \E k \in Places :
       /\ Best(k)
       /\ pieces' = SubSeq(pieces, 1, k - 1) \o <<Joined(k)>> \o SubSeq(pieces, k + 2, Len(pieces))
  /\ UNCHANGED <<scores, busy, ids>>

End ==
  /\ busy /\ Places = {}
  /\ ids' = pieces /\ busy' = FALSE
  /\ UNCHANGED <<scores, pieces>>

Next == Begin \/ Merge \/ End

Spec == Init /\ [][Next]_vars
=============================================================================
