----------------------------- MODULE BpeMerge -------------------------------
(***************************************************************************)
(* NeedleBPE.encode of tokenizer/bpe.py and of its port web/bpe.js: pieces *)
(* in a doubly linked list, candidate pairs in a heap whose entries are    *)
(* never withdrawn and so may be stale when they are popped.  The twins    *)
(* differ in the heap only: bpe.py calls heapq, bpe.js sifts an array.     *)
(***************************************************************************)
EXTENDS Integers, Sequences, SequencesExt

CONSTANTS
  Vocabularies,  \* scores of the pieces of two characters and more
  Letters,       \* the characters that are pieces, the escaped space too
  Space,         \* that one
  Blank,         \* whitespace in a text
  Utf8           \* the bytes of each other character

Bytes == UNION {Range(Utf8[ch]) : ch \in DOMAIN Utf8}

ASSUME BpeAssumption ==
  /\ Space \in Letters /\ Blank \notin Letters
  /\ Letters \cap Bytes = {} /\ Letters \cap DOMAIN Utf8 = {}
  /\ \A ch \in DOMAIN Utf8 : Utf8[ch] \in Seq(Range(Utf8[ch])) \ {<<>>}
  /\ \A v \in Vocabularies : \A p \in DOMAIN v : v[p] \in Int

VARIABLES
  scores, twin,            \* the vocabulary; "py" or "js"
  syms, prev, nxt, alive,  \* indexed from 0; -1 ends the list
  heap, merging, ids

vars == <<scores, twin, syms, prev, nxt, alive, heap, merging, ids>>
list == <<syms, prev, nxt, alive>>

Init ==
  /\ scores \in Vocabularies /\ twin \in {"py", "js"}
  /\ syms = <<>> /\ prev = <<>> /\ nxt = <<>> /\ alive = <<>>
  /\ heap = <<>> /\ merging = FALSE /\ ids = <<>>

-----------------------------------------------------------------------------
(* The heap.                                                               *)

(* (-score, i, j), in that order.                                          *)
Less(x, y) ==
  \/ x.score > y.score
  \/ x.score = y.score /\ x.i < y.i
  \/ x.score = y.score /\ x.i = y.i /\ x.j < y.j

(* Parent and children of place p of the array, counted from 1.            *)
Parent(p) == p \div 2

(* Places a new last entry x rises through, and where each finds itself.   *)
Risen(h, x) ==
  LET path[p \in 0 .. Len(h) + 1] ==
        IF p > 1 /\ Less(x, h[Parent(p)]) THEN {p} \cup path[Parent(p)] ELSE {p}
      up == path[Len(h) + 1]
      top == CHOOSE p \in up : \A m \in up : p <= m
  IN  [p \in 1 .. Len(h) + 1 |->
         IF p = top THEN x ELSE IF p \in up THEN h[Parent(p)] ELSE h[p]]

Push(h, x) == IF twin = "js" THEN Risen(h, x) ELSE Append(h, x)

(* The place among p and its children with the least entry, x being at p.  *)
Smaller(h, p, x) ==
  LET l == IF 2 * p <= Len(h) /\ Less(h[2 * p], x) THEN 2 * p ELSE p
      at == IF l = p THEN x ELSE h[l]
  IN  IF 2 * p + 1 <= Len(h) /\ Less(h[2 * p + 1], at) THEN 2 * p + 1 ELSE l

(* The array h with x sunk from the top.                                   *)
Sunk(h, x) ==
  LET path[p \in 1 .. Len(h)] ==
        IF Smaller(h, p, x) = p THEN {p} ELSE {p} \cup path[Smaller(h, p, x)]
  IN  [p \in 1 .. Len(h) |->
         IF p \notin path[1] THEN h[p]
         ELSE IF Smaller(h, p, x) = p THEN x ELSE h[Smaller(h, p, x)]]

(* The entry popped and the heap without it.  heapq breaks a tie of the    *)
(* three numbers by the piece; here it takes either.                       *)
Popped ==
  IF twin = "js"
  THEN {[top |-> heap[1],
         rest |-> IF Len(heap) = 1 THEN <<>> ELSE Sunk(Front(heap), Last(heap))]}
  ELSE {[top |-> heap[k], rest |-> RemoveAt(heap, k)] :
          k \in {k \in DOMAIN heap : \A m \in DOMAIN heap : ~Less(heap[m], heap[k])}}

-----------------------------------------------------------------------------

(* _preprocess and the byte fallback: runs of whitespace collapse to one   *)
(* escaped space before each word, the first word's too.                   *)
Symbols(text) ==
  FlattenSeq([k \in DOMAIN text |->
    IF text[k] = Blank THEN <<>>
    ELSE (IF k = 1 THEN <<Space>> ELSE IF text[k - 1] = Blank THEN <<Space>> ELSE <<>>)
         \o (IF text[k] \in Letters THEN <<text[k]>> ELSE Utf8[text[k]])])

(* pair_score is not None for the pieces a and b.  The code knows a byte   *)
(* piece by its name's first characters, <0x.  No text spells them: the    *)
(* vocabulary has no piece of the one character <, so that character comes *)
(* here as its byte, and a piece that begins with it cannot grow.          *)
Pairs(a, b) == a[1] \notin Bytes /\ b[1] \notin Bytes /\ a \o b \in DOMAIN scores

Entry(s, i, j) == [score |-> scores[s[i] \o s[j]], i |-> i, j |-> j, piece |-> s[i] \o s[j]]

(* The heap with those of a sequence of pairs <<i, j>> pushed that are two *)
(* places of the list and have a score.                                    *)
Pushed(h, s, live, pairs) ==
  LET Scored(p) == /\ p[1] # -1 /\ p[2] # -1
                   /\ live[p[1]] /\ live[p[2]]
                   /\ Pairs(s[p[1]], s[p[2]])
  IN  FoldLeft(LAMBDA g, p : IF Scored(p) THEN Push(g, Entry(s, p[1], p[2])) ELSE g, h, pairs)

StartEncode(text) ==
  LET chars == Symbols(text)
      n == Len(chars)
  IN  /\ ~merging /\ merging' = TRUE
      /\ syms' = [i \in 0 .. n - 1 |-> <<chars[i + 1]>>]
      /\ prev' = [i \in 0 .. n - 1 |-> i - 1]
      /\ nxt' = [i \in 0 .. n - 1 |-> IF i = n - 1 THEN -1 ELSE i + 1]
      /\ alive' = [i \in 0 .. n - 1 |-> TRUE]
      /\ heap' = Pushed(<<>>, syms', alive', [k \in 1 .. n |-> <<prev'[k - 1], k - 1>>])
      /\ ids' = <<>>
      /\ UNCHANGED <<scores, twin>>

(* MUTANT: an entry counts although its left piece has grown since.        *)
LiveIfLinked(e) == alive[e.i] /\ alive[e.j] /\ nxt[e.i] = e.j

Live(e) ==
  /\ alive[e.i] /\ alive[e.j] /\ nxt[e.i] = e.j
  /\ syms[e.i] \o syms[e.j] = e.piece

SkipStale ==
  /\ merging /\ heap # <<>>
  /\ \E pop \in Popped : ~Live(pop.top) /\ heap' = pop.rest
  /\ UNCHANGED <<scores, twin, list, merging, ids>>

(* The right piece leaves the list, and the grown one meets its neighbours.*)
MergePair ==
  /\ merging /\ heap # <<>>
  /\ \E pop \in Popped :
       LET i == pop.top.i
           j == pop.top.j
       IN  /\ Live(pop.top)
           /\ syms' = [syms EXCEPT ![i] = pop.top.piece]
           /\ alive' = [alive EXCEPT ![j] = FALSE]
           /\ nxt' = [nxt EXCEPT ![i] = nxt[j]]
           /\ prev' = [k \in DOMAIN prev |-> IF k = nxt[j] THEN i ELSE prev[k]]
           /\ heap' = Pushed(pop.rest, syms', alive', <<<<prev[i], i>>, <<i, nxt[j]>>>>)
  /\ UNCHANGED <<scores, twin, merging, ids>>

(* The pieces from the first along nxt.                                    *)
Pieces ==
  LET from[i \in -1 .. Cardinality(DOMAIN nxt)] ==
        IF i \notin DOMAIN nxt THEN <<>> ELSE <<syms[i]>> \o from[nxt[i]]
  IN  from[0]

EndEncode ==
  /\ merging /\ heap = <<>>
  /\ ids' = Pieces /\ merging' = FALSE
  /\ UNCHANGED <<scores, twin, list, heap>>

Merging == SkipStale \/ MergePair \/ EndEncode

-----------------------------------------------------------------------------

Greedy == INSTANCE GreedyMerge WITH pieces <- Pieces, busy <- merging

(* Either twin merges the best pair at each step, the leftmost of equals,  *)
(* until none is left: no stale entry acts, no pair is forgotten, and      *)
(* bpe.js hands the board the ids bpe.py would (bpe.js:9-12).              *)
ImplementsGreedy == Greedy!Spec
=============================================================================
