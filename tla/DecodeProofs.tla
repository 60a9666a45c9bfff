---------------------------- MODULE DecodeProofs ---------------------------
(***************************************************************************)
(* Proofs about Decode.  The inductive invariant adds to the properties    *)
(* what ties the loop to the caches: the token fed next is the last one    *)
(* emitted (the start token first), and the comma count tells whether out  *)
(* holds no comma or one.                                                  *)
(***************************************************************************)
EXTENDS Decode, SequenceTheorems, TLAPS

(* The token fed next is the last one of the prefix.                       *)
FedNext == running => prompt \in Prompts /\ tok = Fed[i]

(* What the counter says of the commas emitted.                            *)
CommaCount ==
  /\ n265 = 0 => \A p \in 1 .. Len(out) : out[p] # Comma
  /\ n265 = 1 => \A p, q \in 1 .. Len(out) : out[p] = Comma /\ out[q] = Comma => p = q

IInv == TypeOK /\ FedNext /\ CacheIsPrefix /\ CommaCount /\ RigidPositions

-----------------------------------------------------------------------------

(* The clamped limit of a loop.                                            *)
LEMMA ClampBound == \A m \in Asked : Clamp(m) \in 0 .. MaxGen - 1
BY DecodeAssumption DEF Clamp, Asked, DecodeAssumption

(* The self-test's length is among those tried.                            *)
LEMMA OneIsAsked == 1 \in Asked
BY DecodeAssumption DEF Asked, DecodeAssumption

(* Appending to the answer, element by element.                            *)
LEMMA AppendFacts ==
  \A s \in Seq(Vocab \ {EOS}), t \in Vocab \ {EOS} :
    /\ Append(s, t) \in Seq(Vocab \ {EOS})
    /\ Len(Append(s, t)) = Len(s) + 1
    /\ Len(s) \in Nat
    /\ \A p \in 1 .. Len(s) : Append(s, t)[p] = s[p] /\ s[p] \in Vocab \ {EOS}
    /\ Append(s, t)[Len(s) + 1] = t
BY AppendProperties, ElementOfSeq, LenProperties

(* The prefix is the start token and then the answer.                      *)
LEMMA PrefixFacts ==
  \A s \in Seq(Vocab \ {EOS}) :
    /\ <<EOS>> \o s \in Seq(Vocab)
    /\ Len(<<EOS>> \o s) = Len(s) + 1
    /\ Len(s) \in Nat
    /\ (<<EOS>> \o s)[1] = EOS
    /\ \A p \in 1 .. Len(s) : (<<EOS>> \o s)[p + 1] = s[p] /\ s[p] \in Vocab
<1> SUFFICES ASSUME NEW s \in Seq(Vocab \ {EOS})
             PROVE  /\ <<EOS>> \o s \in Seq(Vocab)
                    /\ Len(<<EOS>> \o s) = Len(s) + 1
                    /\ Len(s) \in Nat
                    /\ (<<EOS>> \o s)[1] = EOS
                    /\ \A p \in 1 .. Len(s) : (<<EOS>> \o s)[p + 1] = s[p] /\ s[p] \in Vocab
  OBVIOUS
<1>1. s \in Seq(Vocab)
  BY SeqMonotonic, Vocab \ {EOS} \subseteq Vocab
<1>2. <<EOS>> \in Seq(Vocab) /\ Len(<<EOS>>) = 1 /\ <<EOS>>[1] = EOS
  BY DecodeAssumption DEF DecodeAssumption
<1>3. Len(s) \in Nat /\ \A p \in 1 .. Len(s) : s[p] \in Vocab
  BY <1>1, LenProperties, ElementOfSeq
<1> QED
  BY <1>1, <1>2, <1>3, ConcatProperties

(* The prefix grows as the answer does.                                    *)
LEMMA PrefixAppend ==
  \A s \in Seq(Vocab \ {EOS}), t \in Vocab \ {EOS} :
    <<EOS>> \o Append(s, t) = Append(<<EOS>> \o s, t)
<1> SUFFICES ASSUME NEW s \in Seq(Vocab \ {EOS}), NEW t \in Vocab \ {EOS}
             PROVE  <<EOS>> \o Append(s, t) = Append(<<EOS>> \o s, t)
  OBVIOUS
<1> DEFINE a == Append(s, t)
           l == <<EOS>> \o a
           r == Append(<<EOS>> \o s, t)
<1>1. a \in Seq(Vocab \ {EOS}) /\ Len(a) = Len(s) + 1 /\ Len(s) \in Nat
  BY AppendFacts
<1>2. /\ l \in Seq(Vocab) /\ Len(l) = Len(s) + 2 /\ l[1] = EOS
      /\ \A p \in 1 .. Len(a) : l[p + 1] = a[p]
  BY <1>1, PrefixFacts
<1>3. /\ r \in Seq(Vocab) /\ Len(r) = Len(s) + 2
      /\ \A p \in 1 .. Len(s) + 1 : r[p] = (<<EOS>> \o s)[p]
      /\ r[Len(s) + 2] = t
  BY <1>1, PrefixFacts, AppendProperties
<1>4. ASSUME NEW p \in 1 .. Len(l) PROVE l[p] = r[p]
  <2>1. CASE p = 1
    BY <2>1, <1>1, <1>2, <1>3, PrefixFacts
  <2>2. CASE p = Len(s) + 2
    <3>1. l[p] = a[Len(s) + 1]
      BY <2>2, <1>1, <1>2
    <3> QED  BY <3>1, <2>2, <1>3, AppendFacts
  <2>3. CASE p \in 2 .. Len(s) + 1
    <3> DEFINE q == p - 1
    <3>1. q \in 1 .. Len(s) /\ p = q + 1
      BY <2>3, <1>1
    <3>2. l[p] = a[q]
      BY <3>1, <1>1, <1>2
    <3>3. a[q] = s[q]
      BY <3>1, AppendFacts
    <3>4. r[p] = (<<EOS>> \o s)[p]
      BY <2>3, <1>1, <1>3
    <3>5. (<<EOS>> \o s)[q + 1] = s[q]
      BY <3>1, PrefixFacts
    <3> QED  BY <3>1, <3>2, <3>3, <3>4, <3>5
  <2> QED  BY <2>1, <2>2, <2>3, <1>1, <1>2
<1> QED
  <2> HIDE DEF l, r
  <2>1. l = r  BY <1>2, <1>3, <1>4, SeqEqual
  <2> QED  BY <2>1 DEF l, r

-----------------------------------------------------------------------------

(* The invariant holds initially.                                          *)
LEMMA InitIInv == Init => IInv
<1> SUFFICES ASSUME Init PROVE IInv
  OBVIOUS
<1>1. out \in Seq(Vocab \ {EOS}) /\ Len(out) = 0
  BY EmptySeq DEF Init
<1>2. NoRow \in Row
  BY DEF NoRow, Row
<1>3. MaxGen \in Nat /\ MaxGen - 1 \in Nat /\ EOS \in Vocab
  BY DecodeAssumption DEF DecodeAssumption
<1>5. self \in [Pos -> Row] /\ mirror \in [Pos -> Row]
  BY <1>2 DEF Init
<1>4. TypeOK
  <2>1. {running, scalar, force} \subseteq BOOLEAN /\ read = None
    BY DEF Init
  <2>2. limit \in 0 .. MaxGen - 1 /\ i \in 0 .. limit /\ decLen \in 0 .. MaxGen
    BY <1>3 DEF Init
  <2>3. n265 \in 0 .. Len(out) /\ Len(out) <= i /\ forcedAt \subseteq 1 .. Len(out)
    BY <1>1 DEF Init
  <2>4. prompt \in Prompts \cup {None} /\ cross \in Prompts \cup {None} /\ tok \in Vocab
    BY <1>3 DEF Init
  <2> QED
    BY <1>1, <1>5, <2>1, <2>2, <2>3, <2>4 DEF TypeOK
<1> QED
  BY <1>1, <1>4 DEF Init, IInv, FedNext, CacheIsPrefix, CommaCount, RigidPositions

-----------------------------------------------------------------------------

(* Entering a loop: the decoder's position is reset.                       *)
LEMMA BeginStep ==
  IInv => \A p \in Prompts, m \in Asked, f, b \in BOOLEAN : Begin(p, m, f, b) => IInv'
<1> SUFFICES ASSUME IInv, NEW p \in Prompts, NEW m \in Asked, NEW f \in BOOLEAN,
                    NEW b \in BOOLEAN, Begin(p, m, f, b)
             PROVE  IInv'
  OBVIOUS
<1>1. out' \in Seq(Vocab \ {EOS}) /\ Len(out') = 0
  BY EmptySeq DEF Begin
<1>2. limit' \in 0 .. MaxGen - 1
  BY ClampBound DEF Begin
<1>3. MaxGen \in Nat /\ EOS \in Vocab
  BY DecodeAssumption DEF DecodeAssumption
<1>4. TypeOK'
  BY <1>1, <1>2, <1>3 DEF IInv, TypeOK, Begin, Encode
<1>5. FedNext' /\ CacheIsPrefix'
  BY <1>1, <1>2 DEF Begin, Encode, FedNext, CacheIsPrefix, Fed
<1>6. CommaCount' /\ RigidPositions'
  BY <1>1 DEF Begin, CommaCount, RigidPositions
<1> QED
  BY <1>4, <1>5, <1>6 DEF IInv

(* The decoder layers of a step see the prompt and the whole prefix.       *)
LEMMA LayersRead ==
  IInv /\ running /\ i < limit =>
    \A f : Layers(f) =>
      /\ decLen' = i + 1 /\ cross' = prompt /\ decLen < MaxGen
      /\ self' \in [Pos -> Row] /\ mirror' \in [Pos -> Row]
      /\ \A r \in 0 .. i : /\ self'[r] = [ids |-> prompt, fed |-> Fed[r]]
                           /\ ~scalar => mirror'[r] = self'[r]
      /\ read' = [ids |-> prompt, seen |-> <<EOS>> \o out]
<1> SUFFICES ASSUME IInv, running, i < limit, NEW f, Layers(f)
             PROVE  /\ decLen' = i + 1 /\ cross' = prompt /\ decLen < MaxGen
                    /\ self' \in [Pos -> Row] /\ mirror' \in [Pos -> Row]
                    /\ \A r \in 0 .. i : /\ self'[r] = [ids |-> prompt, fed |-> Fed[r]]
                                         /\ ~scalar => mirror'[r] = self'[r]
                    /\ read' = [ids |-> prompt, seen |-> <<EOS>> \o out]
  OBVIOUS
<1>1. /\ decLen = i /\ Len(out) = i /\ cross = prompt
      /\ prompt \in Prompts /\ tok = Fed[i] /\ tok \in Vocab
      /\ i \in Nat /\ i \in Pos /\ limit \in 0 .. MaxGen - 1 /\ MaxGen \in Nat
      /\ self \in [Pos -> Row] /\ mirror \in [Pos -> Row]
      /\ out \in Seq(Vocab \ {EOS})
  BY DecodeAssumption DEF IInv, TypeOK, FedNext, CacheIsPrefix, Pos, DecodeAssumption
<1> DEFINE row == [ids |-> prompt, fed |-> tok]
<1>2. row \in Row
  BY <1>1 DEF Row
<1>3. self' = [self EXCEPT ![i] = row]
  BY <1>1 DEF Layers
<1>4. mirror' = IF scalar THEN mirror ELSE [mirror EXCEPT ![i] = self'[i]]
  BY <1>1 DEF Layers
<1>5. self' \in [Pos -> Row] /\ mirror' \in [Pos -> Row] /\ self'[i] = row
  BY <1>1, <1>2, <1>3, <1>4
<1>6. ASSUME NEW r \in 0 .. i
      PROVE  /\ self'[r] = [ids |-> prompt, fed |-> Fed[r]]
             /\ ~scalar => mirror'[r] = self'[r]
  <2>1. CASE r = i
    BY <2>1, <1>1, <1>4, <1>5
  <2>2. CASE r \in 0 .. i - 1
    <3>1. self[r] = [ids |-> prompt, fed |-> Fed[r]] /\ (~scalar => mirror[r] = self[r])
      BY <2>2 DEF IInv, CacheIsPrefix
    <3>2. r \in Pos /\ r # i
      BY <2>2, <1>1 DEF Pos
    <3> QED  BY <3>1, <3>2, <1>1, <1>3, <1>4
  <2> QED  BY <2>1, <2>2, <1>1
<1>7. read' = [ids |-> prompt, seen |-> <<EOS>> \o out]
  <2> DEFINE kv == IF scalar THEN self' ELSE mirror'
             c  == [r \in 1 .. i + 1 |-> kv[r - 1].fed]
             e  == <<EOS>> \o out
  <2>1. read' = [ids |-> prompt, seen |-> c]
    BY <1>1 DEF Layers, Context
  <2>2. \A r \in 0 .. i : kv[r].fed = Fed[r]
    <3>1. \A r \in 0 .. i : kv[r] = self'[r]
      <4>1. CASE scalar   BY <4>1
      <4>2. CASE ~scalar  BY <4>2, <1>6
      <4> QED  BY <4>1, <4>2
    <3> HIDE DEF kv
    <3>2. \A r \in 0 .. i : kv[r] = [ids |-> prompt, fed |-> Fed[r]]
      BY <3>1, <1>6
    <3>3. \A r : [ids |-> prompt, fed |-> Fed[r]].fed = Fed[r]
      OBVIOUS
    <3> QED  BY <3>2, <3>3
  <2>3. e \in Seq(Vocab) /\ Len(e) = i + 1 /\ e[1] = EOS
        /\ \A p \in 1 .. i : e[p + 1] = out[p]
    BY <1>1, PrefixFacts
  <2>4. \A r \in 1 .. i + 1 : c[r] = e[r]
    <3> SUFFICES ASSUME NEW r \in 1 .. i + 1 PROVE c[r] = e[r]
      OBVIOUS
    <3>1. c[r] = Fed[r - 1]
      BY <2>2, <1>1
    <3>2. CASE r = 1
      BY <3>1, <3>2, <2>3 DEF Fed
    <3>3. CASE r # 1
      <4> DEFINE q == r - 1
      <4>1. q \in 1 .. i /\ r = q + 1
        BY <3>3, <1>1
      <4>2. e[q + 1] = out[q]
        BY <4>1, <2>3
      <4> QED  BY <4>1, <4>2, <3>1, <1>1 DEF Fed
    <3> QED  BY <3>2, <3>3
  <2>5. e \in [1 .. i + 1 -> Vocab]
    BY <2>3, LenProperties
  <2>6. c = e
    <3> HIDE DEF e
    <3> QED  BY <2>4, <2>5
  <2> QED  BY <2>1, <2>6
<1> QED
  BY <1>1, <1>5, <1>6, <1>7 DEF Layers

(* A step runs the layers and takes a token, the forced one if there is    *)
(* one; the full-cache answer of ne_step_f is out of the loops' reach.     *)
LEMMA StepTakes ==
  IInv /\ Step =>
    \E t \in Vocab, f \in {None, Name, Colon, Args} :
      /\ running /\ i < limit
      /\ Layers(f) /\ Take(t, f)
      /\ f # None => f = ForcedNext(tok, Len(out), n265) /\ t = f
<1> SUFFICES ASSUME IInv, Step
             PROVE  \E t \in Vocab, f \in {None, Name, Colon, Args} :
                      /\ running /\ i < limit
                      /\ Layers(f) /\ Take(t, f)
                      /\ f # None => f = ForcedNext(tok, Len(out), n265) /\ t = f
  OBVIOUS
<1> DEFINE g == IF force THEN ForcedNext(tok, Len(out), n265) ELSE None
<1>1. running /\ i < limit /\ decLen < MaxGen
  BY DecodeAssumption DEF Step, IInv, TypeOK, CacheIsPrefix, DecodeAssumption
<1>2. g \in {None, Name, Colon, Args}
  BY DEF ForcedNext
<1>3. ~(decLen >= MaxGen)
  BY <1>1, DecodeAssumption DEF IInv, TypeOK, DecodeAssumption
<1>4. Layers(g) /\ (g # None => Take(g, g)) /\ (g = None => \E t \in Vocab : Take(t, None))
  BY <1>3 DEF Step
<1>5. g # None => g = ForcedNext(tok, Len(out), n265)
  OBVIOUS
<1>6. {Name, Colon, Args} \subseteq Vocab
  BY DecodeAssumption DEF DecodeAssumption
<1> HIDE DEF g
<1>7. CASE g = None
  <2>1. PICK t \in Vocab : Take(t, None)
    BY <1>4, <1>7
  <2> QED  BY <2>1, <1>1, <1>4, <1>7
<1>8. CASE g # None
  BY <1>1, <1>2, <1>4, <1>5, <1>6, <1>8
<1> QED
  BY <1>7, <1>8

(* A step of the loop.                                                     *)
LEMMA StepInv == IInv /\ Step => IInv'
<1> SUFFICES ASSUME IInv, Step PROVE IInv'
  OBVIOUS
<1>1. PICK t \in Vocab, f \in {None, Name, Colon, Args} :
        /\ running /\ i < limit
        /\ Layers(f) /\ Take(t, f)
        /\ f # None => f = ForcedNext(tok, Len(out), n265) /\ t = f
  BY StepTakes
<1>2. /\ decLen' = i + 1 /\ cross' = prompt /\ decLen < MaxGen
      /\ self' \in [Pos -> Row] /\ mirror' \in [Pos -> Row]
      /\ \A r \in 0 .. i : /\ self'[r] = [ids |-> prompt, fed |-> Fed[r]]
                           /\ ~scalar => mirror'[r] = self'[r]
      /\ read' = [ids |-> prompt, seen |-> <<EOS>> \o out]
  BY <1>1, LayersRead
<1>3. /\ out \in Seq(Vocab \ {EOS}) /\ Len(out) = i /\ i \in Nat
      /\ limit \in 0 .. MaxGen - 1 /\ MaxGen \in Nat /\ prompt \in Prompts
      /\ n265 \in 0 .. Len(out) /\ forcedAt \subseteq 1 .. Len(out)
      /\ {running, scalar, force} \subseteq BOOLEAN /\ tok = Fed[i]
  BY <1>1, DecodeAssumption DEF IInv, TypeOK, FedNext, CacheIsPrefix, DecodeAssumption
<1>4. /\ tok' = t /\ i' = i + 1
      /\ prompt' = prompt /\ scalar' = scalar /\ force' = force /\ limit' = limit
  BY <1>1 DEF Take
<1>5. read'.ids \in Prompts /\ read'.seen \in Seq(Vocab)
  BY <1>2, <1>3, PrefixFacts
<1>6. CASE t = EOS
  <2>1. running' = FALSE /\ out' = out /\ n265' = n265 /\ forcedAt' = forcedAt
    BY <1>1, <1>6 DEF Take
  <2>2. TypeOK'
    <3>1. n265' \in 0 .. Len(out') /\ forcedAt' \subseteq 1 .. Len(out')
      BY <2>1, <1>3
    <3>2. i' \in 0 .. limit' /\ Len(out') <= i' /\ decLen' \in 0 .. MaxGen
      BY <2>1, <1>1, <1>2, <1>3, <1>4
    <3>3. {running', scalar', force'} \subseteq BOOLEAN
      BY <2>1, <1>3, <1>4
    <3> QED  BY <3>1, <3>2, <3>3, <2>1, <1>1, <1>2, <1>3, <1>4, <1>5 DEF TypeOK
  <2>3. FedNext' /\ CacheIsPrefix'
    BY <2>1 DEF FedNext, CacheIsPrefix
  <2>4. CommaCount' /\ RigidPositions'
    BY <2>1 DEF IInv, CommaCount, RigidPositions
  <2> QED  BY <2>2, <2>3, <2>4 DEF IInv
<1>7. CASE t # EOS
  <2>1. /\ out' = Append(out, t) /\ running' = running
        /\ n265' = IF t = Comma THEN n265 + 1 ELSE n265
        /\ forcedAt' = IF f # None THEN forcedAt \cup {Len(out) + 1} ELSE forcedAt
    BY <1>1, <1>7 DEF Take
  <2>2. /\ out' \in Seq(Vocab \ {EOS}) /\ Len(out') = i + 1 /\ out'[i + 1] = t
        /\ \A p \in 1 .. i : out'[p] = out[p]
    BY <2>1, <1>3, <1>7, AppendFacts
  <2>3. TypeOK'
    <3>1. Len(out') = Len(out) + 1 /\ Len(out) \in Nat /\ Len(out) + 1 \in 1 .. Len(out')
      BY <2>2, <1>3
    <3>2. n265' \in 0 .. Len(out')
      BY <2>1, <3>1, <1>3
    <3>3. forcedAt' \subseteq 1 .. Len(out')
      <4>1. forcedAt \subseteq 1 .. Len(out')
        BY <3>1, <1>3
      <4> QED  BY <4>1, <2>1, <3>1
    <3> QED  BY <3>2, <3>3, <2>1, <2>2, <1>1, <1>2, <1>3, <1>4, <1>5 DEF TypeOK
  <2>4. FedNext'
    BY <2>2, <1>3, <1>4 DEF FedNext, Fed
  <2>5. CacheIsPrefix'
    <3>1. i' - 1 = i /\ decLen' = i' /\ Len(out') = i' /\ cross' = prompt'
      BY <2>2, <1>2, <1>3, <1>4
    <3>2. \A r \in 0 .. i : Fed'[r] = Fed[r]
      BY <2>2, <1>3 DEF Fed
    <3>3. \A r \in 0 .. i : /\ self'[r] = [ids |-> prompt, fed |-> Fed[r]]
                            /\ ~scalar => mirror'[r] = self'[r]
      BY <1>2
    <3>4. \A r \in 0 .. i : /\ self'[r] = [ids |-> prompt', fed |-> Fed'[r]]
                            /\ ~scalar' => mirror'[r] = self'[r]
      BY <3>2, <3>3, <1>4
    <3>5. \A r \in 0 .. i' - 1 : /\ self'[r] = [ids |-> prompt', fed |-> Fed'[r]]
                                 /\ ~scalar' => mirror'[r] = self'[r]
      BY <3>1, <3>4
    <3> QED  BY <3>1, <3>5 DEF CacheIsPrefix
  <2>6. CommaCount'
    <3>1. CASE t = Comma
      BY <3>1, <2>1, <2>2, <1>3 DEF IInv, CommaCount
    <3>2. CASE t # Comma
      BY <3>2, <2>1, <2>2, <1>3 DEF IInv, CommaCount
    <3> QED  BY <3>1, <3>2
  <2>7. RigidPositions'
    <3> SUFFICES ASSUME NEW p \in forcedAt'
                 PROVE  /\ p > 1
                        /\ \/ p = 3 /\ out'[2] = Open /\ out'[p] = Name
                           \/ p = 4 /\ out'[3] = Name /\ out'[p] = Colon
                           \/ /\ out'[p - 1] = Comma /\ out'[p] = Args
                              /\ \A q \in 1 .. p - 2 : out'[q] # Comma
      BY DEF RigidPositions
    <3>1. CASE p \in forcedAt
      <4>1. p \in 1 .. i
        BY <3>1, <1>3
      <4>2. /\ p > 1
            /\ \/ p = 3 /\ out[2] = Open /\ out[p] = Name
               \/ p = 4 /\ out[3] = Name /\ out[p] = Colon
               \/ /\ out[p - 1] = Comma /\ out[p] = Args
                  /\ \A q \in 1 .. p - 2 : out[q] # Comma
        BY <3>1 DEF IInv, RigidPositions
      <4> QED  BY <4>1, <4>2, <2>2, <1>3
    <3>2. CASE p \notin forcedAt
      <4>1. p = i + 1 /\ f # None /\ t = f /\ f = ForcedNext(tok, i, n265)
        BY <3>2, <2>1, <1>1, <1>3
      <4>2. i > 0 /\ tok = out[i]
        <5>1. i = 0 => tok = EOS
          BY <1>3 DEF Fed
        <5>2. i = 0 => ForcedNext(tok, i, n265) = None
          BY <5>1, DecodeAssumption DEF ForcedNext, DecodeAssumption
        <5> QED  BY <5>2, <4>1, <1>3 DEF Fed
      <4>3. \/ tok = Open /\ i = 2 /\ t = Name
            \/ tok = Name /\ i = 3 /\ t = Colon
            \/ tok = Comma /\ n265 = 1 /\ t = Args
        BY <4>1 DEF ForcedNext
      <4>4. tok = Comma /\ n265 = 1 => \A q \in 1 .. i - 1 : out[q] # Comma
        <5> SUFFICES ASSUME tok = Comma, n265 = 1, NEW q \in 1 .. i - 1, out[q] = Comma
                     PROVE  FALSE
          OBVIOUS
        <5>1. q \in 1 .. Len(out) /\ i \in 1 .. Len(out) /\ q # i
          BY <4>2, <1>3
        <5>2. out[i] = Comma
          BY <4>2
        <5>3. \A a, b \in 1 .. Len(out) : out[a] = Comma /\ out[b] = Comma => a = b
          BY DEF IInv, CommaCount
        <5> QED  BY <5>1, <5>2, <5>3
      <4>5. p - 1 = i /\ p > 1 /\ p - 2 = i - 1 /\ out'[p] = t /\ out'[p - 1] = tok
        <5>1. p - 1 = i /\ p > 1 /\ p - 2 = i - 1
          BY <4>1, <4>2, <1>3
        <5>2. out'[p] = t
          BY <4>1, <2>2
        <5>3. out'[i] = out[i]
          <6>1. i \in 1 .. i
            BY <4>2, <1>3
          <6>2. \A k \in 1 .. i : out'[k] = out[k]
            BY <2>2
          <6> QED  BY <6>1, <6>2
        <5> QED  BY <5>1, <5>2, <5>3, <4>2
      <4>6. \A q \in 1 .. p - 2 : out'[q] = out[q]
        BY <4>5, <2>2, <1>3
      <4>7. CASE tok = Open /\ i = 2 /\ t = Name
        BY <4>5, <4>7
      <4>8. CASE tok = Name /\ i = 3 /\ t = Colon
        BY <4>5, <4>8
      <4>9. CASE tok = Comma /\ n265 = 1 /\ t = Args
        <5>1. \A q \in 1 .. p - 2 : out'[q] # Comma
          BY <4>4, <4>5, <4>6, <4>9
        <5> QED  BY <4>5, <4>9, <5>1
      <4> QED  BY <4>3, <4>7, <4>8, <4>9
    <3> QED  BY <3>1, <3>2
  <2> QED  BY <2>3, <2>4, <2>5, <2>6, <2>7 DEF IInv
<1> QED
  BY <1>6, <1>7

(* The loop's bound ends an answer.                                        *)
LEMMA EndInv == IInv /\ End => IInv'
BY DEF IInv, End, TypeOK, FedNext, CacheIsPrefix, CommaCount, RigidPositions, cacheVars

(* The inductive invariant holds of every execution.                       *)
THEOREM Invariance == Spec => []IInv
<1>1. IInv /\ [Next]_vars => IInv'
  <2> SUFFICES ASSUME IInv, [Next]_vars PROVE IInv'
    OBVIOUS
  <2>1. CASE \E p \in Prompts : Query(p)
    BY <2>1, BeginStep DEF Query
  <2>2. CASE SelfTest
    BY <2>2, BeginStep, OneIsAsked, DecodeAssumption DEF SelfTest, DecodeAssumption
  <2>3. CASE Step
    BY <2>3, StepInv
  <2>4. CASE End
    BY <2>4, EndInv
  <2>5. CASE UNCHANGED vars
    <3>1. UNCHANGED Fed
      BY <2>5 DEF vars, loopVars, Fed
    <3>2. FedNext' /\ CacheIsPrefix'
      BY <2>5, <3>1 DEF IInv, vars, loopVars, cacheVars, FedNext, CacheIsPrefix
    <3>3. TypeOK'
      BY <2>5 DEF IInv, vars, loopVars, cacheVars, TypeOK
    <3>4. CommaCount' /\ RigidPositions'
      BY <2>5 DEF IInv, vars, loopVars, CommaCount, RigidPositions
    <3> QED  BY <3>2, <3>3, <3>4 DEF IInv
  <2> QED  BY <2>1, <2>2, <2>3, <2>4, <2>5 DEF Next
<1> QED
  BY <1>1, InitIInv, PTL DEF Spec

(* Every reachable state is of the right type; the answer and the cache    *)
(* stay within their bounds, whatever max_gen the caller asked for.        *)
THEOREM TypeCorrect == Spec => []TypeOK
BY Invariance, PTL DEF IInv

(* The live cache rows are the fed prefix, in order, under this prompt.    *)
THEOREM CacheCorrect == Spec => []CacheIsPrefix
BY Invariance, PTL DEF IInv

(* Tokens are forced at the rigid positions only.                          *)
THEOREM ForcingIsRigid == Spec => []RigidPositions
BY Invariance, PTL DEF IInv

-----------------------------------------------------------------------------

(* Cached decoding computes every token from the prompt and the whole      *)
(* prefix: Decode implements Autoregressive.                               *)
THEOREM Refinement == Spec => ImplementsAutoregressive
<1>1. Init => Abstract!Init
  <2> SUFFICES ASSUME Init PROVE Abstract!Init
    OBVIOUS
  <2>1. <<EOS>> \o << >> = <<EOS>>
    BY ConcatEmptySeq, DecodeAssumption DEF DecodeAssumption
  <2> QED  BY <2>1 DEF Init, Abstract!Init
<1>2. IInv /\ [Next]_vars => [Abstract!Next]_Abstract!arVars
  <2> SUFFICES ASSUME IInv, [Next]_vars PROVE Abstract!Next \/ UNCHANGED Abstract!arVars
    BY DEF Abstract!arVars
  <2>1. ASSUME NEW p \in Prompts, NEW m \in Asked, NEW g, NEW b, Begin(p, m, g, b)
        PROVE  Abstract!Next
    <3>1. <<EOS>> \o << >> = <<EOS>>
      BY ConcatEmptySeq, DecodeAssumption DEF DecodeAssumption
    <3>2. Abstract!Ask(p)
      BY <2>1, <3>1 DEF Begin, Abstract!Ask
    <3> QED  BY <3>2 DEF Abstract!Next
  <2>2. CASE \E p \in Prompts : Query(p)
    BY <2>1, <2>2 DEF Query
  <2>3. CASE SelfTest
    BY <2>1, <2>3, OneIsAsked, DecodeAssumption DEF SelfTest, DecodeAssumption
  <2>4. CASE Step
    <3>1. PICK t \in Vocab, f \in {None, Name, Colon, Args} :
            running /\ i < limit /\ Layers(f) /\ Take(t, f)
      BY <2>4, StepTakes
    <3>2. read' = [ids |-> prompt, seen |-> <<EOS>> \o out]
      BY <3>1, LayersRead
    <3>3. out \in Seq(Vocab \ {EOS}) /\ Len(out) = i /\ i \in Nat
          /\ limit \in 0 .. MaxGen - 1 /\ MaxGen \in Nat
      BY <3>1, DecodeAssumption DEF IInv, TypeOK, CacheIsPrefix, DecodeAssumption
    <3>4. Len(<<EOS>> \o out) < MaxGen
      BY <3>1, <3>3, PrefixFacts
    <3>5. prompt' = prompt
      BY <3>1 DEF Take
    <3>6. IF t = EOS THEN running' = FALSE /\ (<<EOS>> \o out)' = <<EOS>> \o out
                     ELSE (<<EOS>> \o out)' = Append(<<EOS>> \o out, t) /\ running' = running
      <4>1. CASE t = EOS
        BY <4>1, <3>1 DEF Take
      <4>2. CASE t # EOS
        <5>1. out' = Append(out, t) /\ running' = running
          BY <4>2, <3>1 DEF Take
        <5> QED  BY <5>1, <4>2, <3>3, PrefixAppend
      <4> QED  BY <4>1, <4>2
    <3>7. Abstract!Emit(t)
      BY <3>1, <3>2, <3>4, <3>5, <3>6 DEF Abstract!Emit
    <3> QED  BY <3>7 DEF Abstract!Next
  <2>5. CASE End
    <3>1. Abstract!Stop
      BY <2>5 DEF End, cacheVars, Abstract!Stop
    <3> QED  BY <3>1 DEF Abstract!Next
  <2>6. CASE UNCHANGED vars
    BY <2>6 DEF vars, loopVars, cacheVars, Abstract!arVars
  <2> QED  BY <2>2, <2>3, <2>4, <2>5, <2>6 DEF Next
<1> QED
  BY <1>1, <1>2, Invariance, PTL DEF Spec, ImplementsAutoregressive, Abstract!Spec
=============================================================================
