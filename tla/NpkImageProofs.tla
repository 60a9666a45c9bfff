--------------------------- MODULE NpkImageProofs ---------------------------
(***************************************************************************)
(* The weight image for any list of tensors, alignment and partition.      *)
(*                                                                         *)
(* Three arguments.  Sections: a record appended by the packer starts      *)
(* where the blob ends, so SectionsInv only compares it with the end of    *)
(* the blob.  Size: what the header claims may wrap around in app_main,    *)
(* but never to more than it is; the check that follows is exact for       *)
(* claims under 2^64 (SizeInv).  Soundness: LoadInv says what the records  *)
(* before i have been found to be; an image that repeats a name has too    *)
(* many records to come that far (NamesInv).                               *)
(***************************************************************************)
EXTENDS NpkImage, SequenceTheorems, FiniteSetTheorems, TLAPS

Records ==
  [name : STRING, rows : Nat \ {0}, cols : Nat, group : Nat,
   dtype : {"f16", "i8", "i4", "f32"}, scale : Nat \cup {NoScale}, data : Nat]

Ids == 1 .. Len(recs)

TypeInv ==
  /\ phase \in {"pack", "flashed", "load", "records", "context", "up", "astray", "refused"}
  /\ group \in Groups
  /\ recs \in Seq(Records)
  /\ blob \in Nat /\ total \in Nat /\ i \in Nat /\ dgroup \in Nat
  /\ altered \in BOOLEAN

(* Where a record's sections start and end.                                *)
Start(r) == IF r.scale = NoScale THEN r.data ELSE r.scale
End(r) == r.data + DataBytes(r)

Placed(r) ==
  /\ r.group # 0
  /\ r.data % Unit = 0
  /\ r.scale # NoScale => r.scale % Unit = 0 /\ r.scale + ScaleBytes(r) <= r.data
  /\ r.cols # 0 => (DataBytes(r) \div r.rows) % Unit = 0
  /\ End(r) <= blob

SectionsInv ==
  ~altered => /\ \A k \in Ids : Placed(recs[k])
              /\ \A j, k \in Ids : j < k => End(recs[j]) <= Start(recs[k])

SizeInv ==
  /\ phase = "load" => total = Size % Word /\ total <= PartSize
  /\ phase \in {"records", "context", "up"} =>
       Len(recs) <= MaxRecs /\ (Size < Wide => total = Size /\ Size <= PartSize)
  /\ phase = "astray" => Size >= Wide

Known(name) == \E n \in 1 .. Len(Tensors) : Tensors[n].name = name

(* All names are the checkpoint's, and none comes twice in a list that     *)
(* fits.                                                                   *)
ListInv ==
  /\ \A k \in Ids : Known(recs[k].name)
  /\ Len(recs) <= MaxRecs => \A j, k \in Ids : recs[j].name = recs[k].name => j = k

NamesInv ==
  /\ phase = "pack" =>
       /\ ~altered /\ Len(recs) <= Len(Tensors)
       /\ \A k \in Ids : recs[k].name = Tensors[k].name
  /\ ListInv

Scaled(k) == recs[k].cols # 0 /\ recs[k].scale # NoScale

(* What the loop over the records knows of record k behind it.             *)
Accepted(k) ==
  /\ k \in scales <=> Scaled(k)
  /\ Scaled(k) => /\ recs[k].group \in {Chunk, recs[k].cols}
                  /\ recs[k].cols = DModel => recs[k].group = dgroup /\ dgroup # 0

LoadInv ==
  /\ phase = "records" => /\ i \in 1 .. Len(recs) + 1
                          /\ scales \subseteq 1 .. i - 1
                          /\ \A k \in 1 .. i - 1 : Accepted(k)
  /\ phase \in {"context", "up"} =>
       /\ scales \subseteq Ids
       /\ \A k \in Ids : Accepted(k)
       /\ \A name \in Needed : Named(name) # {}
       /\ \A k \in Ids : recs[k].name \in Needed => ~TooLong(recs[k])

IInv == TypeInv /\ SectionsInv /\ SizeInv /\ NamesInv /\ LoadInv

-----------------------------------------------------------------------------

(* The next offset on a unit.                                              *)
LEMMA AlignFacts ==
  ASSUME NEW n \in Nat
  PROVE  Align(n) \in Nat /\ n <= Align(n) /\ Align(n) % Unit = 0
<1>1. Unit \in Nat \ {0}
  BY ImageAssumption
<1>2. (n + Unit - 1) \div Unit \in Nat
  BY <1>1
<1>3. n <= ((n + Unit - 1) \div Unit) * Unit
  BY <1>1
<1>4. ASSUME NEW q \in Nat PROVE (q * Unit) % Unit = 0 /\ q * Unit \in Nat
  BY <1>1
<1> QED
  BY <1>2, <1>3, <1>4 DEF Align

(* Bytes of a matrix: whole rows, each of whole units.                     *)
LEMMA RowBytes ==
  ASSUME NEW rows \in Nat \ {0}, NEW cols \in Nat, cols % (2 * Unit) = 0
  PROVE  /\ rows * cols \in Nat /\ rows * (cols \div 2) \in Nat
         /\ ((rows * cols) \div rows) % Unit = 0
         /\ ((rows * (cols \div 2)) \div rows) % Unit = 0
<1>1. Unit \in Nat \ {0}
  BY ImageAssumption
<1>2. PICK q \in Nat : cols = (2 * Unit) * q
  <2>1. 2 * Unit \in Nat \ {0}
    BY <1>1
  <2>2. ASSUME NEW u \in Nat \ {0}, cols % u = 0 PROVE cols \div u \in Nat /\ cols = u * (cols \div u)
    BY <2>2
  <2> QED
    BY <2>1, <2>2
<1>3. cols = (2 * q) * Unit /\ 2 * q \in Nat
  BY <1>1, <1>2
<1>4. cols \div 2 = q * Unit
  BY <1>1, <1>2
<1>5. ASSUME NEW m \in Nat PROVE (rows * m) \div rows = m /\ rows * m \in Nat
  BY <1>5
<1>6. ASSUME NEW m \in Nat PROVE (m * Unit) % Unit = 0 /\ m * Unit \in Nat
  BY <1>1
<1> QED
  BY <1>3, <1>4, <1>5, <1>6

(* What add appends for the next tensor: placed behind the blob.           *)
LEMMA NewRecord ==
  ASSUME TypeInv, NEW t \in [name : STRING, rows : Nat \ {0}, cols : Nat],
         t.cols % (2 * Unit) = 0,
         NEW soff, soff = IF t.cols = 0 THEN NoScale ELSE Align(blob),
         NEW doff, doff = IF t.cols = 0 THEN Align(blob)
                          ELSE Align(soff + ScaleBytes(Record(t, soff, 0))),
         NEW r, r = Record(t, soff, doff)
  PROVE  /\ r \in Records /\ r.name = t.name /\ r.cols = t.cols
         /\ blob <= Start(r) /\ End(r) \in Nat /\ blob <= End(r)
         /\ r.group # 0 /\ r.data % Unit = 0
         /\ r.scale # NoScale => r.scale % Unit = 0 /\ r.scale + ScaleBytes(r) <= r.data
         /\ r.cols # 0 => (DataBytes(r) \div r.rows) % Unit = 0
<1>1. /\ blob \in Nat /\ group \in Nat \ {0} /\ NoScale = -1
      /\ Align(blob) \in Nat /\ blob <= Align(blob) /\ Align(blob) % Unit = 0
  BY AlignFacts, ImageAssumption DEF TypeInv, Groups, NoScale
<1>2. /\ r.name = t.name /\ r.rows = t.rows /\ r.cols = t.cols /\ r.group = group
      /\ r.scale = soff /\ r.data = doff
      /\ r.dtype \in {"f16", "i8", "i4"} /\ (r.cols # 0 => r.dtype # "f16")
      /\ (r.cols = 0 => r.dtype = "f16")
      /\ r = [name |-> r.name, rows |-> r.rows, cols |-> r.cols, group |-> r.group,
              dtype |-> r.dtype, scale |-> r.scale, data |-> r.data]
  BY DEF Record
<1>3. ScaleBytes(r) \in Nat
  <2>1. t.cols \div group \in Nat
    BY <1>1
  <2>2. ASSUME NEW m \in Nat PROVE t.rows * m * 2 \in Nat
    BY <2>2
  <2> QED
    BY <1>2, <2>1, <2>2 DEF ScaleBytes
<1>4. ScaleBytes(Record(t, soff, 0)) = ScaleBytes(r)
  BY <1>2 DEF ScaleBytes, Record
<1>5. DataBytes(r) \in Nat /\ (r.cols # 0 => (DataBytes(r) \div r.rows) % Unit = 0)
  BY <1>2, RowBytes DEF DataBytes
<1>6. CASE t.cols = 0
  BY <1>1, <1>2, <1>3, <1>5, <1>6 DEF Start, End, Records
<1>7. CASE t.cols # 0
  <2>1. soff = Align(blob) /\ soff + ScaleBytes(r) \in Nat /\ doff = Align(soff + ScaleBytes(r))
    BY <1>1, <1>3, <1>4, <1>7
  <2>2. doff \in Nat /\ soff + ScaleBytes(r) <= doff /\ doff % Unit = 0
    BY <2>1, AlignFacts
  <2> QED
    BY <1>1, <1>2, <1>3, <1>5, <1>7, <2>1, <2>2 DEF Start, End, Records
<1> QED
  BY <1>6, <1>7

(* The packer appends behind everything it wrote.                          *)
LEMMA PackInv ==
  ASSUME IInv, PackTensor
  PROVE  IInv'
<1> DEFINE n == Len(recs)
           t == Tensors[n + 1]
           soff == IF t.cols = 0 THEN NoScale ELSE Align(blob)
           doff == IF t.cols = 0 THEN Align(blob)
                   ELSE Align(soff + ScaleBytes(Record(t, soff, 0)))
           r == Record(t, soff, doff)
<1>1. /\ phase = "pack" /\ n < Len(Tensors) /\ n \in Nat /\ ~altered
      /\ recs' = Append(recs, r) /\ blob' = End(r)
      /\ UNCHANGED <<phase, why, args, magic, altered, total, load>>
  BY DEF PackTensor, End, IInv, TypeInv, NamesInv, Record
<1>2. n + 1 \in 1 .. Len(Tensors)
  BY <1>1, TensorAssumption
<1>3. /\ t \in [name : STRING, rows : Nat \ {0}, cols : Nat] /\ t.cols % (2 * Unit) = 0
  <2>1. ASSUME NEW m \in 1 .. Len(Tensors)
        PROVE  /\ Tensors[m] \in [name : STRING, rows : Nat \ {0}, cols : Nat]
               /\ Tensors[m].cols % (2 * Unit) = 0
    <3>1. Tensors \in Seq([name : STRING, rows : Nat \ {0}, cols : Nat])
      BY TensorAssumption
    <3>2. Tensors[m] \in [name : STRING, rows : Nat \ {0}, cols : Nat]
      BY <3>1, ElementOfSeq
    <3>4. Tensors[m].cols % (2 * Unit) = 0
      BY TensorAssumption
    <3> QED
      BY <3>2, <3>4
  <2> QED
    BY <1>2, <2>1
<1>4. /\ r \in Records /\ r.name = t.name /\ r.cols = t.cols
      /\ blob <= Start(r) /\ End(r) \in Nat /\ blob <= End(r)
      /\ r.group # 0 /\ r.data % Unit = 0
      /\ r.scale # NoScale => r.scale % Unit = 0 /\ r.scale + ScaleBytes(r) <= r.data
      /\ r.cols # 0 => (DataBytes(r) \div r.rows) % Unit = 0
  <2> HIDE DEF t
  <2> QED
    BY <1>3, NewRecord DEF IInv
<1> HIDE DEF r
<1>5. /\ Len(recs') = n + 1 /\ recs' \in Seq(Records)
      /\ recs'[n + 1] = r /\ \A k \in Ids : recs'[k] = recs[k]
  BY <1>1, <1>4 DEF IInv, TypeInv, Ids
<1>6. Ids = 1 .. n /\ Ids' = 1 .. n + 1
  BY <1>1, <1>5 DEF Ids
<1>7. TypeInv'
  BY <1>1, <1>4, <1>5 DEF IInv, TypeInv, args, load
<1>8. SectionsInv'
  <2>1. ASSUME NEW k \in Ids PROVE Placed(recs[k])' /\ End(recs'[k]) <= blob
    <3>1. Placed(recs[k])
      BY <1>1 DEF IInv, SectionsInv
    <3>2. recs'[k] = recs[k] /\ recs[k] \in Records
      BY <1>5 DEF IInv, TypeInv, Ids
    <3>3. End(recs[k]) <= blob
      BY <3>1 DEF Placed
    <3>4. End(recs[k]) \in Int
      BY <3>2 DEF End, DataBytes, Records
    <3>5. End(recs[k]) <= blob'
      BY <1>1, <1>4, <3>3, <3>4 DEF IInv, TypeInv
    <3> QED
      BY <3>1, <3>2, <3>3, <3>5 DEF Placed
  <2>2. ASSUME NEW k, k = n + 1 PROVE Placed(recs[k])'
    BY <1>1, <1>4, <1>5, <2>2 DEF Placed
  <2>3. ASSUME NEW j \in Ids', NEW k \in Ids', j < k PROVE End(recs'[j]) <= Start(recs'[k])
    <3>1. CASE k \in Ids
      <4>1. j \in Ids
        BY <1>6, <2>3, <3>1
      <4> QED
        BY <1>1, <1>5, <2>3, <3>1, <4>1 DEF IInv, SectionsInv
    <3>2. CASE k = n + 1
      <4>1. j \in Ids
        BY <1>1, <1>6, <2>3, <3>2
      <4>2. recs'[j] = recs[j] /\ recs[j] \in Records /\ End(recs'[j]) <= blob
        BY <1>5, <2>1, <4>1 DEF IInv, TypeInv, Ids
      <4>3. End(recs'[j]) \in Int
        BY <4>2 DEF End, DataBytes, Records
      <4>4. Start(r) \in Int
        BY <1>4 DEF Start, Records
      <4> QED
        BY <1>4, <1>5, <3>2, <4>2, <4>3, <4>4 DEF IInv, TypeInv
    <3> QED
      BY <1>1, <1>6, <3>1, <3>2
  <2>4. ASSUME NEW k \in Ids' PROVE Placed(recs[k])'
    <3>1. k \in Ids \/ k = n + 1
      BY <1>1, <1>6
    <3> QED
      BY <2>1, <2>2, <3>1
  <2> QED
    BY <2>3, <2>4 DEF SectionsInv
<1>9. NamesInv'
  <2>1. \A k \in Ids' : recs'[k].name = Tensors[k].name
    BY <1>1, <1>4, <1>5, <1>6 DEF IInv, NamesInv, ListInv
  <2>3. \A k \in Ids' : k \in 1 .. Len(Tensors)
    BY <1>1, <1>2, <1>6, TensorAssumption
  <2>4. \A j, k \in Ids' : recs'[j].name = recs'[k].name => j = k
    BY <2>1, <2>3, TensorAssumption
  <2>5. Len(recs') <= Len(Tensors)
    BY <1>2, <1>5
  <2>6. \A k \in Ids' : Known(recs'[k].name)
    BY <2>1, <2>3 DEF Known
  <2> QED
    BY <1>1, <2>1, <2>4, <2>5, <2>6 DEF NamesInv, ListInv
<1>10. SizeInv' /\ LoadInv'
  BY <1>1 DEF SizeInv, LoadInv
<1> QED
  BY <1>7, <1>8, <1>9, <1>10 DEF IInv

(* Two lists side by side.                                                 *)
LEMMA Joined ==
  ASSUME NEW R, NEW n \in Nat, NEW k \in 1 .. n, NEW a \in Seq(R), NEW b \in Seq(R),
         Len(a) = k - 1, Len(b) = n - k
  PROVE  /\ a \o b \in Seq(R) /\ Len(a \o b) = n - 1
         /\ \A j \in 1 .. n - 1 : (a \o b)[j] = IF j < k THEN a[j] ELSE b[j + 1 - k]
<1>1. /\ a \o b \in Seq(R) /\ Len(a \o b) = Len(a) + Len(b)
      /\ \A j \in 1 .. Len(a) + Len(b) :
           (a \o b)[j] = IF j <= Len(a) THEN a[j] ELSE b[j - Len(a)]
  BY ConcatProperties, Zenon
<1>2. Len(a) + Len(b) = n - 1
  OBVIOUS
<1>3. \A j \in 1 .. n - 1 : (j < k <=> j <= Len(a)) /\ j + 1 - k = j - Len(a)
  OBVIOUS
<1> QED
  BY <1>1, <1>2, <1>3

(* The list without record k.                                              *)
LEMMA WithoutFacts ==
  ASSUME NEW R, NEW s \in Seq(R), NEW k \in 1 .. Len(s)
  PROVE  LET u == SubSeq(s, 1, k - 1) \o SubSeq(s, k + 1, Len(s))
         IN  /\ u \in Seq(R) /\ Len(u) = Len(s) - 1
             /\ \A j \in 1 .. Len(s) - 1 : u[j] = IF j < k THEN s[j] ELSE s[j + 1]
<1> DEFINE n == Len(s)
           a == SubSeq(s, 1, k - 1)
           b == SubSeq(s, k + 1, n)
<1>1. n \in Nat /\ k \in 1 .. n
  BY LenProperties
<1>2. \A j \in 1 .. n : s[j] \in R
  BY ElementOfSeq
<1> HIDE DEF n
<1>3. /\ a \in Seq(R) /\ Len(a) = k - 1
      /\ \A j \in 1 .. n - 1 : j < k => a[j] = s[j]
  <2>1. \A j \in 1 .. k - 1 : s[j] \in R
    BY <1>1, <1>2
  <2> QED
    BY <1>1, <2>1, SubSeqProperties
<1>4. /\ b \in Seq(R) /\ Len(b) = n - k
      /\ \A j \in 1 .. n - 1 : ~(j < k) => b[j + 1 - k] = s[j + 1]
  <2>1. \A j \in k + 1 .. n : s[j] \in R
    BY <1>1, <1>2
  <2>2. \A j \in 1 .. n - k : b[j] = s[k + 1 + j - 1]
    BY <1>1, <2>1, SubSeqProperties
  <2>3. ASSUME NEW j \in 1 .. n - 1, ~(j < k) PROVE b[j + 1 - k] = s[j + 1]
    <3>1. j + 1 - k \in 1 .. n - k /\ k + 1 + (j + 1 - k) - 1 = j + 1
      BY <1>1, <2>3
    <3> HIDE DEF b
    <3> QED
      BY <2>2, <3>1
  <2>4. b \in Seq(R) /\ Len(b) = n - k
    BY <1>1, <2>1, SubSeqProperties
  <2> QED
    BY <2>3, <2>4
<1> HIDE DEF a, b
<1>5. /\ a \o b \in Seq(R) /\ Len(a \o b) = n - 1
      /\ \A j \in 1 .. n - 1 : (a \o b)[j] = IF j < k THEN a[j] ELSE b[j + 1 - k]
  BY <1>1, <1>3, <1>4, Joined
<1>6. \A j \in 1 .. n - 1 : (a \o b)[j] = IF j < k THEN s[j] ELSE s[j + 1]
  BY <1>3, <1>4, <1>5
<1> QED
  BY <1>5, <1>6 DEF a, b, n

(* The packed image is put away as it is.                                  *)
LEMMA FlashInv ==
  ASSUME IInv, Flash
  PROVE  IInv'
<1>1. /\ phase' = "flashed" /\ UNCHANGED <<group, recs, blob, altered, total, i, scales, dgroup>>
  BY DEF Flash, args, image, load
<1>2. TypeInv' /\ SectionsInv'
  BY <1>1 DEF IInv, TypeInv, SectionsInv, Placed, Ids
<1>3. SizeInv' /\ LoadInv'
  BY <1>1 DEF SizeInv, LoadInv
<1>4. NamesInv'
  BY <1>1 DEF IInv, NamesInv, ListInv, Ids
<1> QED
  BY <1>2, <1>3, <1>4 DEF IInv

(* Records that keep a packed record's name and columns.                   *)
LEMMA SameNames ==
  ASSUME IInv, recs' \in Seq(Records), Len(recs') = Len(recs),
         \A k \in Ids : recs'[k].name = recs[k].name /\ recs'[k].cols = recs[k].cols,
         \A j, k \in Ids : recs[j].name = recs[k].name => j = k
  PROVE  ListInv'
<1>1. Ids' = Ids
  BY DEF Ids
<1> QED
  BY <1>1 DEF IInv, NamesInv, ListInv

(* Whatever another tool changes, a name is repeated only in a list with   *)
(* more records than slots.                                                *)
LEMMA AlterInv ==
  ASSUME IInv, Alter
  PROVE  IInv'
<1>1. /\ phase = "pack" /\ phase' = "flashed" /\ altered' /\ altered' = TRUE
      /\ Len(recs) = Len(Tensors)
      /\ UNCHANGED <<group, total, i, scales, dgroup>>
  BY DEF Alter, args, load
<1>2. /\ recs \in Seq(Records) /\ Len(recs) \in Nat /\ Len(recs) # 0
      /\ \A k \in Ids : recs[k] \in Records
      /\ \A j, k \in Ids : recs[j].name = recs[k].name => j = k
      /\ \A k \in Ids : Known(recs[k].name)
  <2>1. recs \in Seq(Records) /\ Len(recs) \in Nat /\ \A k \in Ids : recs[k] \in Records
    BY ElementOfSeq, LenProperties DEF IInv, TypeInv, Ids
  <2>2. Len(Tensors) # 0
    BY TensorAssumption, EmptySeq
  <2>3. \A j, k \in Ids : recs[j].name = recs[k].name => j = k
    BY <1>1, TensorAssumption DEF IInv, NamesInv, Ids
  <2> QED
    BY <1>1, <2>1, <2>2, <2>3 DEF IInv, NamesInv, ListInv
<1>3. ASSUME UNCHANGED recs PROVE recs' \in Seq(Records) /\ ListInv'
  BY <1>2, <1>3 DEF ListInv, Ids
<1>4. ASSUME NEW k \in Ids, recs' = SubSeq(recs, 1, k - 1) \o SubSeq(recs, k + 1, Len(recs))
      PROVE  recs' \in Seq(Records) /\ ListInv'
  <2>1. /\ recs' \in Seq(Records) /\ Len(recs') = Len(recs) - 1
        /\ \A j \in 1 .. Len(recs) - 1 : recs'[j] = IF j < k THEN recs[j] ELSE recs[j + 1]
    BY <1>2, <1>4, WithoutFacts DEF Ids
  <2> DEFINE m(j) == IF j < k THEN j ELSE j + 1
  <2>2. ASSUME NEW j \in Ids' PROVE m(j) \in Ids /\ recs'[j] = recs[m(j)]
    BY <1>2, <2>1 DEF Ids
  <2>3. ASSUME NEW j \in Ids', NEW l \in Ids', m(j) = m(l) PROVE j = l
    BY <1>2, <2>1, <2>3 DEF Ids
  <2> HIDE DEF m
  <2> QED
    BY <1>2, <2>1, <2>2, <2>3 DEF ListInv
<1>5. ASSUME NEW k \in Ids, recs' = [recs EXCEPT ![k].rows = @ + 1] PROVE recs' \in Seq(Records) /\ ListInv'
  <2> DEFINE r == [recs[k] EXCEPT !.rows = @ + 1]
  <2>1. r \in Records /\ r.name = recs[k].name /\ r.cols = recs[k].cols
    <3>1. recs[k] \in Records /\ recs[k].rows + 1 \in Nat \ {0}
      BY <1>2 DEF Records
    <3> QED
      BY <3>1 DEF Records
  <2>2. recs' = [recs EXCEPT ![k] = r]
    BY <1>5
  <2> HIDE DEF r
  <2>3. /\ recs' \in Seq(Records) /\ Len(recs') = Len(recs)
        /\ \A j \in Ids : recs'[j] = IF j = k THEN r ELSE recs[j]
    BY <1>2, <2>1, <2>2, ExceptSeq DEF Ids
  <2> QED
    BY <1>2, <2>1, <2>3, SameNames
<1>6. ASSUME NEW k \in Ids, recs' = [recs EXCEPT ![k].dtype = "f32"] PROVE recs' \in Seq(Records) /\ ListInv'
  <2> DEFINE r == [recs[k] EXCEPT !.dtype = "f32"]
  <2>1. r \in Records /\ r.name = recs[k].name /\ r.cols = recs[k].cols
    BY <1>2 DEF Records
  <2>2. recs' = [recs EXCEPT ![k] = r]
    BY <1>6
  <2> HIDE DEF r
  <2>3. /\ recs' \in Seq(Records) /\ Len(recs') = Len(recs)
        /\ \A j \in Ids : recs'[j] = IF j = k THEN r ELSE recs[j]
    BY <1>2, <2>1, <2>2, ExceptSeq DEF Ids
  <2> QED
    BY <1>2, <2>1, <2>3, SameNames
<1>7. ASSUME NEW k \in Ids, recs' = [recs EXCEPT ![k].scale = NoScale] PROVE recs' \in Seq(Records) /\ ListInv'
  <2> DEFINE r == [recs[k] EXCEPT !.scale = NoScale]
  <2>1. r \in Records /\ r.name = recs[k].name /\ r.cols = recs[k].cols
    BY <1>2 DEF Records
  <2>2. recs' = [recs EXCEPT ![k] = r]
    BY <1>7
  <2> HIDE DEF r
  <2>3. /\ recs' \in Seq(Records) /\ Len(recs') = Len(recs)
        /\ \A j \in Ids : recs'[j] = IF j = k THEN r ELSE recs[j]
    BY <1>2, <2>1, <2>2, ExceptSeq DEF Ids
  <2> QED
    BY <1>2, <2>1, <2>3, SameNames
<1>8. ASSUME NEW k \in Ids, NEW g \in Nat, recs' = [recs EXCEPT ![k].group = g] PROVE recs' \in Seq(Records) /\ ListInv'
  <2> DEFINE r == [recs[k] EXCEPT !.group = g]
  <2>1. r \in Records /\ r.name = recs[k].name /\ r.cols = recs[k].cols
    BY <1>2 DEF Records
  <2>2. recs' = [recs EXCEPT ![k] = r]
    BY <1>8
  <2> HIDE DEF r
  <2>3. /\ recs' \in Seq(Records) /\ Len(recs') = Len(recs)
        /\ \A j \in Ids : recs'[j] = IF j = k THEN r ELSE recs[j]
    BY <1>2, <2>1, <2>2, ExceptSeq DEF Ids
  <2> QED
    BY <1>2, <2>1, <2>3, SameNames
<1>9. ASSUME NEW g \in Nat, recs' = [k \in 1 .. Len(recs) |-> [recs[k] EXCEPT !.group = g]]
      PROVE  recs' \in Seq(Records) /\ ListInv'
  <2>1. \A k \in Ids : /\ recs'[k] \in Records
                       /\ recs'[k].name = recs[k].name /\ recs'[k].cols = recs[k].cols
    BY <1>2, <1>9 DEF Records, Ids
  <2>2. recs' \in Seq(Records) /\ Len(recs') = Len(recs)
    BY <1>2, <1>9, <2>1 DEF Ids
  <2> QED
    BY <1>2, <2>1, <2>2, SameNames
<1>10. ASSUME recs' = recs \o [k \in 1 .. MaxRecs |-> recs[1]] PROVE recs' \in Seq(Records) /\ ListInv'
  <2> DEFINE u == [k \in 1 .. MaxRecs |-> recs[1]]
  <2>1. 1 \in Ids /\ recs[1] \in Records /\ MaxRecs \in Nat
    BY <1>2, ImageAssumption DEF Ids
  <2>2. u \in Seq(Records) /\ Len(u) = MaxRecs /\ \A k \in 1 .. MaxRecs : u[k] = recs[1]
    BY <2>1
  <2> HIDE DEF u
  <2>3. /\ recs' \in Seq(Records) /\ Len(recs') = Len(recs) + MaxRecs
        /\ \A k \in 1 .. Len(recs) + MaxRecs :
             recs'[k] = IF k <= Len(recs) THEN recs[k] ELSE u[k - Len(recs)]
    <3>1. recs' = recs \o u
      BY <1>10 DEF u
    <3>2. /\ recs \o u \in Seq(Records) /\ Len(recs \o u) = Len(recs) + Len(u)
          /\ \A k \in 1 .. Len(recs) + Len(u) :
               (recs \o u)[k] = IF k <= Len(recs) THEN recs[k] ELSE u[k - Len(recs)]
      BY <1>2, <2>2, ConcatProperties, Zenon
    <3> QED
      BY <2>2, <3>1, <3>2
  <2>4. ~(Len(recs') <= MaxRecs)
    BY <1>2, <2>1, <2>3
  <2>5. ASSUME NEW k \in Ids' PROVE \E j \in Ids : recs'[k] = recs[j]
    <3>1. k \in 1 .. Len(recs) + MaxRecs
      BY <2>3 DEF Ids
    <3>2. CASE k <= Len(recs)
      BY <1>2, <2>3, <3>1, <3>2 DEF Ids
    <3>3. CASE ~(k <= Len(recs))
      <4>1. k - Len(recs) \in 1 .. MaxRecs
        BY <1>2, <2>1, <3>1, <3>3
      <4> QED
        BY <2>1, <2>2, <2>3, <3>1, <3>3, <4>1
    <3> QED
      BY <3>2, <3>3
  <2> QED
    BY <1>2, <2>3, <2>4, <2>5 DEF ListInv
<1>11. recs' \in Seq(Records) /\ ListInv' /\ blob' \in Nat
  <2>1. {0, 1, Chunk, DModel} \subseteq Nat /\ {1, 2 * DModel} \subseteq Nat
        /\ {blob, blob + Word, blob + PartSize} \subseteq Nat
    BY ImageAssumption DEF IInv, TypeInv
  <2>2. blob' \in Nat
    <3>1. ASSUME NEW k \in 1 .. Len(recs) PROVE Wide - k * RecSize \in Nat
      <4>1. /\ Len(Tensors) * RecSize < Wide /\ Wide \in Nat /\ RecSize \in Nat
            /\ k \in Nat /\ Len(Tensors) \in Nat /\ k <= Len(Tensors)
        BY <1>1, <1>2, <3>1, ImageAssumption
      <4>2. ASSUME NEW a \in Nat, NEW b \in Nat, NEW c \in Nat, a <= b PROVE a * c <= b * c
        BY <4>2
      <4>3. k * RecSize \in Nat /\ Len(Tensors) * RecSize \in Nat
        BY <4>1
      <4>4. k * RecSize <= Len(Tensors) * RecSize
        BY <4>1, <4>2
      <4> QED
        BY <4>1, <4>3, <4>4
    <3>2. \/ blob' \in {blob, blob + Word, blob + PartSize}
          \/ \E k \in 1 .. Len(recs) : blob' = Wide - k * RecSize
      BY DEF Alter
    <3> QED
      BY <2>1, <3>1, <3>2
  <2>3. CASE UNCHANGED recs
    BY <1>3, <2>1, <2>2, <2>3
  <2>4. CASE \E k \in 1 .. Len(recs) :
             \/ recs' = SubSeq(recs, 1, k - 1) \o SubSeq(recs, k + 1, Len(recs))
             \/ recs[k].cols = 0 /\ recs' = [recs EXCEPT ![k].rows = @ + 1]
             \/ recs' = [recs EXCEPT ![k].dtype = "f32"]
             \/ recs[k].cols # 0 /\ recs' = [recs EXCEPT ![k].scale = NoScale]
             \/ \E g \in {0, 1, Chunk, DModel} : recs' = [recs EXCEPT ![k].group = g]
    BY <1>4, <1>5, <1>6, <1>7, <1>8, <2>1, <2>2, <2>4 DEF Ids
  <2>5. CASE \E g \in {1, 2 * DModel} :
             recs' = [k \in 1 .. Len(recs) |-> [recs[k] EXCEPT !.group = g]]
    BY <1>9, <2>1, <2>2, <2>5
  <2>6. CASE recs' = recs \o [k \in 1 .. MaxRecs |-> recs[1]]
    BY <1>10, <2>1, <2>2, <2>6
  <2> QED
    BY <2>3, <2>4, <2>5, <2>6 DEF Alter
<1>12. TypeInv' /\ NamesInv'
  BY <1>1, <1>11 DEF IInv, TypeInv, NamesInv
<1>13. SectionsInv' /\ SizeInv' /\ LoadInv'
  BY <1>1 DEF SectionsInv, SizeInv, LoadInv
<1> QED
  BY <1>12, <1>13 DEF IInv

-----------------------------------------------------------------------------

(* The board changes nothing of the image.                                 *)
LEMMA ImageStays ==
  ASSUME IInv, UNCHANGED <<args, image>>
  PROVE  /\ Ids' = Ids /\ Size' = Size /\ Size \in Nat
         /\ recs' \in Seq(Records) /\ group' \in Groups /\ blob' \in Nat /\ altered' \in BOOLEAN
         /\ SectionsInv' /\ ListInv'
<1>1. UNCHANGED <<group, recs, blob, altered>>
  BY DEF args, image
<1>2. Ids' = Ids /\ Size' = Size
  BY <1>1 DEF Ids, Size
<1>3. Size \in Nat
  <2>1. Len(recs) \in Nat /\ HdrSize \in Nat /\ RecSize \in Nat /\ blob \in Nat
    BY ImageAssumption, LenProperties DEF IInv, TypeInv
  <2>2. Len(recs) * RecSize \in Nat
    BY <2>1
  <2> QED
    BY <2>1, <2>2 DEF Size
<1>4. SectionsInv' /\ ListInv'
  BY <1>1, <1>2 DEF IInv, SectionsInv, Placed, NamesInv, ListInv
<1> QED
  BY <1>1, <1>2, <1>3, <1>4 DEF IInv, TypeInv

(* app_main: whatever wrapped around, what is copied fits the partition.   *)
LEMMA ReadHeaderInv ==
  ASSUME IInv, ReadHeader
  PROVE  IInv'
<1>1. /\ UNCHANGED <<args, image>> /\ UNCHANGED <<i, dgroup>>
      /\ total' = Size % Word
      /\ phase' = "refused" \/ (phase' = "load" /\ Size % Word <= PartSize)
  BY DEF ReadHeader, Refuse, load
<1>2. Size % Word \in Nat
  BY <1>1, ImageStays, ImageAssumption
<1>3. TypeInv'
  BY <1>1, <1>2, ImageStays DEF IInv, TypeInv
<1>4. SizeInv'
  BY <1>1, ImageStays DEF SizeInv
<1>5. NamesInv' /\ LoadInv'
  BY <1>1, ImageStays DEF NamesInv, LoadInv
<1> QED
  BY <1>1, <1>3, <1>4, <1>5, ImageStays DEF IInv

(* ne_load: a size that wrapped around in app_main is less than what it    *)
(* claims, as long as it does not wrap around here too.                    *)
LEMMA LoadHeaderInv ==
  ASSUME IInv, LoadHeader
  PROVE  IInv'
<1>1. /\ UNCHANGED <<args, image>> /\ total' = total
      /\ i' = 1 /\ scales' = {} /\ dgroup' = 0
      /\ \/ phase' = "refused"
         \/ phase' = "records" /\ total >= Size % Wide /\ Len(recs) <= MaxRecs
  BY DEF LoadHeader, Refuse
<1>2. phase' = "records" /\ Size < Wide => total = Size /\ Size <= PartSize
  <2>1. total = Size % Word /\ total <= PartSize
    BY DEF IInv, SizeInv, LoadHeader
  <2>2. Size \in Nat /\ Word \in Nat \ {0} /\ Wide \in Nat
    BY <1>1, ImageStays, ImageAssumption
  <2>3. Size % Word <= Size /\ Size % Word \in Nat
    BY <2>2
  <2>4. Size < Wide => Size % Wide = Size
    BY <2>2
  <2> QED
    BY <1>1, <2>1, <2>2, <2>3, <2>4
<1>3. TypeInv'
  BY <1>1, ImageStays DEF IInv, TypeInv
<1>4. SizeInv'
  BY <1>1, <1>2, ImageStays DEF SizeInv, image
<1>5. NamesInv'
  BY <1>1, ImageStays DEF NamesInv
<1>6. LoadInv'
  <2>1. Len(recs)' \in Nat
    BY <1>3, LenProperties DEF TypeInv
  <2> QED
    BY <1>1, <2>1 DEF LoadInv
<1> QED
  BY <1>1, <1>3, <1>4, <1>5, <1>6, ImageStays DEF IInv

(* Records of a claim under 2^64 are all in the copy.                      *)
LEMMA ReadAstrayInv ==
  ASSUME IInv, ReadAstray
  PROVE  IInv'
<1>1. /\ UNCHANGED <<args, image>> /\ UNCHANGED <<total, i, scales, dgroup>>
      /\ phase = "records" /\ phase' = "astray" /\ i \in Ids /\ ~Copied(i)
  BY LenProperties DEF ReadAstray, load, IInv, LoadInv, TypeInv, Ids
<1>2. Size >= Wide
  <2>1. /\ HdrSize \in Nat /\ RecSize \in Nat /\ Wide \in Nat /\ blob \in Nat
        /\ total \in Nat /\ Len(recs) \in Nat /\ i \in Nat /\ i <= Len(recs) /\ Size \in Nat
    BY <1>1, ImageAssumption, ImageStays, LenProperties DEF IInv, TypeInv, Ids
  <2>2. ASSUME NEW a \in Nat, NEW b \in Nat, NEW c \in Nat, a <= b PROVE a * c <= b * c
    BY <2>2
  <2>3. i * RecSize \in Nat /\ Len(recs) * RecSize \in Nat /\ i * RecSize <= Len(recs) * RecSize
    BY <2>1, <2>2
  <2>4. total < Size
    BY <1>1, <2>1, <2>3 DEF Copied, Size
  <2> QED
    BY <1>1, <2>1, <2>4 DEF IInv, SizeInv
<1>3. TypeInv' /\ NamesInv' /\ LoadInv'
  BY <1>1, ImageStays DEF IInv, TypeInv, NamesInv, LoadInv
<1>4. SizeInv'
  BY <1>1, <1>2, ImageStays DEF SizeInv
<1> QED
  BY <1>1, <1>3, <1>4, ImageStays DEF IInv

(* One more record accepted; those before it stay as they were found.      *)
LEMMA LoadRecordInv ==
  ASSUME IInv, LoadRecord
  PROVE  IInv'
<1> DEFINE r == recs[i]
           plain == r.cols = 0 \/ r.scale = NoScale
<1>1. /\ UNCHANGED <<args, image>> /\ total' = total
      /\ phase = "records" /\ i \in Ids /\ r \in Records
      /\ i \in Nat /\ dgroup \in Nat
  <2>1. i \in Ids /\ i \in Nat
    BY LenProperties DEF LoadRecord, IInv, LoadInv, TypeInv, Ids
  <2> QED
    BY <2>1, ElementOfSeq DEF LoadRecord, IInv, TypeInv, Ids
<1>2. \/ phase' = "refused" /\ UNCHANGED <<i, dgroup>>
      \/ plain /\ i' = i + 1 /\ UNCHANGED <<phase, scales, dgroup>>
      \/ /\ ~plain /\ HasKernel(r) /\ (r.cols = DModel => dgroup \in {0, r.group})
         /\ i' = i + 1 /\ scales' = scales \cup {i} /\ UNCHANGED phase
         /\ dgroup' = IF r.cols = DModel THEN r.group ELSE dgroup
  BY DEF LoadRecord, Refuse, load
<1>3. Scaled(i) <=> ~plain
  BY DEF Scaled
<1>4. \A k : Scaled(k)' <=> Scaled(k)
  BY <1>1 DEF Scaled, image
<1>5. CASE phase' = "refused" /\ UNCHANGED <<i, dgroup>>
  <2>1. TypeInv'
    BY <1>1, <1>5, ImageStays DEF IInv, TypeInv
  <2>2. SizeInv' /\ LoadInv' /\ NamesInv'
    BY <1>1, <1>5, ImageStays DEF SizeInv, LoadInv, NamesInv
  <2> QED
    BY <1>1, <2>1, <2>2, ImageStays DEF IInv
<1>6. CASE phase' = phase /\ i' = i + 1
  <2>1. dgroup' \in Nat
    BY <1>1, <1>2, <1>6 DEF Records
  <2>2. TypeInv'
    BY <1>1, <1>6, <2>1, ImageStays DEF IInv, TypeInv
  <2>3. SizeInv'
    BY <1>1, <1>6, ImageStays DEF IInv, SizeInv, image
  <2>4. NamesInv'
    BY <1>1, <1>6, ImageStays DEF NamesInv
  <2>5. i' \in 1 .. Len(recs') + 1 /\ recs' = recs /\ i' - 1 = i
    BY <1>1, <1>6, LenProperties DEF IInv, TypeInv, Ids, image
  <2>6. scales' \subseteq 1 .. i /\ scales \subseteq 1 .. i - 1
    BY <1>1, <1>2, <1>6 DEF IInv, LoadInv
  <2>7. ASSUME NEW k \in 1 .. i PROVE Accepted(k)'
    <3>1. CASE k = i
      <4>1. i \notin scales
        BY <1>1, <2>6
      <4>2. i \in scales' <=> Scaled(i)
        BY <1>2, <1>3, <1>6, <4>1
      <4>3. Scaled(i) => /\ r.group \in {Chunk, r.cols}
                         /\ r.cols = DModel => r.group = dgroup' /\ dgroup' # 0
        BY <1>2, <1>3, <1>6 DEF HasKernel
      <4> QED
        BY <1>4, <2>5, <3>1, <4>2, <4>3 DEF Accepted
    <3>2. CASE k # i
      <4>1. k \in 1 .. i - 1 /\ Accepted(k)
        BY <1>1, <3>2 DEF IInv, LoadInv
      <4>2. k \in scales' <=> k \in scales
        BY <1>2, <1>6, <3>2
      <4>3. Scaled(k) /\ recs[k].cols = DModel => dgroup' = dgroup
        BY <1>2, <1>6, <4>1 DEF Accepted
      <4> QED
        BY <1>4, <2>5, <4>1, <4>2, <4>3 DEF Accepted
    <3> QED
      BY <3>1, <3>2
  <2>8. LoadInv'
    BY <1>1, <1>6, <2>5, <2>6, <2>7 DEF LoadInv
  <2> QED
    BY <1>1, <2>2, <2>3, <2>4, <2>8, ImageStays DEF IInv
<1> QED
  BY <1>2, <1>5, <1>6

(* Every lookup found the one record of its name, with room for a vector.  *)
LEMMA LookUpInv ==
  ASSUME IInv, LookUp
  PROVE  IInv'
<1> DEFINE First(name) == recs[CHOOSE k \in Named(name) : \A j \in Named(name) : k <= j]
<1>1. /\ UNCHANGED <<args, image>> /\ UNCHANGED <<total, i, dgroup>>
      /\ phase = "records" /\ i = Len(recs) + 1
      /\ \/ phase' = "refused"
         \/ /\ phase' = "context" /\ UNCHANGED scales
            /\ \A name \in Needed : Named(name) # {} /\ ~TooLong(First(name))
  BY DEF LookUp, Refuse
<1>2. TypeInv'
  BY <1>1, ImageStays DEF IInv, TypeInv
<1>3. SizeInv' /\ NamesInv'
  BY <1>1, ImageStays DEF IInv, SizeInv, NamesInv, image
<1>4. CASE phase' = "refused"
  <2>1. LoadInv'
    BY <1>4 DEF LoadInv
  <2> QED
    BY <1>1, <1>2, <1>3, <2>1, ImageStays DEF IInv
<1>5. CASE phase' = "context"
  <2>1. recs' = recs /\ Ids' = Ids /\ i - 1 = Len(recs)
    BY <1>1, ImageStays, LenProperties DEF IInv, TypeInv, image
  <2>2. ASSUME NEW k \in Ids, recs[k].name \in Needed PROVE ~TooLong(recs[k])
    <3>1. \A j \in Ids : recs[j].name = recs[k].name => j = k
      BY <1>1 DEF IInv, SizeInv, NamesInv, ListInv
    <3>2. Named(recs[k].name) = {k} /\ k <= k
      BY <3>1 DEF Named, Ids
    <3>3. First(recs[k].name) = recs[k]
      BY <3>2
    <3>4. ~TooLong(First(recs[k].name))
      BY <1>1, <1>5, <2>2
    <3> QED
      BY <3>3, <3>4
  <2>3. \A k \in Ids : Accepted(k)
    BY <1>1, <2>1 DEF IInv, LoadInv, Ids
  <2>4. \A k \in Ids : Accepted(k)'
    BY <1>1, <1>5, <2>1, <2>3 DEF Accepted, Scaled
  <2>5. scales' \subseteq Ids
    BY <1>1, <1>5, <2>1 DEF IInv, LoadInv, Ids
  <2>6. \A name \in Needed : Named(name)' # {}
    BY <1>1, <1>5, <2>1 DEF Named
  <2>7. \A k \in Ids : recs[k].name \in Needed => ~TooLong(recs[k])'
    BY <2>1, <2>2 DEF TooLong
  <2>8. LoadInv'
    BY <1>5, <2>1, <2>4, <2>5, <2>6, <2>7 DEF LoadInv
  <2> QED
    BY <1>1, <1>2, <1>3, <2>8, ImageStays DEF IInv
<1> QED
  BY <1>1, <1>4, <1>5

(* ne_alloc only decides whether the board comes up.                       *)
LEMMA ContextInv ==
  ASSUME IInv, Context
  PROVE  IInv'
<1>1. /\ UNCHANGED <<args, image>> /\ UNCHANGED <<total, i, scales, dgroup, recs>>
      /\ phase = "context" /\ phase' \in {"up", "refused"}
  BY DEF Context, Refuse, load, image
<1>2. TypeInv' /\ SizeInv' /\ NamesInv'
  BY <1>1, ImageStays DEF IInv, TypeInv, SizeInv, NamesInv
<1>3. LoadInv'
  BY <1>1, ImageStays DEF IInv, LoadInv, Accepted, Scaled, Named, TooLong, Ids
<1> QED
  BY <1>1, <1>2, <1>3, ImageStays DEF IInv

(* The packer starts with an empty blob.                                   *)
LEMMA InitInv ==
  ASSUME Init
  PROVE  IInv
<1>1. recs = <<>> /\ Len(recs) = 0 /\ Ids = {} /\ recs \in Seq(Records)
  BY DEF Init, Ids
<1>2. TypeInv
  BY <1>1, ImageAssumption DEF Init, TypeInv, Groups
<1>3. SectionsInv /\ ListInv
  BY <1>1 DEF SectionsInv, ListInv
<1>4. Len(Tensors) \in Nat
  BY LenProperties, TensorAssumption
<1>5. SizeInv /\ NamesInv /\ LoadInv
  BY <1>1, <1>3, <1>4 DEF Init, SizeInv, NamesInv, LoadInv
<1> QED
  BY <1>2, <1>3, <1>5 DEF IInv

(* Packer, flash and board keep the invariant.                             *)
LEMMA NextInv ==
  ASSUME IInv, [Next]_vars
  PROVE  IInv'
<1>1. CASE UNCHANGED vars
  <2>1. /\ UNCHANGED <<phase, why, total, i, scales, dgroup>> /\ UNCHANGED <<args, image>>
        /\ recs' = recs
    BY <1>1 DEF vars, load, image
  <2>2. TypeInv' /\ SizeInv' /\ LoadInv'
    BY <2>1, ImageStays DEF IInv, TypeInv, SizeInv, LoadInv, Accepted, Scaled, Named, TooLong, Ids
  <2>3. NamesInv'
    BY <2>1, ImageStays DEF IInv, NamesInv, image
  <2> QED
    BY <2>1, <2>2, <2>3, ImageStays DEF IInv
<1>2. CASE Ended
  BY <1>1, <1>2 DEF Ended
<1> QED
  BY <1>1, <1>2, PackInv, FlashInv, AlterInv, ReadHeaderInv, LoadHeaderInv, ReadAstrayInv, LoadRecordInv,
     LookUpInv, ContextInv DEF Next

-----------------------------------------------------------------------------

(* Every reachable state: the inductive invariant.                         *)
THEOREM Invariance == Spec => []IInv
BY InitInv, NextInv, PTL DEF Spec

(* A section of record k lies in the blob, on a unit, between the start    *)
(* and the end of k.                                                       *)
LEMMA SectionFacts ==
  ASSUME IInv, ~altered, NEW k \in Ids, NEW s,
         \/ recs[k].scale # NoScale /\ s = <<recs[k].scale, ScaleBytes(recs[k])>>
         \/ s = <<recs[k].data, DataBytes(recs[k])>>
  PROVE  /\ s[1] \in Nat /\ s[2] \in Int /\ s[1] % Unit = 0
         /\ Start(recs[k]) \in Nat /\ End(recs[k]) \in Int
         /\ Start(recs[k]) <= s[1] /\ s[1] + s[2] <= End(recs[k]) /\ End(recs[k]) <= blob
<1>1. recs[k] \in Records /\ Placed(recs[k]) /\ blob \in Nat
  BY ElementOfSeq DEF IInv, TypeInv, SectionsInv, Ids
<1>2. recs[k].group \in Nat \ {0} /\ recs[k].cols \in Nat /\ recs[k].rows \in Nat
  BY <1>1 DEF Records, Placed
<1>3. ScaleBytes(recs[k]) \in Nat /\ DataBytes(recs[k]) \in Nat
  <2>1. recs[k].cols \div recs[k].group \in Nat /\ recs[k].cols \div 2 \in Nat
    BY <1>2
  <2>2. ASSUME NEW a \in Nat, NEW b \in Nat PROVE a * b \in Nat /\ a * b * 2 \in Nat /\ a * 2 \in Nat
    OBVIOUS
  <2> QED
    BY <1>2, <2>1, <2>2 DEF ScaleBytes, DataBytes
<1>4. /\ recs[k].data \in Nat /\ recs[k].scale \in Nat \cup {NoScale}
      /\ Start(recs[k]) \in Nat /\ End(recs[k]) \in Nat
  BY <1>1, <1>3 DEF Records, Start, End
<1>5. CASE recs[k].scale # NoScale /\ s = <<recs[k].scale, ScaleBytes(recs[k])>>
  BY <1>1, <1>3, <1>4, <1>5 DEF Placed, Start, End
<1>6. CASE s = <<recs[k].data, DataBytes(recs[k])>>
  BY <1>1, <1>3, <1>4, <1>6 DEF Placed, Start, End
<1> QED
  BY <1>5, <1>6

(* pack_npk.py, add: sections on units, apart from each other, inside the  *)
(* blob; every weight row a kernel loads is aligned.                       *)
THEOREM LaidOut == Spec => []Laid
<1> DEFINE Of(s, k) == \/ recs[k].scale # NoScale /\ s = <<recs[k].scale, ScaleBytes(recs[k])>>
                       \/ s = <<recs[k].data, DataBytes(recs[k])>>
<1>1. ASSUME IInv, ~altered PROVE Laid
  <2>1. ASSUME NEW s \in Sections PROVE \E k \in Ids : Of(s, k)
    BY <2>1 DEF Sections, Ids
  <2>2. ASSUME NEW s \in Sections PROVE s[1] % Unit = 0 /\ s[1] + s[2] <= blob
    <3>1. PICK k \in Ids : Of(s, k)
      BY <2>1, <2>2
    <3>2. /\ s[1] \in Nat /\ s[2] \in Int /\ s[1] % Unit = 0
          /\ End(recs[k]) \in Int
          /\ s[1] + s[2] <= End(recs[k]) /\ End(recs[k]) <= blob
      BY <1>1, <3>1, SectionFacts
    <3> QED
      BY <1>1, <3>2 DEF IInv, TypeInv
  <2>3. ASSUME NEW s \in Sections, NEW t \in Sections
        PROVE  s = t \/ s[1] + s[2] <= t[1] \/ t[1] + t[2] <= s[1]
    <3>1. PICK j \in Ids : Of(s, j)
      BY <2>1
    <3>2. PICK k \in Ids : Of(t, k)
      BY <2>1
    <3>3. /\ s[1] \in Nat /\ s[2] \in Int /\ t[1] \in Nat /\ t[2] \in Int
          /\ Start(recs[j]) \in Nat /\ End(recs[j]) \in Int
          /\ Start(recs[k]) \in Nat /\ End(recs[k]) \in Int
          /\ Start(recs[j]) <= s[1] /\ s[1] + s[2] <= End(recs[j])
          /\ Start(recs[k]) <= t[1] /\ t[1] + t[2] <= End(recs[k])
      BY <1>1, <3>1, <3>2, SectionFacts
    <3>4. CASE j = k
      <4>1. recs[k].scale # NoScale => recs[k].scale + ScaleBytes(recs[k]) <= recs[k].data
        BY <1>1 DEF IInv, SectionsInv, Placed
      <4> QED
        BY <3>1, <3>2, <3>4, <4>1
    <3>5. CASE j < k
      <4>1. End(recs[j]) <= Start(recs[k])
        BY <1>1, <3>5 DEF IInv, SectionsInv
      <4> QED
        BY <3>3, <4>1
    <3>6. CASE k < j
      <4>1. End(recs[k]) <= Start(recs[j])
        BY <1>1, <3>6 DEF IInv, SectionsInv
      <4> QED
        BY <3>3, <4>1
    <3>7. j \in Int /\ k \in Int
      BY LenProperties DEF Ids
    <3> QED
      BY <3>4, <3>5, <3>6, <3>7
  <2>4. ASSUME NEW k \in Ids, recs[k].cols # 0
        PROVE  (DataBytes(recs[k]) \div recs[k].rows) % Unit = 0
    BY <1>1, <2>4 DEF IInv, SectionsInv, Placed
  <2> QED
    BY <2>2, <2>3, <2>4 DEF Laid, Ids
<1>2. IInv => Laid
  BY <1>1 DEF Laid
<1> QED
  BY <1>2, Invariance, PTL

(* app_main and ne_load: past the header the copy is the whole image and   *)
(* every record is read in it, for claims under 2^64.                      *)
THEOREM WholeCopy == Spec => []WholeImage
<1>1. IInv => WholeImage
  BY DEF IInv, SizeInv, WholeImage
<1> QED
  BY <1>1, Invariance, PTL

(* ne_load: nothing the board comes up with is missing, too long, in a     *)
(* layout without a kernel, or grouped in two ways.                        *)
THEOREM UpSound == Spec => []UpIsSound
<1> DEFINE scaled == {k \in Ids : recs[k].cols # 0 /\ recs[k].scale # NoScale}
           groups == {recs[k].group : k \in {j \in scaled : recs[j].cols = DModel}}
<1>1. ASSUME IInv, phase = "up"
      PROVE  /\ \A name \in Needed : Named(name) # {}
             /\ Len(recs) <= MaxRecs
             /\ scales = scaled
             /\ \A k \in scaled : recs[k].group \in {Chunk, recs[k].cols}
             /\ \A k \in Ids : recs[k].name \in Vectors => recs[k].rows <= Cap(recs[k].name)
             /\ Cardinality(groups) <= 1
  <2>1. /\ scales \subseteq Ids
        /\ \A k \in Ids : Accepted(k)
        /\ \A name \in Needed : Named(name) # {}
        /\ \A k \in Ids : recs[k].name \in Needed => ~TooLong(recs[k])
    BY <1>1 DEF IInv, LoadInv
  <2>2. scales = scaled
    BY <2>1 DEF Accepted, Scaled
  <2>3. \A k \in scaled : recs[k].group \in {Chunk, recs[k].cols}
    BY <2>1 DEF Accepted, Scaled
  <2>4. ASSUME NEW k \in Ids, recs[k].name \in Vectors
        PROVE  recs[k].rows <= Cap(recs[k].name)
    <3>1. recs[k].name \in Needed
      BY <2>4, TensorAssumption DEF Vectors
    <3>2. ~(recs[k].rows > Cap(recs[k].name))
      BY <2>1, <2>4, <3>1 DEF TooLong
    <3>3. recs[k].rows \in Int
      <4>1. recs[k] \in Records
        BY <1>1, ElementOfSeq DEF IInv, TypeInv, Ids
      <4> QED
        BY <4>1 DEF Records
    <3>4. Cap(recs[k].name) \in Int
      <4>1. PICK n \in 1 .. Len(Tensors) : Tensors[n].name = recs[k].name
        BY <1>1 DEF IInv, NamesInv, ListInv, Known
      <4> DEFINE t == CHOOSE t \in {Tensors[m] : m \in 1 .. Len(Tensors)} : t.name = recs[k].name
      <4>2. t \in {Tensors[m] : m \in 1 .. Len(Tensors)}
        BY <4>1
      <4>3. t \in [name : STRING, rows : Nat \ {0}, cols : Nat]
        <5> HIDE DEF t
        <5>1. Tensors \in Seq([name : STRING, rows : Nat \ {0}, cols : Nat])
          BY TensorAssumption
        <5>2. \A m \in 1 .. Len(Tensors) :
                Tensors[m] \in [name : STRING, rows : Nat \ {0}, cols : Nat]
          BY <5>1, ElementOfSeq
        <5>3. PICK m \in 1 .. Len(Tensors) : t = Tensors[m]
          BY <4>2
        <5> QED
          BY <5>2, <5>3
      <4>4. Cap(recs[k].name) = t.rows
        BY DEF Cap
      <4> HIDE DEF t
      <4> QED
        BY <4>3, <4>4
    <3> QED
      BY <3>2, <3>3, <3>4
  <2>5. groups \subseteq {dgroup}
    BY <2>1 DEF Accepted, Scaled
  <2>6. Cardinality(groups) <= 1
    <3> HIDE DEF groups
    <3>1. IsFiniteSet({dgroup}) /\ Cardinality({dgroup}) = 1
      BY FS_Singleton
    <3>2. IsFiniteSet(groups) /\ Cardinality(groups) <= Cardinality({dgroup})
      BY <2>5, <3>1, FS_Subset
    <3> QED
      BY <3>1, <3>2
  <2>7. Len(recs) <= MaxRecs
    BY <1>1 DEF IInv, SizeInv
  <2> QED
    BY <2>1, <2>2, <2>3, <2>4, <2>6, <2>7
<1>2. IInv => UpIsSound
  BY <1>1 DEF UpIsSound, Ids
<1> QED
  BY <1>2, Invariance, PTL

=============================================================================
