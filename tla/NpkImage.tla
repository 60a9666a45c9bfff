------------------------------ MODULE NpkImage ------------------------------
(***************************************************************************)
(* A weight image from the packer to the engine: tools/pack_npk.py lays    *)
(* the tensors out, the image is flashed, app_main reads its header and    *)
(* copies it to RAM, ne_load checks and indexes it, ne_alloc follows.      *)
(* What is flashed is what was packed, or one of the images the checks of  *)
(* ne_load are there for.  Any allocation may fail.                        *)
(***************************************************************************)
EXTENDS Integers, Sequences, FiniteSets

CONSTANTS
  Tensors,    \* what the packer adds, in order: [name, rows, cols]
  Needed,     \* names ne_load looks up
  Scalars,    \* those it reads as one number: the gates
  Widths,     \* bits of a projection or embedding: 8, 4
  DModel, Chunk,            \* NE_DMODEL, NE_PACK
  Unit, HdrSize, RecSize,   \* 16, 16, 96
  MaxRecs, PartSize,
  Word, Wide  \* 2^32: size_t of the board; 2^64: the header's blob size

ASSUME ImageAssumption ==
  /\ {DModel, Chunk, Unit, HdrSize, RecSize, MaxRecs, PartSize, Word, Wide} \subseteq Nat \ {0}
  /\ DModel % Chunk = 0
  /\ HdrSize % Unit = 0 /\ RecSize % Unit = 0
  /\ PartSize < Word
  /\ Len(Tensors) * RecSize < Wide

(* A checkpoint: each tensor once, its rows in whole vectors of nibbles    *)
(* (pack_int4), its vectors all looked up by the engine.                   *)
ASSUME TensorAssumption ==
  /\ Tensors \in Seq([name : STRING, rows : Nat \ {0}, cols : Nat]) /\ Tensors # <<>>
  /\ \A k \in 1 .. Len(Tensors) : /\ Tensors[k].cols % (2 * Unit) = 0
                                  /\ Tensors[k].cols = 0 => Tensors[k].name \in Needed
  /\ \A j, k \in 1 .. Len(Tensors) : Tensors[j].name = Tensors[k].name => j = k

Groups == {Chunk, DModel}   \* --group
NoScale == -1

VARIABLES
  phase, why,            \* where the image is; what refused it
  group, width, wembed,  \* the packer's arguments
  magic, recs, blob,     \* the image; its header says Len(recs) and blob
  altered,
  total,                 \* bytes app_main copied
  i, scales, dgroup      \* ne_load: record, records with decoded scales, group

args == <<group, width, wembed>>
image == <<magic, recs, blob, altered>>
load == <<i, scales, dgroup>>
vars == <<phase, why, args, image, total, load>>

Align(n) == ((n + Unit - 1) \div Unit) * Unit

Init ==
  /\ phase = "pack" /\ why = "none"
  /\ group \in Groups /\ width \in Widths /\ wembed \in Widths
  /\ magic = "NPK2" /\ recs = <<>> /\ blob = 0 /\ altered = FALSE
  /\ total = 0 /\ i = 0 /\ scales = {} /\ dgroup = 0

-----------------------------------------------------------------------------
(* The packer.                                                             *)

Bits(t) == IF t.name = "embed_tokens" THEN wembed ELSE width

ScaleBytes(r) == IF r.cols = 0 THEN 0 ELSE r.rows * (r.cols \div r.group) * 2
DataBytes(r) ==
  CASE r.dtype = "f16" -> r.rows * 2
    [] r.dtype = "i8" -> r.rows * r.cols
    [] OTHER -> r.rows * (r.cols \div 2)

Record(t, soff, doff) ==
  [name |-> t.name, rows |-> t.rows, cols |-> t.cols, group |-> group,
   dtype |-> IF t.cols = 0 THEN "f16" ELSE IF Bits(t) = 8 THEN "i8" ELSE "i4",
   scale |-> soff, data |-> doff]

(* MUTANT: the data follows its scales without padding.                    *)
PackTensorTight ==
  /\ phase = "pack" /\ Len(recs) < Len(Tensors)
  /\ LET t == Tensors[Len(recs) + 1]
         soff == IF t.cols = 0 THEN NoScale ELSE Align(blob)
         doff == IF t.cols = 0 THEN Align(blob) ELSE soff + ScaleBytes(Record(t, soff, 0))
         r == Record(t, soff, doff)
     IN  recs' = Append(recs, r) /\ blob' = doff + DataBytes(r)
  /\ UNCHANGED <<phase, why, args, magic, altered, total, load>>

(* add: scales and data each start on a unit.                              *)
PackTensor ==
  /\ phase = "pack" /\ Len(recs) < Len(Tensors)
  /\ LET t == Tensors[Len(recs) + 1]
         soff == IF t.cols = 0 THEN NoScale ELSE Align(blob)
         doff == IF t.cols = 0 THEN Align(blob) ELSE Align(soff + ScaleBytes(Record(t, soff, 0)))
         r == Record(t, soff, doff)
     IN  recs' = Append(recs, r) /\ blob' = doff + DataBytes(r)
  /\ UNCHANGED <<phase, why, args, magic, altered, total, load>>

Flash ==
  /\ phase = "pack" /\ Len(recs) = Len(Tensors)
  /\ phase' = "flashed"
  /\ UNCHANGED <<why, args, image, total, load>>

(* Images of another format, another model or another tool: a wrong magic, *)
(* a tensor left out or longer, a type or a group without a kernel, a      *)
(* header that claims more than the file has, up to what makes the sums of *)
(* 32 and of 64 bits wrap around, more records than slots.                 *)
Alter ==
  /\ phase = "pack" /\ Len(recs) = Len(Tensors)
  /\ phase' = "flashed" /\ altered' = TRUE
  /\ \/ magic' = "NPK1" /\ UNCHANGED <<recs, blob>>
     \/ /\ blob' \in {blob + Word, blob + PartSize}
                    \cup {Wide - k * RecSize : k \in 1 .. Len(recs)}
        /\ UNCHANGED <<magic, recs>>
     \/ /\ \E k \in 1 .. Len(recs) :
             \/ recs' = SubSeq(recs, 1, k - 1) \o SubSeq(recs, k + 1, Len(recs))
             \/ recs[k].cols = 0 /\ recs' = [recs EXCEPT ![k].rows = @ + 1]
             \/ recs' = [recs EXCEPT ![k].dtype = "f32"]
             \/ recs[k].cols # 0 /\ recs' = [recs EXCEPT ![k].scale = NoScale]
             \/ \E g \in {0, 1, Chunk, DModel} : recs' = [recs EXCEPT ![k].group = g]
        /\ UNCHANGED <<magic, blob>>
     \/ /\ \E g \in {1, 2 * DModel} : recs' = [k \in 1 .. Len(recs) |-> [recs[k] EXCEPT !.group = g]]
        /\ UNCHANGED <<magic, blob>>
     \/ /\ recs' = recs \o [k \in 1 .. MaxRecs |-> recs[1]]
        /\ UNCHANGED <<magic, blob>>
  /\ UNCHANGED <<why, args, total, load>>

-----------------------------------------------------------------------------
(* The board.                                                              *)

Size == HdrSize + Len(recs) * RecSize + blob   \* what the header amounts to

Refuse(reason) == phase' = "refused" /\ why' = reason

(* app_main: the size in 32 bits, against the partition; room for a copy.  *)
ReadHeader ==
  /\ phase = "flashed"
  /\ total' = Size % Word
  /\ \/ (magic # "NPK2" \/ Size % Word > PartSize) /\ Refuse("image")
     \/ magic = "NPK2" /\ Size % Word <= PartSize /\ Refuse("memory")
     \/ magic = "NPK2" /\ Size % Word <= PartSize /\ phase' = "load" /\ UNCHANGED why
  /\ UNCHANGED <<args, image, load>>

(* MUTANT: the size is not checked again.                                  *)
LoadHeaderTrusting ==
  /\ phase = "load"
  /\ LET fits == total >= HdrSize /\ Len(recs) <= MaxRecs
     IN  \/ ~fits /\ Refuse("image")
         \/ fits /\ Refuse("memory")
         \/ fits /\ phase' = "records" /\ UNCHANGED why
  /\ i' = 1 /\ scales' = {} /\ dgroup' = 0
  /\ UNCHANGED <<args, image, total>>

(* ne_load up to the records: the size again, now in 64 bits, where it may *)
(* wrap around as well (engine.c:910); the rope table.                     *)
LoadHeader ==
  /\ phase = "load"
  /\ LET fits == total >= HdrSize /\ Len(recs) <= MaxRecs /\ total >= Size % Wide
     IN  \/ ~fits /\ Refuse("image")
         \/ fits /\ Refuse("memory")
         \/ fits /\ phase' = "records" /\ UNCHANGED why
  /\ i' = 1 /\ scales' = {} /\ dgroup' = 0
  /\ UNCHANGED <<args, image, total>>

(* MUTANT: any group that divides the row.                                 *)
HasKernelAny(r) == r.group # 0 /\ r.cols % r.group = 0

(* The scale layouts with a kernel.                                        *)
HasKernel(r) ==
  /\ r.group # 0 /\ r.cols % r.group = 0
  /\ r.group \in {Chunk, r.cols}
  /\ r.cols \div r.group <= DModel \div Chunk

(* Record k lies in the copy.                                              *)
Copied(k) == HdrSize + k * RecSize <= total

(* A record is read from behind the copy: nothing is said of what follows. *)
ReadAstray ==
  /\ phase = "records" /\ i <= Len(recs) /\ ~Copied(i)
  /\ phase' = "astray"
  /\ UNCHANGED <<why, args, image, total, load>>

(* One record: type, layout, one group for all rows of model width; then   *)
(* its scales are decoded.                                                 *)
LoadRecord ==
  /\ phase = "records" /\ i <= Len(recs) /\ Copied(i)
  /\ LET r == recs[i]
         typed == r.dtype \in (IF r.cols = 0 THEN {"f16"} ELSE {"i8", "i4"})
         plain == r.cols = 0 \/ r.scale = NoScale
         grouped == r.cols = DModel => dgroup \in {0, r.group}
         sound == typed /\ (plain \/ (HasKernel(r) /\ grouped))
     IN  \/ ~sound /\ Refuse("image") /\ UNCHANGED load
         \/ /\ sound /\ plain
            /\ i' = i + 1 /\ UNCHANGED <<phase, why, scales, dgroup>>
         \/ /\ sound /\ ~plain
            /\ i' = i + 1 /\ scales' = scales \cup {i}
            /\ dgroup' = IF r.cols = DModel THEN r.group ELSE dgroup
            /\ UNCHANGED <<phase, why>>
         \/ /\ sound /\ ~plain /\ Refuse("memory")
            /\ scales' = {} /\ UNCHANGED <<i, dgroup>>
  /\ UNCHANGED <<args, image, total>>

Named(name) == {k \in 1 .. Len(recs) : recs[k].name = name}

(* What load_vec reads, and the room the engine has for it.                *)
Vectors == {t.name : t \in {Tensors[k] : k \in {j \in 1 .. Len(Tensors) : Tensors[j].cols = 0}}}
             \ Scalars
Cap(name) == (CHOOSE t \in {Tensors[k] : k \in 1 .. Len(Tensors)} : t.name = name).rows

(* load_vec refuses what it has no room for, load_scalar reads the first.  *)
TooLong(r) == r.name \in Vectors /\ r.rows > Cap(r.name)

(* The lookups of ne_load, counted in g_missing.                           *)
LookUp ==
  /\ phase = "records" /\ i = Len(recs) + 1
  /\ LET First(name) == recs[CHOOSE k \in Named(name) : \A j \in Named(name) : k <= j]
         complete == \A name \in Needed : Named(name) # {} /\ ~TooLong(First(name))
     IN  IF complete THEN phase' = "context" /\ UNCHANGED <<why, scales>>
                     ELSE Refuse("image") /\ scales' = {}
  /\ UNCHANGED <<args, image, total, i, dgroup>>

(* ne_alloc.                                                               *)
Context ==
  /\ phase = "context"
  /\ (phase' = "up" /\ UNCHANGED why) \/ Refuse("memory")
  /\ UNCHANGED <<args, image, total, load>>

(* app_main returns after an error line, or the board is up.               *)
Ended == phase \in {"refused", "up", "astray"} /\ UNCHANGED vars

Next ==
  \/ PackTensor \/ Flash \/ Alter
  \/ ReadHeader \/ LoadHeader \/ ReadAstray \/ LoadRecord \/ LookUp \/ Context \/ Ended

Spec == Init /\ [][Next]_vars

-----------------------------------------------------------------------------

(* Sections of the blob: scales and data of each record.                   *)
Sections ==
  {<<recs[k].scale, ScaleBytes(recs[k])>> : k \in {j \in 1 .. Len(recs) : recs[j].scale # NoScale}}
  \cup {<<recs[k].data, DataBytes(recs[k])>> : k \in 1 .. Len(recs)}

(* Packed sections start on a unit, overlap nowhere and end in the blob;   *)
(* with the image on a unit every weight row a kernel loads is aligned     *)
(* (fw_main.c:418-420).                                                    *)
Laid ==
  ~altered =>
    /\ \A s \in Sections : s[1] % Unit = 0 /\ s[1] + s[2] <= blob
    /\ \A s, t \in Sections : s = t \/ s[1] + s[2] <= t[1] \/ t[1] + t[2] <= s[1]
    /\ \A k \in 1 .. Len(recs) : recs[k].cols # 0 =>
         (DataBytes(recs[k]) \div recs[k].rows) % Unit = 0

(* Past the header the copy is the whole image, also when the header's     *)
(* claim wrapped around 32 bits on its way (fw_main.c:413), and no record  *)
(* is read from behind it; unless the claim is of 64 bits or more, where   *)
(* ne_load's own sum wraps around as well (engine.c:910).                  *)
WholeImage ==
  /\ phase \in {"records", "context", "up"} /\ Size < Wide => total = Size /\ Size <= PartSize
  /\ phase = "astray" => Size >= Wide

(* A board that is up has every tensor, in the slots there are; each       *)
(* matrix that has scales has them decoded, in a layout with a kernel, and *)
(* the matrices that share a quantized activation have one group           *)
(* (engine.c:944-958).                                                     *)
UpIsSound ==
  LET scaled == {k \in 1 .. Len(recs) : recs[k].cols # 0 /\ recs[k].scale # NoScale}
  IN  phase = "up" =>
        /\ \A name \in Needed : Named(name) # {}
        /\ Len(recs) <= MaxRecs
        /\ scales = scaled
        /\ \A k \in scaled : recs[k].group \in {Chunk, recs[k].cols}
        /\ \A k \in 1 .. Len(recs) : recs[k].name \in Vectors => recs[k].rows <= Cap(recs[k].name)
        /\ Cardinality({recs[k].group : k \in {j \in scaled : recs[j].cols = DModel}}) <= 1
=============================================================================
