------------------------------ MODULE GgufTypes ------------------------------
(***************************************************************************)
(* What a GGUF file holds once it was read: typed values, metadata as a    *)
(* map, and tensors by type and dimensions (src/gguf/value.rs, metadata.rs *)
(* and tensor.rs).                                                         *)
(***************************************************************************)
EXTENDS Integers, Sequences, SequencesExt, TLC

\* The types the program decodes, and F16 for those it only names.
TensorRaw == [F32 |-> 0, F16 |-> 1, Q8_0 |-> 8, Q4_K |-> 12, Q5_K |-> 13, Q6_K |-> 14]

TensorTypeFromRaw(raw) ==
  IF \E t \in DOMAIN TensorRaw : TensorRaw[t] = raw
  THEN CHOOSE t \in DOMAIN TensorRaw : TensorRaw[t] = raw
  ELSE "Unknown"

Scalar(type, v) == [type |-> type, v |-> v]
ArrayOf(elem, items) == [type |-> "Array", elem |-> elem, items |-> items]

NElements(dims) ==
  LET product[i \in 0..Len(dims)] == IF i = 0 THEN 1 ELSE product[i - 1] * dims[i]
  IN product[Len(dims)]

-----------------------------------------------------------------------------
(* Metadata.                                                               *)

IsPowerOfTwo(x) == \E n \in 0..x : x = 2^n

IsAlignment(value) == value.type = "U32" /\ value.v # 0 /\ IsPowerOfTwo(value.v)

\* A map with one entry more, or another value of one.
Inserted(map, key, value) ==
  [k \in DOMAIN map \cup {key} |-> IF k = key THEN value ELSE map[k]]

\* Of two entries with one key the later counts.
ToMap(entries) ==
  [k \in {entries[i].key : i \in DOMAIN entries} |->
     entries[SelectLastInSeq(entries, LAMBDA e : e.key = k)].value]

Has(metadata, key) == key \in DOMAIN metadata

IsStr(x) == x.type = "String"
IsF32(x) == x.type = "F32"

\* Narrower integers widen, signed ones if they are not negative.
IsU32(x) == \/ x.type \in {"U8", "U16", "U32"}
            \/ x.type \in {"I8", "I16", "I32"} /\ x.v >= 0

\* as_i32 takes an unsigned value up to half; I32Max scales with the model.
IsI32(x, I32Max) == \/ x.type \in {"I8", "I16", "I32", "U8", "U16"}
                    \/ x.type = "U32" /\ x.v <= I32Max

IsI32Array(x, I32Max) == x.type = "Array" /\ \A i \in DOMAIN x.items : IsI32(x.items[i], I32Max)

Items(x) == [i \in DOMAIN x.items |-> x.items[i].v]
=============================================================================
