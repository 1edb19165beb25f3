-------------------------------- MODULE Gguf --------------------------------
(***************************************************************************)
(* The GGUF container: what src/gguf/writer.rs writes and what the reader  *)
(* of src/gguf/mod.rs makes of it, byte for byte.                          *)
(*                                                                         *)
(* A file is its length, the fields of its header, metadata and index, one *)
(* after the other, each with its width, and the blocks of data behind     *)
(* them, each at a place. A read of the right width at a field gives the   *)
(* field; a read of bytes written as something else is the error           *)
(* "Garbage", which no file of the writer and no prefix of one may give.   *)
(* Strings are whole values, their bytes valid.                            *)
(***************************************************************************)
EXTENDS GgufTypes

CONSTANTS
  Nesting \* how deep the values of the metadata may nest, a scalar being one deep

ASSUME NestingAssumption == Nesting \in Nat

DEFAULT_ALIGNMENT == 32
MAX_TENSOR_DIMS == 4

-----------------------------------------------------------------------------
(* Types of values.                                                        *)

ValueTypeRaw ==
  [U8 |-> 0, I8 |-> 1, U16 |-> 2, I16 |-> 3, U32 |-> 4, I32 |-> 5, F32 |-> 6, Bool |-> 7,
   String |-> 8, Array |-> 9, U64 |-> 10, I64 |-> 11, F64 |-> 12]

ValueTypes == DOMAIN ValueTypeRaw

ValueTypeFromRaw(raw) == CHOOSE t \in ValueTypes : ValueTypeRaw[t] = raw

\* The bytes of a value of fixed width.
Width == [U8 |-> 1, I8 |-> 1, U16 |-> 2, I16 |-> 2, U32 |-> 4, I32 |-> 4, F32 |-> 4,
          Bool |-> 1, U64 |-> 8, I64 |-> 8, F64 |-> 8]

-----------------------------------------------------------------------------
(* What can be written.                                                    *)

Str == {s \in STRING : Len(s) \in Nat}

\* A floating-point number is any of the integers that stand for it.
Scalars ==
  [type : {"U8", "U16", "U32", "U64"}, v : Nat]
    \cup [type : {"I8", "I16", "I32", "I64", "F32", "F64"}, v : Int]
    \cup [type : {"Bool"}, v : BOOLEAN] \cup [type : {"String"}, v : Str]

\* The items of an array are of the type it names.
Arrays(values) ==
  {x \in [type : {"Array"}, elem : ValueTypes, items : Seq(values)] :
     \A i \in DOMAIN x.items : x.items[i].type = x.elem}

\* Values at most n deep.
Values[n \in 0..Nesting] == IF n = 0 THEN {} ELSE Scalars \cup Arrays(Values[n - 1])

\* A GgufBuilder: its metadata in order, its tensors with the length of their
\* data, and its alignment. The reader takes four dimensions at most.
Builders ==
  [metadata : Seq([key : Str, value : Values[Nesting]]),
   tensors : Seq({t \in [name : Str, type : DOMAIN TensorRaw, dims : Seq(Nat), data : Nat] :
                    Len(t.dims) <= MAX_TENSOR_DIMS}),
   alignment : {a \in Nat \ {0} : IsPowerOfTwo(a)}]

-----------------------------------------------------------------------------
(* The writer.                                                             *)

Field(w, v) == [w |-> w, v |-> v]

\* A string is its length and its bytes.
WriteStr(s) == <<Field(8 + Len(s), s)>>

WriteScalar(x) ==
  CASE x.type = "String" -> WriteStr(x.v)
    [] x.type = "Bool" -> <<Field(1, IF x.v THEN 1 ELSE 0)>>
    [] OTHER -> <<Field(Width[x.type], x.v)>>

WriteArray(x, write) ==
  <<Field(4, ValueTypeRaw[x.elem]), Field(8, Len(x.items))>>
    \o FlattenSeq([i \in DOMAIN x.items |-> write[x.items[i]]])

WriteEach(values, write) ==
  [x \in values |-> IF x.type = "Array" THEN WriteArray(x, write) ELSE WriteScalar(x)]

WriteValue[n \in 0..Nesting] ==
  IF n = 0 THEN <<>> ELSE WriteEach(Values[n], WriteValue[n - 1])

\* The alignment is a power of two: the writer clears the lower bits.
AlignUp(x, alignment) == ((x + alignment - 1) \div alignment) * alignment

\* Where each field starts, and where the last one ends.
Starts(fields) ==
  LET at[k \in 1..(Len(fields) + 1)] == IF k = 1 THEN 0 ELSE fields[k - 1].w + at[k - 1]
  IN at

Total(fields) == Starts(fields)[Len(fields) + 1]

\* The bytes of what is written in several parts.
Size(parts) == Total([i \in DOMAIN parts |-> Field(Total(parts[i]), 0)])

\* Where the data of each tensor goes, relative to the data section.
Offsets(tensors, alignment) ==
  LET at[i \in 1..Len(tensors)] ==
        IF i = 1 THEN 0 ELSE AlignUp(at[i - 1] + tensors[i - 1].data, alignment)
  IN at

WriteInfo(t, offset) ==
  WriteStr(t.name)
    \o <<Field(4, Len(t.dims))>>
    \o [i \in DOMAIN t.dims |-> Field(8, t.dims[i])]
    \o <<Field(4, TensorRaw[t.type]), Field(8, offset)>>

WriteEntry(kv) ==
  WriteStr(kv.key) \o <<Field(4, ValueTypeRaw[kv.value.type])>> \o WriteValue[Nesting][kv.value]

\* One part for the header and one for each entry.
WriteHead(spec) ==
  <<<<Field(4, "GGUF"), Field(4, 3), Field(8, Len(spec.tensors)), Field(8, Len(spec.metadata))>>>>
    \o [i \in DOMAIN spec.metadata |-> WriteEntry(spec.metadata[i])]

WriteIndex(spec) ==
  LET offsets == Offsets(spec.tensors, spec.alignment)
  IN [i \in DOMAIN spec.tensors |-> WriteInfo(spec.tensors[i], offsets[i])]

\* index_entry_len: what WriteInfo is expected to write.
IndexEntryLen(t) == 8 + Len(t.name) + 4 + 8 * Len(t.dims) + 4 + 8

IndexEnd(spec) ==
  Size(WriteHead(spec))
    + Total([i \in DOMAIN spec.tensors |-> Field(IndexEntryLen(spec.tensors[i]), 0)])

\* Mutant of DataStart: data begins where the index ends.
DataStartUnaligned(end, alignment) == end

DataStart(end, alignment) == AlignUp(end, alignment)

\* GgufBuilder::build. Without tensors nothing follows the index, not even
\* padding. What a tensor's bytes are is its name.
Build(spec) ==
  LET parts == WriteHead(spec) \o WriteIndex(spec)
      head == Size(parts)
      offsets == Offsets(spec.tensors, spec.alignment)
      start == DataStart(IndexEnd(spec), spec.alignment)
      n == Len(spec.tensors)
  IN [fields |-> FlattenSeq(parts), head |-> head,
      data |-> [i \in 1..n |-> [at |-> start + offsets[i], w |-> spec.tensors[i].data,
                                v |-> spec.tensors[i].name]],
      len |-> IF n = 0 THEN head ELSE start + offsets[n] + spec.tensors[n].data]

\* The first n bytes of a file.
Cut(file, n) == [file EXCEPT !.len = IF n < @ THEN n ELSE @]

-----------------------------------------------------------------------------
(* The reader: a result is an error, or a value and the place after it. An *)
(* error ends whatever is being read.                                      *)

Fail(e) == [err |-> e]
Yield(r, v) == IF r.err # "Ok" THEN r ELSE [err |-> "Ok", pos |-> r.pos, next |-> r.next, v |-> v]
Begin == [err |-> "Ok", pos |-> 0, next |-> 1, v |-> 0]

\* Where a result ends, and a result that ends there.
Cursor == [pos : Nat, next : Nat]
After(r) == [pos |-> r.pos, next |-> r.next]
From(c) == [err |-> "Ok", pos |-> c.pos, next |-> c.next, v |-> 0]

\* The next w bytes; ensure() refuses what is not there.
Read(file, r, w) ==
  IF r.err # "Ok" THEN r
  ELSE IF r.pos + w > file.len THEN Fail("Truncated")
  ELSE IF r.next \in DOMAIN file.fields /\ file.fields[r.next].w = w
       THEN [err |-> "Ok", pos |-> r.pos + w, next |-> r.next + 1, v |-> file.fields[r.next].v]
       ELSE Fail("Garbage")

\* A string has the width it says.
ReadStr(file, r) ==
  IF r.err # "Ok" THEN r
  ELSE Read(file, r, IF r.next \in DOMAIN file.fields THEN file.fields[r.next].w ELSE 8)

\* count values, one after the other, each read by a function of the place.
ReadMore(one, before) ==
  LET x == one[After(before)]
  IN IF before.err # "Ok" THEN before ELSE Yield(x, Append(before.v, x.v))

ReadMany(one, r, count) ==
  LET run[n \in 0..count] == IF n = 0 THEN Yield(r, <<>>) ELSE ReadMore(one, run[n - 1])
  IN IF r.err # "Ok" THEN r ELSE run[count]

ReadType(file, r) ==
  LET raw == Read(file, r, 4)
  IN IF raw.err # "Ok" THEN raw
     ELSE IF raw.v \in 0..12 THEN Yield(raw, ValueTypeFromRaw(raw.v)) ELSE Fail("UnknownValueType")

ReadScalar(file, r, type) ==
  LET x == IF type = "String" THEN ReadStr(file, r) ELSE Read(file, r, Width[type])
  IN Yield(x, Scalar(type, IF type = "Bool" THEN x.v # 0 ELSE x.v))

ReadArray(file, c, values) ==
  LET elem == ReadType(file, From(c))
      count == Read(file, elem, 8)
      items == ReadMany(values[elem.v], count, count.v)
  IN Yield(items, ArrayOf(elem.v, items.v))

\* A value of each type, at each place.
ReadEach(file, values) ==
  [type \in ValueTypes |-> [c \in Cursor |->
     IF type = "Array" THEN ReadArray(file, c, values) ELSE ReadScalar(file, From(c), type)]]

ReadNone == [type \in ValueTypes |-> [c \in Cursor |-> Fail("Garbage")]]

\* Every value and every array has fields of its own: n, at first the number of
\* all fields, runs out only where they do.
ReadValues(file) ==
  LET value[n \in 0..Len(file.fields)] ==
        IF n = 0 THEN ReadNone ELSE ReadEach(file, value[n - 1])
  IN value

ReadHeader(file) ==
  LET magic == Read(file, Begin, 4)
      version == Read(file, magic, 4)
      counts == ReadMany([c \in Cursor |-> Read(file, From(c), 8)], version, 2)
  IN IF magic.err = "Ok" /\ magic.v # "GGUF" THEN Fail("BadMagic")
     ELSE IF version.err = "Ok" /\ version.v \notin 2..3 THEN Fail("UnsupportedVersion")
     ELSE counts

\* The alignment is checked as it is read.
Checked(key, x) ==
  IF x.err = "Ok" /\ key.v = "general.alignment" /\ ~IsAlignment(x.v)
  THEN Fail(IF x.v.type = "U32" THEN "BadAlignment" ELSE "TypeMismatch")
  ELSE Yield(x, [key |-> key.v, value |-> x.v])

ReadEntry(file, r) ==
  LET key == ReadStr(file, r)
      type == ReadType(file, key)
  IN Checked(key, IF type.err # "Ok" THEN type
                  ELSE ReadValues(file)[Len(file.fields)][type.v][After(type)])

ReadMetadata(file, r, kv_count) ==
  ReadMany([c \in Cursor |-> ReadEntry(file, From(c))], r, kv_count)

ReadInfo(file, r) ==
  LET name == ReadStr(file, r)
      n == Read(file, name, 4)
      dims == ReadMany([c \in Cursor |-> Read(file, From(c), 8)], n, n.v)
      raw == Read(file, dims, 4)
      offset == Read(file, raw, 8)
  IN IF n.err = "Ok" /\ n.v > MAX_TENSOR_DIMS THEN Fail("TooManyDims")
     ELSE Yield(offset, [name |-> name.v, type |-> TensorTypeFromRaw(raw.v),
                         dims |-> dims.v, offset |-> offset.v])

ReadIndex(file, r, tensor_count) ==
  ReadMany([c \in Cursor |-> ReadInfo(file, From(c))], r, tensor_count)

\* The data section starts at the next multiple of the alignment.
Assembled(file, entries, index) ==
  LET metadata == ToMap(entries.v)
      alignment == IF "general.alignment" \in DOMAIN metadata
                   THEN metadata["general.alignment"].v ELSE DEFAULT_ALIGNMENT
  IN IF index.err # "Ok" THEN Fail(index.err)
     ELSE [err |-> "Ok", metadata |-> metadata, tensors |-> index.v, len |-> file.len,
           alignment |-> alignment, data_offset |-> AlignUp(index.pos, alignment)]

\* Gguf::open: header, metadata and index.
Parse(file) ==
  LET header == ReadHeader(file)
      entries == ReadMetadata(file, header, header.v[2])
  IN Assembled(file, entries, ReadIndex(file, entries, header.v[1]))

\* What the bytes of a slice are: the data written there, or a mixture.
Contents(file, start, size) ==
  LET there == {i \in DOMAIN file.data : file.data[i].at = start /\ file.data[i].w = size}
  IN IF there # {} /\ start + size <= file.len THEN file.data[CHOOSE i \in there : TRUE].v
     ELSE "mixed"
=============================================================================
