---------------------------- MODULE StructLayout ----------------------------
(***************************************************************************)
(* Where the fields of a struct lie in memory.  The kernel programs write  *)
(* C structs into ring buffers and Go reads the bytes back at offsets of   *)
(* its own: encoding/binary reads field after field with no padding, the   *)
(* Windows parser slices at literal offsets.                               *)
(***************************************************************************)
EXTENDS Integers, Sequences

\* A field: its name ("pad" for padding), its size and its type's alignment.
Field(name, size, align) == [name |-> name, size |-> size, align |-> align]
U8(name) == Field(name, 1, 1)
U16(name) == Field(name, 2, 2)
U32(name) == Field(name, 4, 4)
U64(name) == Field(name, 8, 8)
Bytes(name, n) == Field(name, n, 1)

RoundUp(n, a) == ((n + a - 1) \div a) * a

\* The starts of the fields when each is aligned as its type asks.
Aligned(fields) ==
  LET start[i \in 1..Len(fields)] ==
        IF i = 1 THEN 0
        ELSE RoundUp(start[i - 1] + fields[i - 1].size, fields[i].align)
  IN  start

\* The starts when the fields follow one another: __attribute__((packed)), and
\* what encoding/binary assumes.
Packed(fields) ==
  LET start[i \in 1..Len(fields)] ==
        IF i = 1 THEN 0 ELSE start[i - 1] + fields[i - 1].size
  IN  start

\* The bytes of each field that has a name.
Places(fields, start) ==
  {<<fields[i].name, start[i], fields[i].size>> :
     i \in {j \in 1..Len(fields) : fields[j].name # "pad"}}

\* sizeof: the end of the last field, rounded up to the alignment align.
SizeOf(fields, start, align) ==
  RoundUp(start[Len(fields)] + fields[Len(fields)].size, align)
=============================================================================
