-------------------------------- MODULE Layout --------------------------------
(* The layout of encoded structures. A structure is described by what its      *)
(* Encode method writes and what the methods of its decoder read, each field   *)
(* being an interval <<first byte, number of bytes>> of the structure, and by  *)
(* the number its Size method returns. The values of the fields are left out,  *)
(* except those of offsets, lengths and counts, which the decoder computes     *)
(* with: these have the width of their field.                                  *)
EXTENDS Integers, Sequences, FiniteSets

U8 == 256
U16 == 65536

\* util.go rounds up to a power of two with a mask.
Roundup(x, align) == ((x + align - 1) \div align) * align

\* A structure without a variable part is one byte longer than its fixed part.
OrOne(n) == IF n = 0 THEN 1 ELSE n

\* Items of the given sizes, one after the other from `from' on, each aligned:
\* where each begins, and where the last ends.
Starts(from, sizes, align) ==
  LET start[i \in DOMAIN sizes] ==
        Roundup(IF i = 1 THEN from ELSE start[i - 1] + sizes[i - 1], align)
  IN  start

Ends(from, sizes, align) ==
  IF sizes = <<>> THEN from
  ELSE Starts(from, sizes, align)[Len(sizes)] + sizes[Len(sizes)]

Interval == Nat \X Nat
Below(x, y) == x[1] + x[2] <= y[1]
Disjoint(x, y) == x[2] = 0 \/ y[2] = 0 \/ Below(x, y) \/ Below(y, x)
SameBytes(x, y) == x = y \/ (x[2] = 0 /\ y[2] = 0)

\* What a decoder returns for r[off : off+len], and for no bytes (nil).
Slice(off, len) == <<off, len>>
Nothing == <<0, 0>>
SliceIf(cond, off, len) == IF cond THEN Slice(off, len) ELSE Nothing

\* The same where off and len have 16 bits, so that off+len is computed in 16
\* bits too: beyond them the bound is below off and slicing fails, which a
\* negative length stands for. `base' is where r begins.
Slice16(base, off, len) == <<base + off, ((off + len) % U16) - off>>

\* Contexts of a packet, each aligned to 8 bytes, behind a part that ends at
\* `from': the bytes they take, and the offset the header gives of them.
Contexts(from, cs) ==
  IF cs = <<>> THEN Nothing
  ELSE <<Starts(from, cs, 8)[1], Ends(from, cs, 8) - Starts(from, cs, 8)[1]>>

ContextsOffset(from, cs) == IF cs = <<>> THEN 0 ELSE Starts(from, cs, 8)[1] + 64

\* Nothing in the repository decodes the structure.
NoDecoder == [f \in {} |-> Nothing]

\* A structure of which neither the encoder nor the decoder knows more than a
\* StructureSize.
Bare(n) == [size |-> n, enc |-> [StructureSize |-> <<0, 2>>],
            dec |-> [StructureSize |-> <<0, 2>>], valid |-> n >= 2]
===============================================================================
