---------------------------- MODULE ChunkBlocks ----------------------------
(***************************************************************************)
(* Cutting a selection on chunk boundaries and counting the chunks it      *)
(* touches: src/src/chunk_blocks.h, and SampledRange of src/src/reduce/    *)
(* pass.h.                                                                 *)
(*                                                                         *)
(* A selection along an axis is [start, stride, chunk]: index i of it is   *)
(* element start + i * stride, and chunk is the axis' chunk length.  What  *)
(* is selected has been held to the image, so nothing here comes near the  *)
(* top of a 64-bit integer.                                                *)
(***************************************************************************)
EXTENDS Integers

Positive == Nat \ {0}
Selection == [start : Nat, stride : Positive, chunk : Positive]
AtLeastOne(n) == IF n < 1 THEN 1 ELSE n
Least(a, b) == IF a < b THEN a ELSE b
Greatest(a, b) == IF a < b THEN b ELSE a
RoundedUp(n, d) == n \div d + (IF n % d # 0 THEN 1 ELSE 0)

(* Never zero: a chunk is the least that can be decoded. *)
UnitsAffordable(chunks_per_read, chunks_per_unit) ==
    AtLeastOne(chunks_per_read \div AtLeastOne(chunks_per_unit))

ElementAt(axis, i) == axis.start + i * axis.stride
ChunkOf(axis, i) == ElementAt(axis, i) \div axis.chunk

(* The first index at or after an element of the axis. *)
FirstAt(axis, element) ==
    IF element <= axis.start THEN 0 ELSE RoundedUp(element - axis.start, axis.stride)

(* Faults, for checking that the properties notice them. *)
EndUnaligned(begin, desired, total, axis) == Least(begin + AtLeastOne(desired), total)
EndShrinksToNothing(begin, desired, total, axis) ==
    LET target == EndUnaligned(begin, desired, total, axis)
        first  == FirstAt(axis, ChunkOf(axis, target) * axis.chunk)
    IN  IF target = total \/ ChunkOf(axis, target - 1) # ChunkOf(axis, target)
        THEN target ELSE IF first >= begin THEN first ELSE target
SpannedAsDivided(axis, begin, end) == RoundedUp((end - begin) * axis.stride, axis.chunk)

(* The end of a block that begins at begin and would like to be desired     *)
(* long, moved onto a chunk boundary: down to the start of the chunk it     *)
(* ends in, or, of a block that lies in one chunk, up to that chunk's end.  *)
AlignedBlockEnd(begin, desired, total, axis) ==
    LET target == Least(begin + AtLeastOne(desired), total)
        first  == FirstAt(axis, ChunkOf(axis, target) * axis.chunk)
        next   == FirstAt(axis, (ChunkOf(axis, target) + 1) * axis.chunk)
    IN  IF target = total \/ ChunkOf(axis, target - 1) # ChunkOf(axis, target) THEN target
        ELSE IF first > begin THEN first
        ELSE Least(next, total)

(* Where a cut falls between chunks, or at the end of what is cut. *)
CutAt(axis, i, total) == i = total \/ ChunkOf(axis, i - 1) # ChunkOf(axis, i)

(* How many chunks the indices [begin, end) touch.  A stride of a chunk or  *)
(* more puts each in a chunk of its own; below that none is stepped over.   *)
ChunksTouched(axis, begin, end) ==
    IF end = begin THEN 0
    ELSE IF axis.stride >= axis.chunk THEN end - begin
    ELSE ChunkOf(axis, end - 1) - ChunkOf(axis, begin) + 1

(* How many chunks of an axis a sample of every stride-th element is in,    *)
(* and the index-th of them.                                                *)
SampledChunks(length, chunk, stride) ==
    LET samples == (length - 1) \div stride + 1
    IN  IF length = 0 THEN 0
        ELSE IF stride < chunk THEN ((samples - 1) * stride) \div chunk + 1
        ELSE samples
SampledChunk(index, chunk, stride) ==
    IF stride < chunk THEN index ELSE (index * stride) \div chunk

(* The samples in [begin, end). *)
SampledRange(begin, end, stride) ==
    LET first == RoundedUp(begin, stride)
        last  == RoundedUp(end, stride)
    IN  [start |-> first * stride, count |-> IF last > first THEN last - first ELSE 0]
=============================================================================
