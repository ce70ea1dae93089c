------------------------------ MODULE MCPieces ------------------------------
(* Images of three axes with every phase of range and chunk on two of them. *)
EXTENDS Pieces

ARange(start, count, stride) == [start |-> start, count |-> count, stride |-> stride]
ARead(prefetch, axes3, chunk, flag_chunk, budget, size, watching, apply_mask) ==
    [prefetch |-> prefetch, axes |-> axes3, length |-> <<4, 6, 3>>, chunk |-> chunk,
     flag_chunk |-> flag_chunk, budget |-> budget, size |-> size, watching |-> watching,
     apply_mask |-> apply_mask]

XRanges == {ARange(0, 2, 1), ARange(1, 2, 2)}
YRanges == {ARange(0, 6, 1), ARange(1, 4, 1), ARange(0, 3, 2), ARange(1, 2, 4)}
ZRanges == {ARange(1, 1, 1), ARange(0, 3, 1)}
Requests == {<<x, y, z>> : x \in XRanges, y \in YRanges, z \in ZRanges}

OrdinaryReads ==
    {ARead(FALSE, r, <<2, 2, 1>>, <<2, 3, 1>>, budget, size, watching, apply_mask) :
       r \in Requests, budget \in {0, 8, 40}, size \in {6, 36}, watching \in BOOLEAN,
       apply_mask \in BOOLEAN}
Prefetches ==
    {ARead(TRUE, r, chunk, <<2, 3, 2>>, budget, 0, FALSE, apply_mask) :
       r \in Requests, chunk \in {<<2, 2, 1>>, <<1, 4, 1>>}, budget \in {0, 8, 24},
       apply_mask \in BOOLEAN}
MCReads == OrdinaryReads \cup Prefetches
=============================================================================
