------------------------- MODULE MCSpectralReduce -------------------------
(* Small images and region sets, on either axis order: solid, diagonal,    *)
(* fragmented and empty rasters, overlapping regions, and the requests     *)
(* that are refused.                                                       *)
EXTENDS SpectralReduce

Width == 5
Height == 4
Channels == 3

(* Values of every sign, repeated and not, with pixels that are not finite. *)
MCPixels == [p \in (0 .. Width - 1) \X (0 .. Height - 1) \X (0 .. Channels - 1) |->
               IF (p[1] + 2 * p[2] + p[3]) % 5 = 0 THEN NonFinite
               ELSE ((7 * p[1] + 3 * p[2] * p[2] + 4 * p[3]) % 9) - 4]

AnImage(swap, chunk_u, chunk_v, chunk_z) ==
    [plane |-> [width |-> Width, height |-> Height], channels |-> Channels,
     polarizations |-> None, times |-> 1, swap_spatial |-> swap,
     chunk_u |-> chunk_u, chunk_v |-> chunk_v, chunk_z |-> chunk_z, pixels |-> MCPixels]

ABox(x, y, width, height) ==
    [x_start |-> x, y_start |-> y, width |-> width, height |-> height,
     mask |-> NoMask, mask_size |-> 0]
ARaster(x, y, width, height, Byte_(_, _)) ==
    [ABox(x, y, width, height) EXCEPT
       !.mask = [k \in 1 .. width * height |-> Byte_((k - 1) % width, (k - 1) \div width)],
       !.mask_size = width * height]
Bit(b) == IF b THEN 1 ELSE 0

Diagonal == ARaster(0, 0, 4, 4, LAMBDA x, y : Bit(x = y))
Hollow == ARaster(1, 0, 4, 3, LAMBDA x, y : IF x \in {1, 2} /\ y = 1 THEN 0 ELSE x + y + 1)
Checkered == ARaster(0, 0, 5, 4, LAMBDA x, y : (x + y) % 2)
Corners == ARaster(0, 0, 5, 4, LAMBDA x, y : Bit(x \in {0, 4} /\ y \in {0, 3}))
Nothing == ARaster(1, 1, 2, 2, LAMBDA x, y : 0)
OnePixel == ABox(2, 2, 1, 1)     \* not finite at the second channel
Solid == ABox(1, 0, 4, 4)

RegionSets == {<<Diagonal>>, <<Hollow, OnePixel>>, <<Checkered>>, <<Solid, Diagonal>>,
               <<Corners, Nothing>>, <<Nothing>>}

RefusedSets == {<<>>, <<Solid, Solid, Solid>>, <<ABox(1, 1, 0, 2)>>, <<ABox(3, 0, 3, 1)>>,
                <<ABox(0, 4, 1, 1)>>, <<[Diagonal EXCEPT !.height = 3]>>,
                <<[Solid EXCEPT !.mask_size = 4]>>}

Statistics == ToSet(StatisticOrder)
Planes(start, count, stride, polarization) ==
    [start |-> start, count |-> count, stride |-> stride, polarization |-> polarization, time |-> 0]
ARequest(image, regions_, planes, statistics, afford, hint) ==
    [image |-> image, regions |-> regions_, planes |-> planes, statistics |-> statistics,
     chunks_per_read |-> afford, hint |-> hint, sink |-> TRUE]

MCRequests ==
    {ARequest(AnImage(swap, chunk, 2, 2), set, Planes(0, 3, 1, 0), Statistics, afford, 0) :
       swap \in BOOLEAN, chunk \in {2, 3}, set \in RegionSets, afford \in {0, 2, 4}}
    \cup
    {ARequest(AnImage(TRUE, 1, 2, 1), <<Hollow, OnePixel>>, Planes(1, 2, 1, 0), statistics, 3, hint) :
       statistics \in {{"sum_sq_dev"}, {"min", "nan_count"}}, hint \in {0, 1}}
    \cup
    {ARequest(AnImage(FALSE, 2, 2, 2), set, Planes(0, 3, 1, 0), {"sum"}, 2, 0) : set \in RefusedSets}
    \cup
    {ARequest(AnImage(FALSE, 2, 2, 2), <<Solid>>, planes, {"sum"}, 2, 0) :
       planes \in {Planes(3, 1, 1, 0), Planes(1, 2, 2, 0), Planes(0, 1, 1, 1)}}
    \cup
    {ARequest(AnImage(FALSE, 1, 1, 2), <<Checkered, Solid>>, Planes(0, 1, 1, 0), {"sum"}, 2, 0),
     ARequest(AnImage(FALSE, 2, 2, 2), <<Solid>>, Planes(0, 1, 1, 0), {}, 2, 0),
     [ARequest(AnImage(FALSE, 2, 2, 2), <<Solid>>, Planes(0, 1, 1, 0), {"sum"}, 2, 0)
        EXCEPT !.sink = FALSE]}
=============================================================================
