--------------------------- MODULE MCHistograms ---------------------------
(* Small cubes of floats of three bits: values of both signs and of very   *)
(* different sizes, all one value, or none finite; bounds that fall        *)
(* between two floats, narrow to one float or span more than a float; and  *)
(* the requests that are refused.                                          *)
EXTENDS Histograms

MCFloats == (0 .. 8) \cup {10, 12, 14, 16, 20, 24, 28}
Side == 4
Depth == 3
Points == (0 .. Side - 1) \X (0 .. Side - 1) \X (0 .. Depth - 1)

Signed(f, negative) == IF negative THEN -f ELSE f
Spread == [p \in Points |->
             IF (p[1] + p[2] + p[3]) % 5 = 4 THEN NonFinite
             ELSE Signed(CHOOSE f \in MCFloats :
                           Cardinality({g \in MCFloats : g < f}) = (5 * p[1] + 3 * p[2] + 7 * p[3] * p[1]) % 16,
                         (p[2] + p[3]) % 3 = 1)]
Rising == [p \in Points |->
             CHOOSE f \in MCFloats :
               Cardinality({g \in MCFloats : g < f}) = (p[1] + 2 * p[2] + 3 * p[3]) % 16]
Flat == [p \in Points |-> IF p[1] = 1 THEN NonFinite ELSE 16]
Blank == [p \in Points |-> NonFinite]

ARequest(pixels, chunk_u, chunk_v, chunk_z, afford) ==
    [cube |-> FALSE, sink |-> TRUE, bins |-> 3, lower |-> -7, upper |-> 21,
     provisional |-> 0, sample |-> 1, u |-> [length |-> Side, chunk |-> chunk_u],
     v |-> [length |-> Side, chunk |-> chunk_v], spectral |-> [start |-> 0, stride |-> 1, chunk |-> chunk_z],
     count |-> Depth, chunks_per_read |-> afford, hint |-> 0, pixels |-> pixels]
ACube(pixels, chunk_u, chunk_v, chunk_z, afford, sample) ==
    [ARequest(pixels, chunk_u, chunk_v, chunk_z, afford) EXCEPT !.cube = TRUE, !.sample = sample]

PlaneRequests ==
    {[ARequest(pixels, 2, chunk, 2, afford) EXCEPT !.lower = range[1], !.upper = range[2], !.bins = bins] :
       pixels \in {Spread, Rising}, chunk \in {2, 3}, afford \in {0, 4}, bins \in {1, 3},
       range \in {<<-7, 21>>, <<16, 17>>, <<-28, 28>>, <<3, 19>>}}
    \cup {[ARequest(Spread, 4, 4, 1, 1) EXCEPT !.hint = 1],
          [ARequest(Rising, 3, 2, 2, 2) EXCEPT !.count = 2, !.spectral.start = 0, !.spectral.stride = 2]}

CubeRequests ==
    {[ACube(pixels, 2, chunk, 2, afford, sample) EXCEPT !.provisional = provisional, !.bins = bins] :
       pixels \in {Spread, Rising, Flat, Blank}, chunk \in {2, 4}, afford \in {0, 2},
       sample \in {1, 2}, provisional \in {0, 1}, bins \in {3, 6}}

RefusedRequests ==
    {[ARequest(Flat, 2, 2, 2, 1) EXCEPT !.bins = 0],
     [ARequest(Flat, 2, 2, 2, 1) EXCEPT !.bins = MaxBins + 1],
     [ARequest(Flat, 2, 2, 2, 1) EXCEPT !.lower = 21],
     [ARequest(Flat, 2, 2, 2, 1) EXCEPT !.upper = 40],
     [ARequest(Flat, 2, 2, 2, 1) EXCEPT !.sink = FALSE],
     [ACube(Flat, 2, 2, 2, 1, 0) EXCEPT !.bins = 2]}

MCRequests == PlaneRequests \cup CubeRequests \cup RefusedRequests
===========================================================================
