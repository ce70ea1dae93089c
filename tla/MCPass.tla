------------------------------- MODULE MCPass -------------------------------
(* Plans small enough to walk, of every way a chunk and a stride can meet. *)
EXTENDS Pass

AnAxis(length, chunk) == [length |-> length, chunk |-> chunk]
Spectrum(start, stride, chunk) == [start |-> start, stride |-> stride, chunk |-> chunk]
APlan(u, v, sample, spectral, count, afford, budget, hint, in_blocks, plane, regions) ==
    [u |-> u, v |-> v, sample |-> sample, spectral |-> spectral, count |-> count,
     chunks_per_read |-> afford, budget_channels |-> budget, hint |-> hint,
     in_blocks |-> in_blocks, plane |-> plane, regions |-> regions]

(* Footprints as an occupancy cuts them: within the budget, or one chunk.   *)
Regions(afford) == {<<>>, <<1>>} \cup (IF afford >= 2 THEN {<<2, 1>>} ELSE {<<1, 1>>})

(* The spectrum: where it starts, its stride and its chunks, in every phase *)
(* of one another, with no plane to speak of.                               *)
SpectralPlans ==
    {APlan(AnAxis(1, 1), AnAxis(1, 1), 1, Spectrum(start, stride, chunk), count, afford,
           budget, hint, TRUE, FALSE, regions) :
       start \in {0, 1}, stride \in 1 .. 3, chunk \in {1, 2, 4}, count \in {1, 4, 6},
       afford \in {0, 2, 3}, budget \in {3, 8}, hint \in {0, 2},
       regions \in {<<>>, <<1, 1>>}}
    \cup
    {APlan(AnAxis(1, 1), AnAxis(1, 1), 1, Spectrum(1, 3, 4), 6, afford, 8, 0,
           TRUE, FALSE, regions) : afford \in {2}, regions \in Regions(2)}

(* The plane: its chunks, its sample and how much of it a read affords.     *)
PlanePlans ==
    {APlan(AnAxis(ul, uc), AnAxis(vl, vc), sample, Spectrum(1, 1, 2), 3, afford, 8, 0,
           in_blocks, TRUE, <<>>) :
       ul \in {1, 5, 6}, uc \in 1 .. 3, vl \in {4, 5}, vc \in 1 .. 3, sample \in 1 .. 3,
       afford \in {0, 2, 3, 5}, in_blocks \in BOOLEAN}

MCPlans == SpectralPlans \cup PlanePlans

(* Selections that begin, or step, out of phase with the chunks, where a    *)
(* read affords one chunk or two.                                           *)
OutOfPhasePlans ==
    {APlan(AnAxis(1, 1), AnAxis(1, 1), 1, Spectrum(start, stride, 4), 4, afford, 8, 0,
           FALSE, TRUE, <<>>) : start \in 0 .. 2, stride \in {1, 3}, afford \in {1, 2}}
=============================================================================
