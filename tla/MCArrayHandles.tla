-------------------------- MODULE MCArrayHandles --------------------------
(* Contexts enough for two stores and a pool that outlives the first, or    *)
(* two pools, and rewrites between and during the reads.                    *)
EXTENDS ArrayHandles, TLC

Symmetry == Permutations(Readers)
=============================================================================
