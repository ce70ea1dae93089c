----------------------------- MODULE MCWorkPool -----------------------------
(* Small pools for TLC.  Callers are model values; a Run's task count, the  *)
(* order of steps, spurious wake-ups, throwing bodies and a refused thread  *)
(* are all left open.                                                       *)
EXTENDS WorkPool, TLC
=============================================================================
