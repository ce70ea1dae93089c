---------------------------- MODULE MCReadAhead ----------------------------
(* Two images whose chunks are one and two channels deep, so that their     *)
(* runs change at different frames.  The frames ahead go on, go back, stay, *)
(* jump, leave an image out, or are fewer or more than are looked at.       *)
EXTENDS ReadAhead, TLC

MCImages == {0, 1}
MCDepth == (0 :> 1) @@ (1 :> 2)

Both(a, b) == (0 :> a) @@ (1 :> b)
MCShown == {Both(0, 0), Both(1, 1), Both(2, 0), Both(NoPlane, 2)}
MCAhead ==
    {<<>>, <<Both(2, 2)>>, <<Both(1, 1), Both(2, 2)>>, <<Both(1, 1), Both(0, 0)>>,
     <<Both(NoPlane, 0), Both(2, 2)>>, <<Both(0, NoPlane), Both(0, NoPlane), Both(2, 2)>>}
=============================================================================
