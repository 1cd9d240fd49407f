--------------------------- MODULE MCMovingSprite ---------------------------
(***************************************************************************)
(* Module of the model-checking runs of MovingSprite.                      *)
(***************************************************************************)
EXTENDS MovingSprite

(* Along a row or a column, in every direction; the target may be too near *)
(* to the border.                                                          *)
MCPaths ==
    {p \in (0 .. H_RES - WIDTH) \X (0 .. V_RES - HEIGHT) \X (0..H_RES) \X (0..V_RES) :
        p[1] = p[3] \/ p[2] = p[4]}

MCSpeeds == -2..3
=============================================================================
