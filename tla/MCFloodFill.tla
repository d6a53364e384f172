----------------------------- MODULE MCFloodFill -----------------------------
(* Every picture of 3x3 pixels in two colours, in an array one pixel wider on *)
(* two sides, of either colour.                                               *)
EXTENDS FloodFill

MCPictures ==
    {[p \in Square(4) |-> IF p \in Square(3) THEN inner[p] ELSE outer] :
        inner \in [Square(3) -> {"black", "white"}], outer \in {"black", "white"}}
=============================================================================
