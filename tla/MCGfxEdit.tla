------------------------------ MODULE MCGfxEdit ------------------------------
(* Frames of 2x2 pixels of which 1x1 or 2x2 are shown, at most two of them.   *)
EXTENDS GfxEdit

MCColours == {GetColor(c) : c \in {0, 255}}

MCJunk == {[p \in Square(2) |-> <<200, 13, 77>>]}

MCFiles ==
    {<<>>, <<1>>,
     <<0, 0, 255>>,
     <<1, 0, 0, 0>>,
     <<0, 1, 255, 0, 255>>,
     <<2, 0, 0, 0, 0>>,
     <<0, 2, 0, 0, 0, 0, 0, 0, 0, 0, 0>>,
     <<0, 0, 0, 255>>}
=============================================================================
