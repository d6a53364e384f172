------------------------------- MODULE MCScreen -------------------------------
(* A screen of 3x3 pixels, blocks up to its size, rows shifted either way and *)
(* further than a block is wide.                                              *)
EXTENDS Screen

MCBlocks == [side \in 1 .. 3 |-> {[p \in Square(side) |-> p[1] + side * p[2]]}]

MCWarps == {[row \in 0 .. 2 |-> w[row + 1]] : w \in {<<0, 0, 0>>, <<2, 0, -1>>, <<-3, 1, 2>>}}

MCPlaces == -4 .. 4
MCColours == 0 .. 9
MCKeys == {-1, 5}

MCScreens == {[p \in Pixels |-> 9]}

MCReColor == [c \in 0 .. 9 |-> IF c < 9 THEN 8 - c ELSE c]
MCFade == [c \in 0 .. 9 |-> (c + 4) % 10]
=============================================================================
