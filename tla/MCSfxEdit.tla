------------------------------ MODULE MCSfxEdit ------------------------------
(* A square and the noise channel, a window of one position.                 *)
EXTENDS SfxEdit

MCOffered == [c \in {1, 4} |-> IF c = 1 THEN <<2>> ELSE <<0, 1>>]

At(p, l, f, m) == [pos |-> p, length |-> l, freq |-> f, mode |-> m]

MCDefault == [c \in {1, 4} |-> At(0, 3, 1, 2)]

Rec(c, n) == [position |-> n.pos, length |-> n.length, channel |-> c, freq |-> n.freq, mode |-> n.mode]

MCFiles ==
    {[size |-> 2, records |-> <<Rec(1, At(0, 4, 0, 2)), Rec(1, At(1, 1, 1, 2))>>],
     [size |-> 3, records |-> <<Rec(1, At(-1, 4, 0, 2)), Rec(4, At(2, -6, 0, 1)), Rec(4, At(2, 2, 0, 0))>>],
     [size |-> 2, records |-> <<Rec(1, At(0, 1, 0, 2))>>],
     [size |-> 1, records |-> <<Rec(5, At(0, 1, 0, 2))>>],
     [size |-> -1, records |-> <<>>]}
=============================================================================
