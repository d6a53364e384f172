-------------------------------- MODULE Pixels --------------------------------
(***************************************************************************)
(* The frames of src/one/Editors/GFXEdit.cpp: a frame is a square of       *)
(* Stride x Stride colours, of which the editor shows and edits the upper  *)
(* left Size x Size.  The array index (y)*256+(x) of the code is the pair  *)
(* <<x, y>>.                                                               *)
(***************************************************************************)
EXTENDS Integers

CONSTANTS
    Stride,   \* side of the array of a frame: 256
    Colours   \* what GetColor can return

ASSUME StrideAssumption == Stride \in Nat \ {0}

Square(size) == (0 .. size - 1) \X (0 .. size - 1)

Frame == [Square(Stride) -> Colours]

Right(p) == <<p[1] + 1, p[2]>>
Left(p) == <<p[1] - 1, p[2]>>
Below(p) == <<p[1], p[2] + 1>>
Above(p) == <<p[1], p[2] - 1>>

Neighbours(p) == {Right(p), Left(p), Below(p), Above(p)}

\* The pixels of a square that have the colour of pixel p.
SameColour(f, size, p) == {q \in Square(size) : f[q] = f[p]}

\* A set that no step between neighbours of one colour leaves.
Closed(S, f, size, p) ==
    \A q \in S : \A n \in Neighbours(q) : n \in SameColour(f, size, p) => n \in S

\* The sets of pixels around p that a fill may not leave.  Their intersection is
\* what "the area of one colour around p" means.
Areas(f, size, p) == {S \in SUBSET SameColour(f, size, p) : p \in S /\ Closed(S, f, size, p)}

AreaOf(f, size, p) == {q \in SameColour(f, size, p) : \A S \in Areas(f, size, p) : q \in S}

\* The frame with that area in the colour.
Filled(f, size, p, colour) ==
    LET area == AreaOf(f, size, p)
    IN  [q \in Square(Stride) |-> IF q \in area THEN colour ELSE f[q]]
=============================================================================
