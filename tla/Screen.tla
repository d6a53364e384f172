-------------------------------- MODULE Screen --------------------------------
(***************************************************************************)
(* src/one/Core/Graphics.cpp, Screen::DrawBlock: one call, from its        *)
(* arguments to its return, one round of a loop at a time.  The overloads  *)
(* without settings or palette are calls with the settings that change     *)
(* nothing.  buffer[D2D3(x, y, 256)] is buffer[<<x, y>>] here.             *)
(***************************************************************************)
EXTENDS Integers

CONSTANTS
    Width,      \* side of the screen: 256
    Sides,      \* sides of blocks
    Places,     \* coordinates a script passes
    Warps,      \* what a ScreenWarp may hold
    Blocks,     \* Blocks[s] is the set of blocks of side s
    Screens,    \* what the buffer may hold before the call
    Colours,
    Keys,       \* transparent colours a script passes
    ReColor,    \* the palette's colour for a colour
    Fade        \* CalcFade's colour for a colour

Pixels == (0 .. Width - 1) \X (0 .. Width - 1)

Square(s) == (0 .. s - 1) \X (0 .. s - 1)

ASSUME WidthAssumption == Width \in Nat \ {0}

ASSUME ArgumentsAssumption ==
    /\ Sides \subseteq Nat \ {0}
    /\ Places \subseteq Int
    /\ Warps \subseteq [0 .. Width - 1 -> Int]
    /\ \A s \in Sides : Blocks[s] \subseteq [Square(s) -> Colours]

ASSUME ColoursAssumption ==
    /\ Screens \subseteq [Pixels -> Colours]
    /\ ReColor \in [Colours -> Colours]
    /\ Fade \in [Colours -> Colours]

VARIABLES
    buffer,
    x, y, sx, s, dx, dy, mx,  \* the locals
    pc,                       \* "row", "pixel": the loop tests; "done"
    \* the arguments
    block, warp, settings, x0, y0,
    \* history
    old                       \* the buffer before the call

arguments == <<block, warp, settings, x0, y0, s, old>>
vars == <<buffer, x, y, sx, dx, dy, mx, pc, arguments>>

Settings == [transparency : Keys, flipX : 0 .. 1, flipY : 0 .. 1, rotateCW : 0 .. 1, rotateCCW : 0 .. 1]

-----------------------------------------------------------------------------
(* Where a pixel of the picture lies in the block *)

D2D3(cx, cy, side) == side * cy + cx

Mirror(v, side, flip) == IF flip = 1 THEN side - 1 - v ELSE v

\* Mutant: turning right takes the old row after it was overwritten.
RotateSwapped(px, py, side, cW, cCW) ==
    IF cW = 1 /\ cCW = 0 THEN <<py, py>>
    ELSE IF cCW = 1 /\ cW = 0 THEN <<side - 1 - py, px>>
    ELSE <<px, py>>

Rotate(px, py, side, cW, cCW) ==
    IF cW = 1 /\ cCW = 0 THEN <<py, side - 1 - px>>
    ELSE IF cCW = 1 /\ cW = 0 THEN <<side - 1 - py, px>>
    ELSE <<px, py>>

\* D2D3Trans, as a pair.
Source(px, py, side, t) ==
    Rotate(Mirror(px, side, t.flipX), Mirror(py, side, t.flipY), side, t.rotateCW, t.rotateCCW)

-----------------------------------------------------------------------------
(* The call *)

AtLeast0(v) == IF v < 0 THEN 0 ELSE v

\* The part of the block that lies left of or above the screen.
Hidden(v) == IF v < 0 THEN -v ELSE 0

NothingToDraw == x0 > Width - 1 \/ y0 > Width - 1 \/ Hidden(x0) >= s \/ Hidden(y0) >= s

Init ==
    /\ s \in Sides /\ block \in Blocks[s]
    /\ warp \in Warps /\ settings \in Settings
    /\ x0 \in Places /\ y0 \in Places
    /\ buffer \in Screens /\ old = buffer
    /\ x = AtLeast0(x0) /\ sx = Hidden(x0)
    /\ y = AtLeast0(y0) /\ dy = Hidden(y0)
    /\ dx = 0 /\ mx = 0
    /\ pc = IF NothingToDraw THEN "done" ELSE "row"

Row ==
    /\ pc = "row" /\ dy < s /\ y < Width
    /\ mx' = x + warp[y]
    /\ dx' = sx
    /\ pc' = "pixel"
    /\ UNCHANGED <<buffer, x, y, sx, dy, arguments>>

LastRow ==
    /\ pc = "row" /\ ~(dy < s /\ y < Width)
    /\ pc' = "done"
    /\ UNCHANGED <<buffer, x, y, sx, dx, dy, mx, arguments>>

Colour == ReColor[block[Source(dx, dy, s, settings)]]

\* Mutant: a row that is shifted out to the left is not tested.
OnScreenAlways == TRUE

\* The loop has tested the right edge.
OnScreen == mx >= 0

Draws == OnScreen /\ Colour # settings.transparency

Pixel ==
    /\ pc = "pixel" /\ dx < s /\ mx < Width
    /\ buffer' = IF Draws THEN [buffer EXCEPT ![<<mx, y>>] = Fade[Colour]] ELSE buffer
    /\ mx' = mx + 1
    /\ dx' = dx + 1
    /\ UNCHANGED <<x, y, sx, dy, pc, arguments>>

EndOfRow ==
    /\ pc = "pixel" /\ ~(dx < s /\ mx < Width)
    /\ y' = y + 1
    /\ dy' = dy + 1
    /\ pc' = "row"
    /\ UNCHANGED <<buffer, x, sx, dx, mx, arguments>>

Next == Row \/ LastRow \/ Pixel \/ EndOfRow

Spec == Init /\ [][Next]_vars

-----------------------------------------------------------------------------
(* What a call promises *)

RotatedCW(b) == [p \in Square(s) |-> b[<<p[2], s - 1 - p[1]>>]]

RotatedCCW(b) == [p \in Square(s) |-> b[<<s - 1 - p[2], p[1]>>]]

FlippedX(b) == [p \in Square(s) |-> b[<<s - 1 - p[1], p[2]>>]]

FlippedY(b) == [p \in Square(s) |-> b[<<p[1], s - 1 - p[2]>>]]

\* The block as the settings show it: turned, then mirrored.
Shown ==
    LET cw == IF settings.rotateCW = 1 THEN RotatedCW(block) ELSE block
        ccw == IF settings.rotateCCW = 1 THEN RotatedCCW(cw) ELSE cw
        fx == IF settings.flipX = 1 THEN FlippedX(ccw) ELSE ccw
    IN  IF settings.flipY = 1 THEN FlippedY(fx) ELSE fx

\* The pixel of the block that belongs on a pixel of the screen.
Under(p) == <<p[1] - x0 - warp[p[2]], p[2] - y0>>

\* The block is cut at the left edge before its rows are shifted, and a block
\* right of the screen is not drawn, however far a row is shifted.
Covers(p) == x0 < Width /\ Under(p) \in Square(s) /\ Under(p)[1] >= Hidden(x0)

\* The buffer the call must leave.
Expected(p) ==
    IF Covers(p) /\ ReColor[Shown[Under(p)]] # settings.transparency
    THEN Fade[ReColor[Shown[Under(p)]]] ELSE old[p]

\* At every place, warp, turn and size, also far outside the screen, the call
\* leaves the block where it belongs, pixel by pixel, and nothing else changed.
DrawnWell == pc = "done" => \A p \in Pixels : buffer[p] = Expected(p)

\* Every access of the loops is inside its array: a row of warp.offset, a pixel
\* of the block, a pixel of the buffer.
IndexSafe ==
    /\ pc = "row" /\ dy < s /\ y < Width => y \in 0 .. Width - 1
    /\ pc = "pixel" /\ dx < s /\ mx < Width /\ OnScreen =>
          LET q == Source(dx, dy, s, settings)
          IN  /\ D2D3(q[1], q[2], s) \in 0 .. s * s - 1
              /\ D2D3(mx, y, Width) \in 0 .. Width * Width - 1
=============================================================================
