----------------------------- MODULE ScreenProofs -----------------------------
(* Theorems about Screen, for screens, blocks and coordinates of any size.    *)
EXTENDS Screen, TLAPS

TypeInv ==
    /\ buffer \in [Pixels -> Colours] /\ old \in [Pixels -> Colours]
    /\ s \in Nat \ {0} /\ block \in [Square(s) -> Colours]
    /\ warp \in [0 .. Width - 1 -> Int] /\ settings \in Settings
    /\ x0 \in Int /\ y0 \in Int
    /\ x \in Int /\ y \in Int /\ sx \in Int /\ dx \in Int /\ dy \in Int /\ mx \in Int
    /\ pc \in {"row", "pixel", "done"}

\* Where the loops are, in the block and on the screen.
PlaceInv ==
    pc # "done" =>
        /\ ~NothingToDraw
        /\ x = AtLeast0(x0) /\ sx = Hidden(x0)
        /\ y >= AtLeast0(y0) /\ dy = y - y0
        /\ pc = "pixel" =>
              /\ dy < s /\ y < Width
              /\ dx >= sx /\ dx = mx - warp[y] - x0

\* The pixels the loops have dealt with.
Passed(p) == p[2] < y \/ (p[2] = y /\ pc = "pixel" /\ p[1] < mx)

BufferInv ==
    \A p \in Pixels : buffer[p] = IF pc = "done" \/ Passed(p) THEN Expected(p) ELSE old[p]

IInv == TypeInv /\ PlaceInv /\ BufferInv

-----------------------------------------------------------------------------
(* Arithmetic of pixels *)

LEMMA FlatInside ==
    ASSUME NEW n \in Nat \ {0}, NEW p \in Square(n)
    PROVE  D2D3(p[1], p[2], n) \in 0 .. n * n - 1
<1>1. p[1] \in 0 .. n - 1 /\ p[2] \in 0 .. n - 1
  BY DEF Square
<1> DEFINE a == p[1]
           b == p[2]
<1>2. a \in Int /\ b \in Int /\ 0 <= a /\ a <= n - 1 /\ 0 <= b /\ b <= n - 1
  BY <1>1
<1> HIDE DEF a, b
<1>3. n * b \in Int /\ 0 <= n * b
  BY <1>2
<1>4. n * b <= n * (n - 1)
  BY <1>2
<1>5. n * (n - 1) = n * n - n /\ n * n \in Int
  OBVIOUS
<1>6. n * b + a \in 0 .. n * n - 1
  BY <1>2, <1>3, <1>4, <1>5
<1> QED
  BY <1>6 DEF D2D3, a, b

LEMMA SourceInside ==
    ASSUME NEW n \in Nat \ {0}, NEW a \in 0 .. n - 1, NEW b \in 0 .. n - 1, NEW t \in Settings
    PROVE  Source(a, b, n, t) \in Square(n)
<1>1. Mirror(a, n, t.flipX) \in 0 .. n - 1 /\ Mirror(b, n, t.flipY) \in 0 .. n - 1
  BY DEF Mirror
<1>2. ASSUME NEW c \in 0 .. n - 1, NEW d \in 0 .. n - 1
      PROVE  Rotate(c, d, n, t.rotateCW, t.rotateCCW) \in Square(n)
  <2>1. n - 1 - c \in 0 .. n - 1 /\ n - 1 - d \in 0 .. n - 1
    OBVIOUS
  <2> QED
    BY <2>1 DEF Rotate, Square
<1> QED
  BY <1>1, <1>2 DEF Source

\* The index arithmetic of D2D3Trans shows the block turned and mirrored.
LEMMA ShownIsSource ==
    ASSUME TypeInv, NEW p \in Square(s)
    PROVE  Shown[p] = block[Source(p[1], p[2], s, settings)]
<1> DEFINE cw == IF settings.rotateCW = 1 THEN RotatedCW(block) ELSE block
           ccw == IF settings.rotateCCW = 1 THEN RotatedCCW(cw) ELSE cw
           fx == IF settings.flipX = 1 THEN FlippedX(ccw) ELSE ccw
           back(q) == <<Mirror(q[1], s, settings.flipX), Mirror(q[2], s, settings.flipY)>>
<1>1. s \in Nat \ {0} /\ settings \in Settings
  BY DEF TypeInv
<1>2. \A q \in Square(s) : q[1] \in 0 .. s - 1 /\ q[2] \in 0 .. s - 1 /\ q = <<q[1], q[2]>>
  BY DEF Square
<1>3. \A a, b \in 0 .. s - 1 :
        <<a, b>> \in Square(s) /\ s - 1 - a \in 0 .. s - 1 /\ s - 1 - b \in 0 .. s - 1
  BY <1>1 DEF Square
<1>4. ASSUME NEW q \in Square(s)
      PROVE  ccw[q] = block[Rotate(q[1], q[2], s, settings.rotateCW, settings.rotateCCW)]
  <2>1. CASE settings.rotateCW = 1 /\ settings.rotateCCW = 1
    <3>1. ccw[q] = RotatedCW(block)[<<s - 1 - q[2], q[1]>>]
      BY <2>1, <1>2, <1>3 DEF RotatedCCW
    <3>2. RotatedCW(block)[<<s - 1 - q[2], q[1]>>] = block[<<q[1], s - 1 - (s - 1 - q[2])>>]
      BY <1>2, <1>3 DEF RotatedCW
    <3>3. s - 1 - (s - 1 - q[2]) = q[2]
      BY <1>1, <1>2
    <3>4. Rotate(q[1], q[2], s, settings.rotateCW, settings.rotateCCW) = <<q[1], q[2]>>
      BY <2>1 DEF Rotate
    <3> QED
      BY <3>1, <3>2, <3>3, <3>4
  <2>2. CASE settings.rotateCW = 1 /\ settings.rotateCCW # 1
    <3>1. ccw[q] = block[<<q[2], s - 1 - q[1]>>]
      BY <2>2 DEF RotatedCW
    <3>2. settings.rotateCCW = 0
      BY <2>2, <1>1 DEF Settings
    <3> QED
      BY <3>1, <3>2, <2>2 DEF Rotate
  <2>3. CASE settings.rotateCW # 1 /\ settings.rotateCCW = 1
    <3>1. ccw[q] = block[<<s - 1 - q[2], q[1]>>]
      BY <2>3 DEF RotatedCCW
    <3>2. settings.rotateCW = 0
      BY <2>3, <1>1 DEF Settings
    <3> QED
      BY <3>1, <3>2, <2>3 DEF Rotate
  <2>4. CASE settings.rotateCW # 1 /\ settings.rotateCCW # 1
    BY <2>4, <1>2 DEF Rotate
  <2> QED
    BY <2>1, <2>2, <2>3, <2>4
<1>5. \A q \in Square(s) : fx[q] = ccw[<<Mirror(q[1], s, settings.flipX), q[2]>>]
  BY <1>2 DEF FlippedX, Mirror
<1>6. Shown[p] = fx[<<p[1], Mirror(p[2], s, settings.flipY)>>]
  BY <1>2 DEF Shown, FlippedY, Mirror
<1>7. <<p[1], Mirror(p[2], s, settings.flipY)>> \in Square(s)
  BY <1>2, <1>3 DEF Mirror
<1>8. Shown[p] = ccw[back(p)]
  BY <1>5, <1>6, <1>7
<1>9. back(p) \in Square(s)
  BY <1>2, <1>3 DEF Mirror
<1> HIDE DEF ccw
<1>10. Shown[p] = block[Rotate(back(p)[1], back(p)[2], s, settings.rotateCW, settings.rotateCCW)]
  BY <1>4, <1>8, <1>9
<1> QED
  BY <1>10 DEF Source

-----------------------------------------------------------------------------
(* What is covered *)

LEMMA CoversBounds ==
    ASSUME TypeInv, NEW p \in Pixels
    PROVE  /\ p[1] \in 0 .. Width - 1 /\ p[2] \in 0 .. Width - 1 /\ p = <<p[1], p[2]>>
           /\ warp[p[2]] \in Int
           /\ Covers(p) <=> /\ x0 < Width
                            /\ Hidden(x0) <= p[1] - x0 - warp[p[2]] /\ p[1] - x0 - warp[p[2]] < s
                            /\ 0 <= p[2] - y0 /\ p[2] - y0 < s
<1>1. p[1] \in 0 .. Width - 1 /\ p[2] \in 0 .. Width - 1 /\ p = <<p[1], p[2]>>
  BY DEF Pixels
<1>2. warp[p[2]] \in Int /\ x0 \in Int /\ y0 \in Int /\ s \in Nat \ {0}
  BY <1>1 DEF TypeInv
<1>3. Hidden(x0) >= 0 /\ Hidden(x0) \in Int
  BY <1>2 DEF Hidden
<1> DEFINE a == p[1] - x0 - warp[p[2]]
           b == p[2] - y0
<1>4. a \in Int /\ b \in Int
  BY <1>1, <1>2, WidthAssumption
<1>5. Under(p) = <<a, b>>
  BY DEF Under
<1> HIDE DEF a, b
<1>6. <<a, b>> \in Square(s) <=> 0 <= a /\ a < s /\ 0 <= b /\ b < s
  BY <1>2, <1>4 DEF Square
<1>7. Covers(p) <=> x0 < Width /\ Hidden(x0) <= a /\ a < s /\ 0 <= b /\ b < s
  BY <1>2, <1>3, <1>4, <1>5, <1>6 DEF Covers
<1> QED
  BY <1>1, <1>2, <1>7 DEF a, b

\* The numbers of the state, without the rest of its type.
LEMMA Numbers ==
    ASSUME TypeInv
    PROVE  /\ x0 \in Int /\ y0 \in Int /\ x \in Int /\ y \in Int /\ sx \in Int
           /\ dx \in Int /\ dy \in Int /\ mx \in Int
           /\ s \in Nat \ {0} /\ Width \in Nat \ {0} /\ Hidden(x0) \in Int
  BY WidthAssumption DEF TypeInv, Hidden

LEMMA NothingCovered ==
    ASSUME TypeInv, NothingToDraw, NEW p \in Pixels
    PROVE  ~Covers(p)
<1> SUFFICES ASSUME Covers(p) PROVE FALSE
  OBVIOUS
<1> DEFINE a == p[1] - x0 - warp[p[2]]
<1>1. /\ x0 \in Int /\ y0 \in Int /\ s \in Nat /\ Width \in Nat
      /\ Hidden(x0) \in Int /\ Hidden(y0) \in Int
  BY WidthAssumption DEF TypeInv, Hidden
<1>2. /\ p[1] \in 0 .. Width - 1 /\ p[2] \in 0 .. Width - 1 /\ warp[p[2]] \in Int
      /\ x0 < Width /\ Hidden(x0) <= a /\ a < s /\ 0 <= p[2] - y0 /\ p[2] - y0 < s
  BY CoversBounds
<1>3. a \in Int
  BY <1>1, <1>2
<1> HIDE DEF a
<1>4. CASE x0 > Width - 1
  BY <1>1, <1>2, <1>4
<1>5. CASE y0 > Width - 1
  BY <1>1, <1>2, <1>5
<1>6. CASE Hidden(x0) >= s
  BY <1>1, <1>2, <1>3, <1>6
<1>7. CASE Hidden(y0) >= s
  BY <1>1, <1>2, <1>7 DEF Hidden
<1> QED
  BY <1>4, <1>5, <1>6, <1>7 DEF NothingToDraw

LEMMA NotCovered ==
    ASSUME NEW p, ~Covers(p)
    PROVE  Expected(p) = old[p]
BY DEF Expected

-----------------------------------------------------------------------------
(* The invariant *)

LEMMA InitEstablishes == Init => IInv
<1> SUFFICES ASSUME Init PROVE IInv
  OBVIOUS
<1>1. TypeInv
  <2>1. s \in Nat \ {0} /\ x0 \in Int /\ y0 \in Int
    BY ArgumentsAssumption DEF Init
  <2>2. warp \in [0 .. Width - 1 -> Int] /\ block \in [Square(s) -> Colours]
    BY ArgumentsAssumption DEF Init
  <2>3. buffer \in [Pixels -> Colours] /\ old = buffer
    BY ColoursAssumption DEF Init
  <2>4. /\ x \in Int /\ y \in Int /\ sx \in Int /\ dy \in Int /\ dx \in Int /\ mx \in Int
        /\ settings \in Settings /\ pc \in {"row", "pixel", "done"}
    BY <2>1 DEF Init, AtLeast0, Hidden
  <2> QED
    BY <2>1, <2>2, <2>3, <2>4 DEF TypeInv
<1>2. PlaceInv
  BY <1>1 DEF TypeInv, Init, PlaceInv, AtLeast0, Hidden
<1>3. ASSUME NEW p \in Pixels
      PROVE  buffer[p] = IF pc = "done" \/ Passed(p) THEN Expected(p) ELSE old[p]
  <2>1. CASE pc = "done"
    <3>1. NothingToDraw
      BY <2>1 DEF Init
    <3>2. ~Covers(p)
      BY <1>1, <3>1, NothingCovered
    <3> QED
      BY <2>1, <3>2, NotCovered DEF Init
  <2>2. CASE pc # "done"
    <3>1. Passed(p) => ~Covers(p)
      BY <1>1, <2>2, CoversBounds DEF Passed, Init, AtLeast0, TypeInv
    <3> QED
      BY <2>2, <3>1, NotCovered DEF Init
  <2> QED
    BY <2>1, <2>2
<1> QED
  BY <1>1, <1>2, <1>3 DEF IInv, BufferInv

LEMMA ArgumentsKept ==
    ASSUME UNCHANGED arguments
    PROVE  /\ block' = block /\ warp' = warp /\ settings' = settings /\ x0' = x0 /\ y0' = y0
           /\ s' = s /\ old' = old
           /\ NothingToDraw' = NothingToDraw
           /\ \A p : Expected(p)' = Expected(p)
  BY DEF arguments, NothingToDraw, Expected, Covers, Under, Shown, RotatedCW, RotatedCCW,
         FlippedX, FlippedY

LEMMA RowKeeps == IInv /\ Row => IInv'
<1> SUFFICES ASSUME IInv, Row PROVE IInv'
  OBVIOUS
<1> USE DEF IInv
<1>1. /\ pc = "row" /\ dy < s /\ y < Width /\ pc' = "pixel" /\ mx' = x + warp[y] /\ dx' = sx
      /\ buffer' = buffer /\ x' = x /\ y' = y /\ sx' = sx /\ dy' = dy
  BY DEF Row
<1>2. UNCHANGED arguments
  BY DEF Row
<1>3. y \in 0 .. Width - 1 /\ warp[y] \in Int
  BY <1>1, WidthAssumption DEF TypeInv, PlaceInv, AtLeast0
<1>4. TypeInv'
  BY <1>1, <1>2, <1>3, ArgumentsKept DEF TypeInv
<1>5. x - x0 = Hidden(x0)
  BY <1>1 DEF TypeInv, PlaceInv, AtLeast0, Hidden
<1>6. PlaceInv'
  BY <1>1, <1>2, <1>3, <1>5, ArgumentsKept DEF TypeInv, PlaceInv
<1>7. ASSUME NEW p \in Pixels, p[2] = y, p[1] < mx'
      PROVE  ~Covers(p)
  <2> SUFFICES ASSUME Covers(p) PROVE FALSE
    OBVIOUS
  <2>1. p[1] \in Int /\ Hidden(x0) <= p[1] - x0 - warp[y]
    BY <1>7, CoversBounds
  <2>2. p[1] < x + warp[y]
    BY <1>1, <1>7
  <2> QED
    BY <1>3, <1>5, <2>1, <2>2, Numbers
<1>8. BufferInv'
  BY <1>1, <1>2, <1>7, ArgumentsKept, NotCovered DEF BufferInv, Passed
<1> QED
  BY <1>4, <1>6, <1>8

LEMMA LastRowKeeps == IInv /\ LastRow => IInv'
<1> SUFFICES ASSUME IInv, LastRow PROVE IInv'
  OBVIOUS
<1> USE DEF IInv
<1>1. /\ pc = "row" /\ ~(dy < s /\ y < Width) /\ pc' = "done"
      /\ buffer' = buffer /\ x' = x /\ y' = y /\ sx' = sx /\ dy' = dy /\ dx' = dx /\ mx' = mx
  BY DEF LastRow
<1>2. UNCHANGED arguments
  BY DEF LastRow
<1>3. TypeInv'
  BY <1>1, <1>2, ArgumentsKept DEF TypeInv
<1>4. PlaceInv'
  BY <1>1 DEF PlaceInv
<1>5. ASSUME NEW p \in Pixels, ~Passed(p)
      PROVE  ~Covers(p)
  <2> SUFFICES ASSUME Covers(p) PROVE FALSE
    OBVIOUS
  <2>1. p[2] \in 0 .. Width - 1 /\ p[2] - y0 < s
    BY CoversBounds
  <2>2. p[2] >= y /\ dy = y - y0
    BY <1>1, <1>5, <2>1, Numbers DEF Passed, PlaceInv
  <2>3. dy >= s
    BY <1>1, <2>1, <2>2, Numbers
  <2> QED
    BY <2>1, <2>2, <2>3, Numbers
<1>6. BufferInv'
  BY <1>1, <1>2, <1>5, ArgumentsKept, NotCovered DEF BufferInv
<1> QED
  BY <1>3, <1>4, <1>6

LEMMA EndOfRowKeeps == IInv /\ EndOfRow => IInv'
<1> SUFFICES ASSUME IInv, EndOfRow PROVE IInv'
  OBVIOUS
<1> USE DEF IInv
<1>1. /\ pc = "pixel" /\ ~(dx < s /\ mx < Width) /\ pc' = "row" /\ y' = y + 1 /\ dy' = dy + 1
      /\ buffer' = buffer /\ x' = x /\ sx' = sx /\ dx' = dx /\ mx' = mx
  BY DEF EndOfRow
<1>2. UNCHANGED arguments
  BY DEF EndOfRow
<1>3. TypeInv'
  BY <1>1, <1>2, ArgumentsKept DEF TypeInv
<1>4. PlaceInv'
  BY <1>1, <1>2, ArgumentsKept DEF TypeInv, PlaceInv, AtLeast0
<1>5. ASSUME NEW p \in Pixels, p[2] = y, p[1] >= mx
      PROVE  ~Covers(p)
  <2> SUFFICES ASSUME Covers(p) PROVE FALSE
    OBVIOUS
  <2>1. p[1] \in 0 .. Width - 1 /\ warp[y] \in Int /\ p[1] - x0 - warp[y] < s
    BY <1>5, CoversBounds
  <2>2. dx >= s
    BY <1>1, <1>5, <2>1, Numbers
  <2>3. dx = mx - warp[y] - x0
    BY <1>1 DEF PlaceInv
  <2> QED
    BY <1>5, <2>1, <2>2, <2>3, Numbers
<1>6. ASSUME NEW p \in Pixels
      PROVE  Passed(p)' <=> Passed(p) \/ (p[2] = y /\ p[1] >= mx)
  <2>1. p[1] \in Int /\ p[2] \in Int
    BY DEF Pixels
  <2>2. p[2] < y + 1 <=> p[2] < y \/ p[2] = y
    BY <2>1, Numbers
  <2>3. p[1] >= mx <=> ~(p[1] < mx)
    BY <2>1, Numbers
  <2> QED
    BY <1>1, <2>2, <2>3 DEF Passed
<1>7. BufferInv'
  BY <1>1, <1>2, <1>5, <1>6, ArgumentsKept, NotCovered DEF BufferInv
<1> QED
  BY <1>3, <1>4, <1>7

\* A pixel the loops draw is one the block covers, in the colour expected.
LEMMA PixelExpected ==
    ASSUME IInv, pc = "pixel", dx < s, mx < Width, OnScreen
    PROVE  /\ <<mx, y>> \in Pixels
           /\ Colour \in Colours
           /\ Expected(<<mx, y>>) = IF Draws THEN Fade[Colour] ELSE old[<<mx, y>>]
<1> USE DEF IInv
<1>1. /\ mx \in 0 .. Width - 1 /\ y \in 0 .. Width - 1
      /\ dx \in 0 .. s - 1 /\ dy \in 0 .. s - 1
  BY WidthAssumption DEF OnScreen, TypeInv, PlaceInv, AtLeast0, Hidden
<1>2. <<mx, y>> \in Pixels /\ <<dx, dy>> \in Square(s)
  BY <1>1 DEF Pixels, Square
<1>3. Under(<<mx, y>>) = <<dx, dy>>
  BY <1>1 DEF Under, TypeInv, PlaceInv
<1>4. Covers(<<mx, y>>)
  <2>1. x0 < Width /\ dx >= Hidden(x0)
    BY WidthAssumption DEF TypeInv, PlaceInv, NothingToDraw
  <2> QED
    BY <1>2, <1>3, <2>1 DEF Covers
<1>5. Shown[<<dx, dy>>] = block[Source(dx, dy, s, settings)]
  BY <1>2, ShownIsSource
<1>6. Source(dx, dy, s, settings) \in Square(s)
  BY <1>1, SourceInside DEF TypeInv
<1>7. Colour \in Colours
  BY <1>6, ColoursAssumption DEF Colour, TypeInv
<1> QED
  BY <1>2, <1>3, <1>4, <1>5, <1>7 DEF Expected, Draws, Colour

LEMMA PixelKeeps == IInv /\ Pixel => IInv'
<1> SUFFICES ASSUME IInv, Pixel PROVE IInv'
  OBVIOUS
<1> USE DEF IInv
<1>1. /\ pc = "pixel" /\ dx < s /\ mx < Width /\ pc' = pc /\ mx' = mx + 1 /\ dx' = dx + 1
      /\ buffer' = IF Draws THEN [buffer EXCEPT ![<<mx, y>>] = Fade[Colour]] ELSE buffer
      /\ x' = x /\ y' = y /\ sx' = sx /\ dy' = dy
  BY DEF Pixel
<1>2. UNCHANGED arguments
  BY DEF Pixel
<1>3. buffer' \in [Pixels -> Colours]
  <2>1. CASE Draws
    <3>1. <<mx, y>> \in Pixels /\ Fade[Colour] \in Colours
      BY <1>1, <2>1, PixelExpected, ColoursAssumption DEF Draws
    <3> QED
      BY <1>1, <2>1, <3>1 DEF TypeInv
  <2>2. CASE ~Draws
    BY <1>1, <2>2 DEF TypeInv
  <2> QED
    BY <2>1, <2>2
<1>4. TypeInv'
  BY <1>1, <1>2, <1>3, ArgumentsKept DEF TypeInv
<1>5. warp[y] \in Int
  BY <1>1, WidthAssumption DEF TypeInv, PlaceInv, AtLeast0
<1>6. PlaceInv'
  <2>1. dx' >= sx /\ dx' = mx' - warp[y] - x0
    <3>1. dx >= sx /\ dx = mx - warp[y] - x0
      BY <1>1 DEF PlaceInv
    <3>2. dx \in Int /\ sx \in Int /\ mx \in Int /\ x0 \in Int
      BY DEF TypeInv
    <3> QED
      BY <1>1, <1>5, <3>1, <3>2
  <2>2. ~NothingToDraw /\ x = AtLeast0(x0) /\ sx = Hidden(x0) /\ y >= AtLeast0(y0) /\ dy = y - y0
    BY <1>1 DEF PlaceInv
  <2>3. dy < s /\ y < Width
    BY <1>1 DEF PlaceInv
  <2> QED
    <3>1. /\ ~NothingToDraw' /\ x' = AtLeast0(x0') /\ sx' = Hidden(x0')
          /\ y' >= AtLeast0(y0') /\ dy' = y' - y0'
      BY <1>1, <1>2, <2>2, ArgumentsKept DEF AtLeast0, Hidden
    <3>2. dy' < s' /\ y' < Width /\ dx' >= sx' /\ dx' = mx' - warp'[y'] - x0'
      BY <1>1, <1>2, <2>1, <2>3, ArgumentsKept
    <3> QED
      BY <3>1, <3>2 DEF PlaceInv, AtLeast0, Hidden
<1>7. ASSUME NEW p \in Pixels
      PROVE  Passed(p)' <=> Passed(p) \/ p = <<mx, y>>
  <2>1. p = <<p[1], p[2]>> /\ p[1] \in Int /\ mx \in Int
    BY DEF Pixels, TypeInv
  <2>2. p = <<mx, y>> <=> p[1] = mx /\ p[2] = y
    BY <2>1
  <2>3. p[1] < mx + 1 <=> p[1] < mx \/ p[1] = mx
    BY <2>1
  <2> QED
    BY <1>1, <2>2, <2>3 DEF Passed
<1>8. ASSUME NEW p \in Pixels, p # <<mx, y>>
      PROVE  buffer'[p] = buffer[p]
  BY <1>1, <1>8 DEF TypeInv
<1>9. ASSUME <<mx, y>> \in Pixels
      PROVE  buffer'[<<mx, y>>] = Expected(<<mx, y>>)
  <2>1. OnScreen
    BY <1>9 DEF Pixels, OnScreen
  <2>2. ~Passed(<<mx, y>>)
    BY <1>1 DEF Passed, TypeInv
  <2>3. buffer[<<mx, y>>] = old[<<mx, y>>]
    BY <1>1, <1>9, <2>2 DEF BufferInv
  <2> QED
    BY <1>1, <1>9, <2>1, <2>3, PixelExpected DEF TypeInv
<1>10. BufferInv'
  BY <1>1, <1>2, <1>7, <1>8, <1>9, ArgumentsKept DEF BufferInv
<1> QED
  BY <1>4, <1>6, <1>10

LEMMA StutterKeeps == IInv /\ UNCHANGED vars => IInv'
<1> SUFFICES ASSUME IInv, UNCHANGED vars PROVE IInv'
  OBVIOUS
<1>1. UNCHANGED arguments
  BY DEF vars
<1> QED
  BY <1>1, ArgumentsKept DEF vars, IInv, TypeInv, PlaceInv, BufferInv, Passed

LEMMA Inductive == Spec => []IInv
<1>1. IInv /\ [Next]_vars => IInv'
  BY RowKeeps, LastRowKeeps, PixelKeeps, EndOfRowKeeps, StutterKeeps DEF Next
<1> QED
  BY InitEstablishes, <1>1, PTL DEF Spec

\* A finished DrawBlock has drawn the block, turned, mirrored, shifted row by
\* row and cut at the edges, and nothing else.
THEOREM DrawsTheBlock == Spec => []DrawnWell
<1>1. IInv => DrawnWell
  BY DEF IInv, BufferInv, DrawnWell
<1> QED
  BY Inductive, <1>1, PTL

\* DrawBlock reads and writes inside its arrays only.
THEOREM IndexIsSafe == Spec => []IndexSafe
<1>1. ASSUME IInv, pc = "row", dy < s, y < Width
      PROVE  y \in 0 .. Width - 1
  BY <1>1, WidthAssumption DEF IInv, TypeInv, PlaceInv, AtLeast0
<1>2. ASSUME IInv, pc = "pixel", dx < s, mx < Width, OnScreen,
             NEW q, q = Source(dx, dy, s, settings)
      PROVE  /\ D2D3(q[1], q[2], s) \in 0 .. s * s - 1
             /\ D2D3(mx, y, Width) \in 0 .. Width * Width - 1
  <2>1. dx \in 0 .. s - 1 /\ dy \in 0 .. s - 1
    BY <1>2 DEF IInv, TypeInv, PlaceInv, AtLeast0, Hidden
  <2>2. q \in Square(s)
    BY <1>2, <2>1, SourceInside DEF IInv, TypeInv
  <2>3. D2D3(q[1], q[2], s) \in 0 .. s * s - 1
    <3>1. s \in Nat \ {0}
      BY <1>2 DEF IInv, TypeInv
    <3> QED
      BY <2>2, <3>1, FlatInside
  <2>4. <<mx, y>> \in Square(Width)
    BY <1>2, PixelExpected DEF Pixels, Square
  <2> QED
    BY <2>3, <2>4, FlatInside, WidthAssumption
<1>3. IInv => IndexSafe
  BY <1>1, <1>2 DEF IndexSafe
<1> QED
  BY Inductive, <1>3, PTL
=============================================================================
