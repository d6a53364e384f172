---------------------------- MODULE GfxEditProofs ----------------------------
(* Theorems about the graphics editor's fill, its commands and its file, and  *)
(* about its palette, for pictures of every size up to 256 and any foreign    *)
(* files.                                                                     *)
EXTENDS GfxEdit, FloodFill, SequenceTheorems, TLAPS

Picture == [Square(Stride) -> Rgb]

GfxTypes ==
    /\ frames \in Seq(Picture)
    /\ maxFrame \in 0 .. MaxFrames - 1
    /\ currFrame \in 0 .. maxFrame
    /\ sizeAmmount \in Sizes
    /\ copyBuffer \in Picture
    /\ state \in {"open", "error", "wild"}
    /\ file \in Seq(Byte)

\* There are no frames at all after a load has failed.
CountInv == GfxTypes /\ FramesCounted /\ (state # "open" => frames = <<>>)

\* What the file holds if the editor wrote it.
FileInv ==
    origin = "save" /\ saved.frames # <<>> =>
        /\ saved.size \in Sizes /\ Len(saved.frames) \in 1 .. MaxFrames
        /\ Len(file) = 2 + Len(saved.frames) * (saved.size * saved.size)
        /\ file[1] = Len(saved.frames) - 1 /\ file[2] = saved.size - 1
        /\ DOMAIN saved.frames = 1 .. Len(saved.frames)
        /\ \A i \in 1 .. Len(saved.frames) : \A p \in Square(saved.size) :
              file[2 + (i - 1) * (saved.size * saved.size) + saved.size * p[2] + p[1] + 1]
                  = Get8Bit(saved.frames[i][p])

GfxInv == CountInv /\ FileInv

-----------------------------------------------------------------------------
(* The palette *)

LEMMA ThreeBits == \A n \in 0 .. 7 : Nearest(Level3(n), 7) = n
  BY DEF Nearest, Level3

LEMMA TwoBits == \A n \in 0 .. 3 : Nearest(Level2(n), 3) = n
  BY DEF Nearest, Level2

\* Saving a picture of palette colours and loading it again changes no colour:
\* Get8Bit undoes GetColor on every byte.
THEOREM PaletteIsExact == PaletteExact
<1> SUFFICES ASSUME NEW c \in Byte
             PROVE  Get8Bit(GetColor(c)) = c
  BY DEF PaletteExact
<1> DEFINE r == c \div 32
           g == (c \div 4) % 8
           b == c % 4
<1>1. r \in 0 .. 7 /\ g \in 0 .. 7 /\ b \in 0 .. 3 /\ c = 32 * r + 4 * g + b
  BY DEF Byte
<1> HIDE DEF r, g, b
<1>2. GetColor(c) = <<Level3(r), Level3(g), Level2(b)>>
  BY DEF GetColor, r, g, b
<1>3. /\ Nearest(Level3(r), 7) = r
      /\ Nearest(Level3(g), 7) = g
      /\ Nearest(Level2(b), 3) = b
  BY <1>1, ThreeBits, TwoBits
<1> QED
  BY <1>1, <1>2, <1>3 DEF Get8Bit

LEMMA ColourTypes == \A c \in Byte : GetColor(c) \in Rgb
<1> SUFFICES ASSUME NEW c \in Byte PROVE GetColor(c) \in Rgb
  OBVIOUS
<1>1. c \div 32 \in 0 .. 7 /\ (c \div 4) % 8 \in 0 .. 7 /\ c % 4 \in 0 .. 3
  BY DEF Byte
<1>2. \A n \in 0 .. 7 : Level3(n) \in 0 .. 255
  BY DEF Level3
<1>3. \A n \in 0 .. 3 : Level2(n) \in 0 .. 255
  BY DEF Level2
<1> QED
  BY <1>1, <1>2, <1>3 DEF GetColor, Rgb

LEMMA ByteTypes == \A rgb \in Rgb : Get8Bit(rgb) \in Byte
<1> SUFFICES ASSUME NEW rgb \in Rgb PROVE Get8Bit(rgb) \in Byte
  OBVIOUS
<1>1. rgb[1] \in 0 .. 255 /\ rgb[2] \in 0 .. 255 /\ rgb[3] \in 0 .. 255
  BY DEF Rgb
<1>2. \A v \in 0 .. 255 : Nearest(v, 7) \in 0 .. 7
  BY DEF Nearest
<1>3. \A v \in 0 .. 255 : Nearest(v, 3) \in 0 .. 3
  BY DEF Nearest
<1> DEFINE r == Nearest(rgb[1], 7)
           g == Nearest(rgb[2], 7)
           b == Nearest(rgb[3], 3)
<1>4. r \in 0 .. 7 /\ g \in 0 .. 7 /\ b \in 0 .. 3
  BY <1>1, <1>2, <1>3
<1>5. Get8Bit(rgb) = 32 * r + 4 * g + b
  BY DEF Get8Bit
<1> HIDE DEF r, g, b
<1> QED
  BY <1>4, <1>5 DEF Byte

LEMMA EmptyIsPicture == Empty \in Picture
  BY ColourTypes DEF Empty, Black, Picture, Byte

-----------------------------------------------------------------------------
(* Sizes, and the places of pixels in a file *)

LEMMA SizeTypes ==
    /\ \A n \in Sizes : n \in Nat /\ n >= MinSize /\ n <= Stride /\ n >= 1 /\ n <= 256
    /\ \A n \in Sizes : 2 * n <= Stride => 2 * n \in Sizes
    /\ MinSize \in Sizes /\ Stride \in Nat
<1>1. MinSize \in Nat /\ MinSize >= 1 /\ MaxSize = Stride /\ Stride \in Sizes /\ Stride <= 256 /\ Stride \in Nat
  BY SizesAssumption, StrideAssumption
<1>2. \A n \in Sizes : n \in Int /\ n >= MinSize /\ n <= Stride
  BY <1>1 DEF Sizes
<1>3. PICK k \in {1, 2, 4, 8, 16, 32} : Stride = MinSize * k
  BY <1>1 DEF Sizes
<1>4. ASSUME NEW n \in Sizes, 2 * n <= Stride
      PROVE  2 * n \in Sizes
  <2>1. PICK j \in {1, 2, 4, 8, 16, 32} : n = MinSize * j
    BY DEF Sizes
  <2>2. 2 * n \in MinSize .. MaxSize
    BY <1>1, <1>2, <1>4
  <2>3. CASE j \in {1, 2, 4, 8, 16}
    <3>1. 2 * n = MinSize * (2 * j) /\ 2 * j \in {1, 2, 4, 8, 16, 32}
      BY <1>1, <2>1, <2>3
    <3> QED
      BY <2>2, <3>1 DEF Sizes
  <2>4. CASE j = 32
    <3>1. 2 * n = MinSize * 64
      BY <1>1, <2>1, <2>4
    <3>2. Stride < MinSize * 64
      BY <1>1, <1>3
    <3> QED
      BY <1>1, <1>4, <3>1, <3>2
  <2> QED
    BY <2>1, <2>3, <2>4
<1>5. MinSize \in Sizes
  <2>1. MinSize \in MinSize .. MaxSize
    BY <1>1, <1>2
  <2>2. \E x \in {1, 2, 4, 8, 16, 32} : MinSize = MinSize * x
    <3>1. MinSize = MinSize * 1
      BY <1>1
    <3> QED
      BY <3>1
  <2> QED
    BY <2>1, <2>2 DEF Sizes
<1> QED
  BY <1>1, <1>2, <1>4, <1>5

\* A quotient and a remainder are the only ones.
LEMMA DivMod ==
    ASSUME NEW d \in Nat \ {0}, NEW q \in Nat, NEW r \in 0 .. d - 1
    PROVE  (q * d + r) \div d = q /\ (q * d + r) % d = r
<1> DEFINE a == q * d + r
           x == a \div d
           y == a % d
<1>1. a \in Nat
  <2>1. q * d \in Nat
    OBVIOUS
  <2> QED
    BY <2>1
<1>2. x \in Int /\ y \in 0 .. d - 1 /\ a = x * d + y
  BY <1>1
<1>3. (x - q) * d = r - y
  BY <1>2
<1> HIDE DEF a, x, y
<1>4. x = q
  <2>1. ASSUME x > q PROVE FALSE
    <3>1. x - q >= 1 /\ x - q \in Nat
      BY <1>2, <2>1
    <3>2. (x - q) * d >= d
      BY <3>1
    <3> QED
      BY <1>2, <1>3, <3>2
  <2>2. ASSUME x < q PROVE FALSE
    <3>1. q - x >= 1 /\ q - x \in Nat
      BY <1>2, <2>2
    <3>2. (q - x) * d >= d /\ (q - x) * d = - ((x - q) * d)
      BY <1>2, <3>1
    <3> QED
      BY <1>2, <1>3, <3>2
  <2> QED
    BY <1>2, <2>1, <2>2
<1>5. y = r
  BY <1>2, <1>3, <1>4
<1> QED
  BY <1>4, <1>5 DEF a, x, y

\* A product of two natural numbers is one, and grows with its factors.
LEMMA Products ==
    /\ \A a, b \in Nat : a * b \in Nat
    /\ \A a, b, c \in Nat : a <= b => a * c <= b * c
  OBVIOUS

\* The number of a pixel within a picture, and of a picture's pixel in the file.
LEMMA PixelNumber ==
    ASSUME NEW n \in Nat \ {0}, NEW p \in Square(n)
    PROVE  /\ n * p[2] + p[1] \in 0 .. n * n - 1
           /\ PixelOf(n * p[2] + p[1], n) = p
<1>1. p[1] \in 0 .. n - 1 /\ p[2] \in 0 .. n - 1 /\ p = <<p[1], p[2]>>
  BY DEF Square
<1> DEFINE x == p[1]
           y == p[2]
<1>2. x \in 0 .. n - 1 /\ y \in 0 .. n - 1
  BY <1>1
<1> HIDE DEF x, y
<1>3. n * y = y * n /\ y * n \in Nat
  BY <1>2
<1>4. (y * n + x) \div n = y /\ (y * n + x) % n = x
  BY <1>2, DivMod
<1>5. y * n <= (n - 1) * n
  BY <1>2, Products
<1>6. (n - 1) * n = n * n - n /\ n * n \in Nat
  OBVIOUS
<1>7. n * y + x \in 0 .. n * n - 1
  BY <1>2, <1>3, <1>5, <1>6
<1>8. PixelOf(n * y + x, n) = <<x, y>>
  BY <1>3, <1>4 DEF PixelOf
<1> QED
  BY <1>1, <1>7, <1>8 DEF x, y

\* Rows of n things: the row and the place in it of the j-th.
LEMMA RowAndPlace ==
    ASSUME NEW n \in Nat \ {0}, NEW m \in Nat, NEW j \in 0 .. m * n - 1
    PROVE  j \div n \in 0 .. m - 1 /\ j % n \in 0 .. n - 1
<1>1. j \in Nat /\ j < m * n /\ m * n \in Nat
  OBVIOUS
<1> DEFINE x == j % n
           y == j \div n
<1>2. x \in 0 .. n - 1 /\ y \in Int /\ j = y * n + x
  BY <1>1
<1> HIDE DEF x, y
<1>3. y >= 0
  <2> SUFFICES ASSUME y <= -1 PROVE FALSE
    BY <1>2
  <2>1. (-1 - y) * n >= 0
    BY <1>2
  <2>2. y * n <= -n
    BY <1>2, <2>1
  <2> QED
    BY <1>1, <1>2, <2>2
<1>4. y < m
  <2> SUFFICES ASSUME y >= m PROVE FALSE
    BY <1>2
  <2>1. m * n <= y * n
    BY <1>2, <1>3, Products
  <2> QED
    BY <1>1, <1>2, <2>1
<1> QED
  BY <1>2, <1>3, <1>4 DEF x, y

LEMMA PixelsOf ==
    ASSUME NEW n \in Nat \ {0}, NEW k \in 0 .. n * n - 1
    PROVE  PixelOf(k, n) \in Square(n)
  BY RowAndPlace DEF PixelOf, Square

\* The place of a pixel of the i-th of m pictures in the file, from 0.
LEMMA FilePlace ==
    ASSUME NEW n \in Nat \ {0}, NEW m \in Nat, NEW i \in 1 .. m, NEW q \in 0 .. n * n - 1
    PROVE  /\ (i - 1) * (n * n) + q \in 0 .. m * (n * n) - 1
           /\ ((i - 1) * (n * n) + q) \div (n * n) = i - 1
           /\ ((i - 1) * (n * n) + q) % (n * n) = q
<1> DEFINE N == n * n
<1>1. N \in Nat \ {0}
  <2>1. N \in Nat /\ 1 * n <= n * n
    BY Products
  <2> QED
    BY <2>1
<1> HIDE DEF N
<1>2. q \in 0 .. N - 1
  BY DEF N
<1>3. (i - 1) * N <= (m - 1) * N /\ (i - 1) * N \in Nat
  BY <1>1, Products
<1>4. (m - 1) * N = m * N - N /\ m * N \in Nat
  BY <1>1
<1>5. (i - 1) * N + q \in 0 .. m * N - 1
  BY <1>1, <1>2, <1>3, <1>4
<1>6. ((i - 1) * N + q) \div N = i - 1 /\ ((i - 1) * N + q) % N = q
  BY <1>1, <1>2, DivMod
<1> QED
  BY <1>5, <1>6 DEF N

-----------------------------------------------------------------------------
(* Inserting and removing *)

LEMMA Removed ==
    ASSUME NEW S, NEW s \in Seq(S), NEW i \in 1 .. Len(s)
    PROVE  /\ RemoveAt(s, i) \in Seq(S) /\ Len(RemoveAt(s, i)) = Len(s) - 1
           /\ \A j \in 1 .. Len(s) - 1 : RemoveAt(s, i)[j] = IF j < i THEN s[j] ELSE s[j + 1]
<1> DEFINE a == SubSeq(s, 1, i - 1)
           b == SubSeq(s, i + 1, Len(s))
<1>1. Len(s) \in Nat /\ \A j \in 1 .. Len(s) : s[j] \in S
  BY LenProperties, ElementOfSeq
<1>2. a \in Seq(S) /\ Len(a) = i - 1 /\ \A j \in 1 .. i - 1 : a[j] = s[j]
  <2>1. \A j \in 1 .. i - 1 : s[j] \in S
    BY <1>1
  <2>2. /\ a \in Seq(S) /\ Len(a) = IF 1 <= i - 1 THEN (i - 1) - 1 + 1 ELSE 0
        /\ \A j \in 1 .. (i - 1) - 1 + 1 : a[j] = s[1 + j - 1]
    BY <1>1, <2>1, SubSeqProperties
  <2> HIDE DEF a
  <2> QED
    BY <1>1, <2>2
<1>3. b \in Seq(S) /\ Len(b) = Len(s) - i /\ \A j \in 1 .. Len(s) - i : b[j] = s[j + i]
  <2>1. \A j \in i + 1 .. Len(s) : s[j] \in S
    BY <1>1
  <2>2. /\ b \in Seq(S) /\ Len(b) = IF i + 1 <= Len(s) THEN Len(s) - (i + 1) + 1 ELSE 0
        /\ \A j \in 1 .. Len(s) - (i + 1) + 1 : b[j] = s[i + 1 + j - 1]
    BY <1>1, <2>1, SubSeqProperties
  <2> HIDE DEF b
  <2>3. \A j \in 1 .. Len(s) - i : i + 1 + j - 1 = j + i /\ j \in 1 .. Len(s) - (i + 1) + 1
    BY <1>1
  <2>4. \A j \in 1 .. Len(s) - i : b[j] = s[j + i]
    BY <2>2, <2>3
  <2>5. Len(b) = Len(s) - i
    BY <1>1, <2>2
  <2> QED
    BY <2>2, <2>4, <2>5
<1>4. RemoveAt(s, i) = a \o b
  BY DEF RemoveAt
<1> HIDE DEF a, b
<1>5. /\ a \o b \in Seq(S) /\ Len(a \o b) = Len(a) + Len(b)
      /\ \A j \in 1 .. Len(a) + Len(b) : (a \o b)[j] = IF j <= Len(a) THEN a[j] ELSE b[j - Len(a)]
  BY <1>2, <1>3, ConcatProperties
<1>6. Len(a) + Len(b) = Len(s) - 1
  BY <1>1, <1>2, <1>3
<1>7. ASSUME NEW j \in 1 .. Len(s) - 1
      PROVE  (a \o b)[j] = IF j < i THEN s[j] ELSE s[j + 1]
  <2>1. CASE j < i
    BY <1>1, <1>2, <1>5, <1>6, <2>1
  <2>2. CASE j >= i
    <3>1. (a \o b)[j] = b[j - (i - 1)]
      BY <1>1, <1>2, <1>5, <1>6, <2>2
    <3>2. j - (i - 1) \in 1 .. Len(s) - i /\ (j - (i - 1)) + i = j + 1
      BY <1>1, <2>2
    <3> QED
      BY <1>3, <2>2, <3>1, <3>2
  <2>3. j < i \/ (j >= i /\ ~(j < i))
    BY <1>1
  <2> QED
    BY <2>1, <2>2, <2>3
<1> QED
  BY <1>4, <1>5, <1>6, <1>7

LEMMA Inserted ==
    ASSUME NEW S, NEW s \in Seq(S), NEW e \in S, NEW i \in 1 .. Len(s) + 1
    PROVE  /\ InsertAt(s, i, e) \in Seq(S) /\ Len(InsertAt(s, i, e)) = Len(s) + 1
           /\ \A j \in 1 .. Len(s) + 1 :
                 InsertAt(s, i, e)[j] = IF j < i THEN s[j] ELSE IF j = i THEN e ELSE s[j - 1]
<1> DEFINE a == SubSeq(s, 1, i - 1)
           c == <<e>>
           b == SubSeq(s, i, Len(s))
           ac == a \o c
<1>1. Len(s) \in Nat /\ \A j \in 1 .. Len(s) : s[j] \in S
  BY LenProperties, ElementOfSeq
<1>2. a \in Seq(S) /\ Len(a) = i - 1 /\ \A j \in 1 .. i - 1 : a[j] = s[j]
  <2>1. \A j \in 1 .. i - 1 : s[j] \in S
    BY <1>1
  <2>2. /\ a \in Seq(S) /\ Len(a) = IF 1 <= i - 1 THEN (i - 1) - 1 + 1 ELSE 0
        /\ \A j \in 1 .. (i - 1) - 1 + 1 : a[j] = s[1 + j - 1]
    BY <1>1, <2>1, SubSeqProperties
  <2> HIDE DEF a
  <2> QED
    BY <1>1, <2>2
<1>3. b \in Seq(S) /\ Len(b) = Len(s) - i + 1 /\ \A j \in 1 .. Len(s) - i + 1 : b[j] = s[j + i - 1]
  <2>1. \A j \in i .. Len(s) : s[j] \in S
    BY <1>1
  <2>2. /\ b \in Seq(S) /\ Len(b) = IF i <= Len(s) THEN Len(s) - i + 1 ELSE 0
        /\ \A j \in 1 .. Len(s) - i + 1 : b[j] = s[i + j - 1]
    BY <1>1, <2>1, SubSeqProperties
  <2> HIDE DEF b
  <2>3. Len(b) = Len(s) - i + 1
    BY <1>1, <2>2
  <2>4. ASSUME NEW j \in 1 .. Len(s) - i + 1 PROVE b[j] = s[j + i - 1]
    <3>1. i + j - 1 = j + i - 1
      BY <1>1
    <3> QED
      BY <2>2, <3>1
  <2> QED
    BY <2>2, <2>3, <2>4
<1>4. c \in Seq(S) /\ Len(c) = 1 /\ c[1] = e
  OBVIOUS
<1>5. InsertAt(s, i, e) = ac \o b
  BY DEF InsertAt
<1> HIDE DEF a, b, c
<1>6. /\ ac \in Seq(S) /\ Len(ac) = i
      /\ \A j \in 1 .. i : ac[j] = IF j < i THEN s[j] ELSE e
  <2>1. /\ ac \in Seq(S) /\ Len(ac) = Len(a) + Len(c)
        /\ \A j \in 1 .. Len(a) + Len(c) : ac[j] = IF j <= Len(a) THEN a[j] ELSE c[j - Len(a)]
    BY <1>2, <1>4, ConcatProperties
  <2> HIDE DEF ac
  <2>2. Len(a) + Len(c) = i
    BY <1>1, <1>2, <1>4
  <2>3. ASSUME NEW j \in 1 .. i PROVE ac[j] = IF j < i THEN s[j] ELSE e
    <3>1. CASE j < i
      BY <1>1, <1>2, <2>1, <2>2, <3>1
    <3>2. CASE j = i
      <4>1. ~(i <= Len(a)) /\ i \in 1 .. Len(a) + Len(c)
        BY <1>1, <1>2, <2>2
      <4>2. ac[i] = c[i - Len(a)]
        BY <2>1, <4>1
      <4>3. i - Len(a) = 1
        BY <1>1, <1>2
      <4> QED
        BY <1>4, <3>2, <4>2, <4>3
    <3> QED
      BY <1>1, <3>1, <3>2
  <2> QED
    BY <2>1, <2>2, <2>3
<1> HIDE DEF ac
<1>7. /\ ac \o b \in Seq(S) /\ Len(ac \o b) = Len(ac) + Len(b)
      /\ \A j \in 1 .. Len(ac) + Len(b) : (ac \o b)[j] = IF j <= Len(ac) THEN ac[j] ELSE b[j - Len(ac)]
  BY <1>3, <1>6, ConcatProperties
<1>8. Len(ac) + Len(b) = Len(s) + 1
  BY <1>1, <1>3, <1>6
<1>9. ASSUME NEW j \in 1 .. Len(s) + 1
      PROVE  (ac \o b)[j] = IF j < i THEN s[j] ELSE IF j = i THEN e ELSE s[j - 1]
  <2>1. CASE j <= i
    BY <1>1, <1>6, <1>7, <1>8, <2>1
  <2>2. CASE j > i
    <3>1. (ac \o b)[j] = b[j - i]
      BY <1>1, <1>6, <1>7, <1>8, <2>2
    <3>2. j - i \in 1 .. Len(s) - i + 1 /\ (j - i) + i - 1 = j - 1
      BY <1>1, <2>2
    <3> QED
      BY <1>3, <2>2, <3>1, <3>2
  <2>3. j <= i \/ (j > i /\ ~(j < i) /\ j # i)
    BY <1>1
  <2> QED
    BY <2>1, <2>2, <2>3
<1> QED
  BY <1>5, <1>7, <1>8, <1>9

LEMMA InsertedIsRemoved ==
    ASSUME NEW S, NEW s \in Seq(S), NEW e \in S, NEW i \in 1 .. Len(s) + 1
    PROVE  RemoveAt(InsertAt(s, i, e), i) = s
<1> DEFINE t == InsertAt(s, i, e)
<1>1. /\ t \in Seq(S) /\ Len(t) = Len(s) + 1
      /\ \A j \in 1 .. Len(s) + 1 : t[j] = IF j < i THEN s[j] ELSE IF j = i THEN e ELSE s[j - 1]
  BY Inserted
<1> HIDE DEF t
<1>2. Len(s) \in Nat
  BY LenProperties
<1>3. /\ RemoveAt(t, i) \in Seq(S) /\ Len(RemoveAt(t, i)) = Len(t) - 1
      /\ \A j \in 1 .. Len(t) - 1 : RemoveAt(t, i)[j] = IF j < i THEN t[j] ELSE t[j + 1]
  BY <1>1, Removed
<1>4. Len(t) - 1 = Len(s)
  BY <1>1, <1>2
<1>5. ASSUME NEW j \in 1 .. Len(s) PROVE RemoveAt(t, i)[j] = s[j]
  <2>1. RemoveAt(t, i)[j] = IF j < i THEN t[j] ELSE t[j + 1]
    BY <1>3, <1>4
  <2>2. j \in 1 .. Len(s) + 1 /\ j + 1 \in 1 .. Len(s) + 1 /\ (j + 1) - 1 = j
    BY <1>2
  <2>3. j >= i => ~(j + 1 < i) /\ j + 1 # i
    BY <1>2
  <2>4. j < i => t[j] = s[j]
    BY <1>1, <2>2
  <2>5. ~(j + 1 < i) /\ j + 1 # i => t[j + 1] = s[j]
    BY <1>1, <2>2
  <2>6. j < i \/ (j >= i /\ ~(j < i))
    BY <1>2
  <2> QED
    BY <2>1, <2>3, <2>4, <2>5, <2>6
<1>6. RemoveAt(t, i) = s
  BY <1>3, <1>4, <1>5, SeqEqual
<1> QED
  BY <1>6 DEF t

LEMMA ChangedIsRemoved ==
    ASSUME NEW S, NEW s \in Seq(S), NEW e \in S, NEW i \in 1 .. Len(s)
    PROVE  RemoveAt([s EXCEPT ![i] = e], i) = RemoveAt(s, i)
<1> DEFINE t == [s EXCEPT ![i] = e]
           r == RemoveAt(s, i)
           q == RemoveAt(t, i)
<1>1. /\ t \in Seq(S) /\ Len(t) = Len(s)
      /\ \A j \in 1 .. Len(s) : t[j] = IF j = i THEN e ELSE s[j]
  BY ExceptSeq
<1> HIDE DEF t
<1>2. Len(s) \in Nat
  BY LenProperties
<1>3. /\ r \in Seq(S) /\ Len(r) = Len(s) - 1
      /\ \A j \in 1 .. Len(s) - 1 : r[j] = IF j < i THEN s[j] ELSE s[j + 1]
  BY Removed
<1>4. /\ q \in Seq(S) /\ Len(q) = Len(s) - 1
      /\ \A j \in 1 .. Len(s) - 1 : q[j] = IF j < i THEN t[j] ELSE t[j + 1]
  BY <1>1, Removed
<1> HIDE DEF r, q
<1>5. ASSUME NEW j \in 1 .. Len(r) PROVE q[j] = r[j]
  <2>1. j \in 1 .. Len(s) - 1 /\ j \in 1 .. Len(s) /\ j + 1 \in 1 .. Len(s) /\ i \in Int
    BY <1>2, <1>3
  <2>2. CASE j < i
    <3>1. q[j] = t[j] /\ r[j] = s[j] /\ j # i
      BY <1>3, <1>4, <2>1, <2>2
    <3>2. t[j] = s[j]
      BY <1>1, <2>1, <3>1
    <3> QED
      BY <3>1, <3>2
  <2>3. CASE ~(j < i)
    <3>1. q[j] = t[j + 1] /\ r[j] = s[j + 1] /\ j + 1 # i
      BY <1>3, <1>4, <2>1, <2>3
    <3>2. t[j + 1] = s[j + 1]
      BY <1>1, <2>1, <3>1
    <3> QED
      BY <3>1, <3>2
  <2> QED
    BY <2>2, <2>3
<1>6. Len(q) = Len(r)
  BY <1>3, <1>4
<1>7. q = r
  BY <1>3, <1>4, <1>5, <1>6, SeqEqual
<1> QED
  BY <1>7 DEF q, r, t

-----------------------------------------------------------------------------
(* The file *)

\* Save writes the frames one after the other, each pixel at its place.
LEMMA EncodingIs ==
    ASSUME GfxTypes
    PROVE  /\ Encoding \in Seq(Byte)
           /\ Len(Encoding) = 2 + Len(frames) * (sizeAmmount * sizeAmmount)
           /\ Encoding[1] = maxFrame /\ Encoding[2] = sizeAmmount - 1
           /\ \A i \in 1 .. Len(frames) : \A p \in Square(sizeAmmount) :
                 Encoding[2 + (i - 1) * (sizeAmmount * sizeAmmount) + sizeAmmount * p[2] + p[1] + 1]
                     = Get8Bit(frames[i][p])
<1> DEFINE n == sizeAmmount
           N == n * n
           m == Len(frames)
           byte(j) == Get8Bit(frames[j \div (n * n) + 1][PixelOf(j % (n * n), n)])
           h == <<maxFrame % 256, (n - 1) % 256>>
           body == [k \in 1 .. m * n * n |-> Get8Bit(frames[(k - 1) \div (n * n) + 1][PixelOf((k - 1) % (n * n), n)])]
<1>1. n \in Nat \ {0} /\ n <= 256 /\ n <= Stride /\ Stride \in Nat /\ m \in Nat
  BY SizeTypes, LenProperties DEF GfxTypes
<1>2. N \in Nat \ {0} /\ m * n * n = m * N /\ m * N \in Nat
  <2>1. N \in Nat /\ 1 * n <= n * n
    BY <1>1, Products
  <2>2. m * n * n = m * N
    BY <1>1
  <2> QED
    BY <1>1, <2>1, <2>2
<1>3. h \in Seq(Byte) /\ Len(h) = 2 /\ h[1] = maxFrame /\ h[2] = n - 1
  <2>1. maxFrame \in 0 .. 255 /\ n - 1 \in 0 .. 255
    BY <1>1, SizesAssumption DEF GfxTypes
  <2>2. maxFrame % 256 = maxFrame /\ (n - 1) % 256 = n - 1
    BY <2>1
  <2> QED
    BY <2>1, <2>2 DEF Byte
<1>4. ASSUME NEW j \in 0 .. m * N - 1
      PROVE  byte(j) \in Byte
  <2>1. j \div N + 1 \in 1 .. m /\ j % N \in 0 .. N - 1
    <3>1. j \div N \in 0 .. m - 1 /\ j % N \in 0 .. N - 1
      BY <1>1, <1>2, <1>4, RowAndPlace
    <3> HIDE DEF N
    <3> QED
      BY <1>1, <3>1
  <2>2. frames[j \div N + 1] \in Picture
    BY <2>1, ElementOfSeq DEF GfxTypes
  <2>3. PixelOf(j % N, n) \in Square(n)
    BY <1>1, <2>1, PixelsOf
  <2>4. PixelOf(j % N, n) \in Square(Stride)
    BY <1>1, <2>3 DEF Square
  <2>5. frames[j \div N + 1][PixelOf(j % N, n)] \in Rgb
    BY <2>2, <2>4 DEF Picture
  <2> QED
    BY <2>5, ByteTypes
<1> HIDE DEF N
<1>5. body \in Seq(Byte) /\ Len(body) = m * N /\ \A k \in 1 .. m * N : body[k] = byte(k - 1)
  <2>1. body = [k \in 1 .. m * N |-> byte(k - 1)]
    BY <1>2
  <2> HIDE DEF byte, body
  <2>2. \A k \in 1 .. m * N : byte(k - 1) \in Byte
    BY <1>2, <1>4
  <2>3. body \in [1 .. m * N -> Byte]
    BY <2>1, <2>2
  <2>4. body \in Seq(Byte)
    BY <1>2, <2>3
  <2>5. DOMAIN body = 1 .. m * N /\ Len(body) \in Nat /\ DOMAIN body = 1 .. Len(body)
    BY <2>1, <2>4, LenProperties
  <2> QED
    BY <1>2, <2>1, <2>4, <2>5
<1>6. Encoding = h \o body
  BY DEF Encoding
<1> HIDE DEF h, body
<1>7. /\ h \o body \in Seq(Byte) /\ Len(h \o body) = Len(h) + Len(body)
      /\ \A k \in 1 .. Len(h) + Len(body) : (h \o body)[k] = IF k <= Len(h) THEN h[k] ELSE body[k - Len(h)]
  BY <1>3, <1>5, ConcatProperties
<1>8. /\ Encoding \in Seq(Byte) /\ Len(Encoding) = 2 + m * N
      /\ Encoding[1] = maxFrame /\ Encoding[2] = n - 1
  BY <1>2, <1>3, <1>5, <1>6, <1>7
<1>9. ASSUME NEW i \in 1 .. m, NEW p \in Square(n)
      PROVE  Encoding[2 + (i - 1) * N + n * p[2] + p[1] + 1] = Get8Bit(frames[i][p])
  <2> DEFINE q == n * p[2] + p[1]
             j == (i - 1) * N + q
  <2>1. q \in 0 .. N - 1 /\ PixelOf(q, n) = p
    BY <1>1, PixelNumber DEF N
  <2>2. p[1] \in Nat /\ p[2] \in Nat /\ n * p[2] \in Nat /\ (i - 1) * N \in Nat
    BY <1>1, <1>2 DEF Square
  <2> HIDE DEF q
  <2>3. j \in 0 .. m * N - 1 /\ j \div N = i - 1 /\ j % N = q
    BY <1>1, <2>1, FilePlace DEF N
  <2>4. 2 + (i - 1) * N + n * p[2] + p[1] + 1 = 2 + j + 1
    <3> DEFINE u == (i - 1) * N
               v == n * p[2]
               w == p[1]
    <3>1. u \in Nat /\ v \in Nat /\ w \in Nat /\ j = u + (v + w)
      BY <2>2 DEF q
    <3> HIDE DEF u, v, w, j
    <3>2. 2 + u + v + w + 1 = 2 + j + 1
      BY <3>1
    <3> QED
      BY <3>2 DEF u, v, w
  <2> HIDE DEF j
  <2>5. byte(j) = Get8Bit(frames[i][p])
    BY <1>1, <2>1, <2>3 DEF N
  <2>6. body[j + 1] = byte(j)
    <3>1. j + 1 \in 1 .. m * N /\ (j + 1) - 1 = j
      BY <1>2, <2>3
    <3> HIDE DEF byte
    <3> QED
      BY <1>5, <3>1
  <2>7. (h \o body)[2 + j + 1] = body[j + 1]
    <3> DEFINE k == 2 + j + 1
    <3>1. k \in 1 .. Len(h) + Len(body) /\ ~(k <= Len(h)) /\ k - Len(h) = j + 1
      BY <1>2, <1>3, <1>5, <2>3
    <3> HIDE DEF k
    <3>2. (h \o body)[k] = body[k - Len(h)]
      BY <1>7, <3>1
    <3>3. (h \o body)[k] = body[j + 1]
      BY <3>1, <3>2
    <3> QED
      BY <3>3 DEF k
  <2> QED
    BY <1>6, <2>4, <2>5, <2>6, <2>7
<1> QED
  BY <1>8, <1>9 DEF N

\* A byte of the file for every pixel Load looks at.
LEMMA LoadedColours ==
    ASSUME file \in Seq(Byte), Loads(file), NEW i \in 1 .. file[1] + 1, NEW p \in Square(LoadSize)
    PROVE  GetColor(file[2 + ((i - 1) * LoadSize + p[2]) * LoadSize + p[1] + 1]) \in Rgb
<1> DEFINE n == LoadSize
           m == file[1] + 1
           q == n * p[2] + p[1]
           j == (i - 1) * (n * n) + q
<1>1. n \in Nat \ {0} /\ Len(file) \in Nat /\ Len(file) >= 2 + m * n * n
  BY SizeTypes, LenProperties DEF Loads, LoadSize
<1>2. file[1] \in Byte
  BY LenProperties, ElementOfSeq DEF Loads
<1>3. m \in Nat /\ m * n * n = m * (n * n) /\ i \in 1 .. m
  <2>1. m \in Nat /\ i \in 1 .. m
    <3>1. m \in Nat
      <4> DEFINE x == file[1]
      <4>1. x \in Byte
        BY <1>2
      <4> HIDE DEF x
      <4>2. x + 1 \in Nat
        BY <4>1 DEF Byte
      <4> QED
        BY <4>2 DEF x
    <3>2. i \in 1 .. m
      OBVIOUS
    <3> QED
      BY <3>1, <3>2
  <2> HIDE DEF m, n
  <2>2. m * n * n = m * (n * n)
    BY <1>1, <2>1
  <2> QED
    BY <2>1, <2>2
<1> HIDE DEF m, n
<1>4. q \in 0 .. n * n - 1
  BY <1>1, PixelNumber DEF n
<1>5. p[1] \in Nat /\ p[2] \in Nat /\ i - 1 \in Nat
  BY <1>1, <1>3 DEF Square, n
<1>6. j \in 0 .. m * (n * n) - 1
  BY <1>1, <1>3, <1>4, FilePlace
<1>7. 2 + ((i - 1) * n + p[2]) * n + p[1] + 1 = 2 + j + 1
  <2>1. ((i - 1) * n + p[2]) * n = (i - 1) * (n * n) + n * p[2]
    BY <1>1, <1>5
  <2>2. (i - 1) * (n * n) \in Nat /\ n * p[2] \in Nat
    BY <1>1, <1>5, Products
  <2> QED
    BY <1>5, <2>1, <2>2
<1> HIDE DEF j
<1>8. 2 + j + 1 \in 1 .. Len(file)
  <2>1. m * (n * n) \in Nat
    BY <1>1, <1>3, Products
  <2> QED
    BY <1>1, <1>3, <1>6, <2>1
<1>9. file[2 + j + 1] \in Byte
  BY <1>8, ElementOfSeq
<1> QED
  BY <1>7, <1>9, ColourTypes DEF n

-----------------------------------------------------------------------------
(* The counters *)

LEMMA CurrentIsPicture ==
    ASSUME CountInv
    PROVE  /\ HasFrame <=> state = "open"
           /\ state = "open" => currFrame + 1 \in 1 .. Len(frames) /\ Current \in Picture
<1>1. frames \in Seq(Picture) /\ currFrame \in 0 .. maxFrame /\ maxFrame \in Nat
  BY SizesAssumption DEF CountInv, GfxTypes
<1>2. DOMAIN frames = 1 .. Len(frames) /\ Len(frames) \in Nat
  BY <1>1, LenProperties
<1>3. state = "open" => currFrame + 1 \in 1 .. Len(frames)
  BY <1>1, <1>2 DEF CountInv, FramesCounted
<1>4. state = "open" => Current \in Picture
  BY <1>1, <1>3, ElementOfSeq DEF Current
<1>5. state # "open" => DOMAIN frames = {}
  BY DEF CountInv
<1> QED
  BY <1>2, <1>3, <1>4, <1>5 DEF HasFrame

\* The brushes, the flip and the paste change the frame on the screen only.
LEMMA PaintedCount ==
    ASSUME CountInv, HasFrame, NEW f \in Picture, WithCurrent(f),
           UNCHANGED <<maxFrame, currFrame, sizeAmmount, copyBuffer, state, file>>
    PROVE  CountInv'
<1>1. frames \in Seq(Picture) /\ currFrame + 1 \in 1 .. Len(frames) /\ state = "open"
  BY CurrentIsPicture DEF CountInv, GfxTypes
<1>2. PICK i \in 1 .. Len(frames) : i = currFrame + 1
  BY <1>1
<1>3. frames' = [frames EXCEPT ![i] = f]
  BY <1>2 DEF WithCurrent
<1>4. frames' \in Seq(Picture) /\ Len(frames') = Len(frames)
  BY <1>1, <1>3, ExceptSeq
<1> QED
  BY <1>1, <1>4 DEF CountInv, GfxTypes, FramesCounted

LEMMA StrokePaints ==
    ASSUME CountInv, Paint \/ Fill \/ FlipX \/ Paste
    PROVE  /\ HasFrame /\ UNCHANGED <<maxFrame, currFrame, sizeAmmount, copyBuffer, state, file>>
           /\ \E f \in Picture : WithCurrent(f)
<1>1. HasFrame
  BY DEF Paint, Fill, FlipX, Paste
<1>2. Current \in Picture /\ copyBuffer \in Picture /\ sizeAmmount \in Nat /\ sizeAmmount <= Stride /\ Stride \in Nat
  BY <1>1, CurrentIsPicture, SizeTypes DEF CountInv, GfxTypes
<1>3. UNCHANGED <<maxFrame, currFrame, sizeAmmount, copyBuffer, state, file>>
  BY DEF Paint, Fill, FlipX, Paste, Stroke, disk
<1>4. Square(sizeAmmount) \subseteq Square(Stride)
  BY <1>2 DEF Square
<1> DEFINE W(f) == WithCurrent(f)
<1>5. \E f \in Picture : W(f)
  <2>1. CASE Paint
    <3>1. PICK p \in Square(sizeAmmount), c \in Inks : W([Current EXCEPT ![p] = GetColor(c)])
      BY <2>1 DEF Paint
    <3>2. GetColor(c) \in Rgb
      BY ColourTypes, FilesAssumption
    <3>3. [Current EXCEPT ![p] = GetColor(c)] \in Picture
      BY <1>2, <3>2 DEF Picture
    <3> HIDE DEF W
    <3> QED
      BY <3>1, <3>3
  <2>2. CASE Fill
    <3>1. PICK p \in Square(sizeAmmount), c \in Inks :
              W(Filled(Current, sizeAmmount, p, GetColor(c)))
      BY <2>2 DEF Fill
    <3>2. GetColor(c) \in Rgb
      BY ColourTypes, FilesAssumption
    <3>3. Filled(Current, sizeAmmount, p, GetColor(c)) \in Picture
      BY <1>2, <3>2 DEF Picture, Filled
    <3> HIDE DEF W
    <3> QED
      BY <3>1, <3>3
  <2>3. CASE FlipX
    <3> DEFINE g == [p \in Square(Stride) |->
           IF p \in Square(sizeAmmount) THEN Current[<<sizeAmmount - 1 - p[1], p[2]>>] ELSE Current[p]]
    <3>1. W(g)
      BY <2>3 DEF FlipX
    <3>2. \A p \in Square(sizeAmmount) : <<sizeAmmount - 1 - p[1], p[2]>> \in Square(Stride)
      BY <1>2 DEF Square
    <3>3. g \in Picture
      BY <1>2, <3>2 DEF Picture
    <3> HIDE DEF W, g
    <3> QED
      BY <3>1, <3>3
  <2>4. CASE Paste
    BY <1>2, <2>4 DEF Paste
  <2> QED
    BY <2>1, <2>2, <2>3, <2>4
<1> QED
  BY <1>1, <1>3, <1>5

LEMMA StrokeCount ==
    ASSUME CountInv, Paint \/ Fill \/ FlipX \/ Paste
    PROVE  CountInv'
  BY StrokePaints, PaintedCount

LEMMA CopySizeTurnCount ==
    ASSUME CountInv, Copy \/ Size \/ Turn
    PROVE  CountInv'
<1>1. maxFrame \in Nat /\ currFrame \in 0 .. maxFrame /\ sizeAmmount \in Sizes
  BY SizesAssumption DEF CountInv, GfxTypes
<1>2. CASE Copy
  BY <1>2, CurrentIsPicture DEF Copy, CountInv, GfxTypes, FramesCounted, picture, disk
<1>3. CASE Size
  <2>1. (IF 2 * sizeAmmount > Stride THEN MinSize ELSE 2 * sizeAmmount) \in Sizes
    BY <1>1, SizeTypes
  <2>2. sizeAmmount' \in Sizes
    BY <1>3, <2>1 DEF Size
  <2> QED
    BY <1>3, <2>2 DEF Size, CountInv, GfxTypes, FramesCounted, disk
<1>4. CASE Turn
  <2>1. currFrame' \in 0 .. maxFrame
    BY <1>1, <1>4 DEF Turn, Previous, Following
  <2> QED
    BY <1>4, <2>1 DEF Turn, CountInv, GfxTypes, FramesCounted, disk
<1> QED
  BY <1>2, <1>3, <1>4

LEMMA InsertCount ==
    ASSUME CountInv, Insert
    PROVE  CountInv'
<1>1. HasFrame /\ maxFrame < MaxFrames - 1
  BY DEF Insert, Room
<1>2. /\ frames \in Seq(Picture) /\ Len(frames) \in Nat
      /\ state = "open" /\ Len(frames) = maxFrame + 1
      /\ maxFrame \in Nat /\ currFrame \in 0 .. maxFrame /\ MaxFrames \in Nat
  BY <1>1, CurrentIsPicture, SizesAssumption, LenProperties DEF CountInv, GfxTypes, FramesCounted
<1>3. PICK i \in 1 .. Len(frames) + 1 : i = currFrame + 2
  BY <1>2
<1>4. frames' = InsertAt(frames, i, Empty)
  BY <1>3 DEF Insert, Place
<1>5. frames' \in Seq(Picture) /\ Len(frames') = Len(frames) + 1
  BY <1>2, <1>4, Inserted, EmptyIsPicture
<1>6. maxFrame' = maxFrame + 1 /\ currFrame' = currFrame + 1
  BY DEF Insert
<1>7. maxFrame' \in 0 .. MaxFrames - 1 /\ currFrame' \in 0 .. maxFrame'
  BY <1>1, <1>2, <1>6
<1> QED
  BY <1>2, <1>5, <1>6, <1>7 DEF Insert, CountInv, GfxTypes, FramesCounted, disk

LEMMA EraseCount ==
    ASSUME CountInv, Erase
    PROVE  CountInv'
<1>1. HasFrame /\ maxFrame > 0
  BY DEF Erase
<1>2. /\ frames \in Seq(Picture) /\ Len(frames) \in Nat
      /\ state = "open" /\ Len(frames) = maxFrame + 1
      /\ maxFrame \in Nat /\ maxFrame < MaxFrames /\ currFrame \in 0 .. maxFrame /\ MaxFrames \in Nat
  BY <1>1, CurrentIsPicture, SizesAssumption, LenProperties DEF CountInv, GfxTypes, FramesCounted
<1>3. PICK i \in 1 .. Len(frames) : i = currFrame + 1
  BY <1>2
<1>4. frames' = RemoveAt(frames, i)
  BY <1>3 DEF Erase
<1>5. frames' \in Seq(Picture) /\ Len(frames') = Len(frames) - 1
  BY <1>2, <1>4, Removed
<1>6. maxFrame' = maxFrame - 1 /\ currFrame' = AfterErase
  BY DEF Erase
<1>7. maxFrame' \in 0 .. MaxFrames - 1 /\ currFrame' \in 0 .. maxFrame'
  BY <1>1, <1>2, <1>6 DEF AfterErase
<1> QED
  BY <1>2, <1>5, <1>6, <1>7 DEF Erase, CountInv, GfxTypes, FramesCounted, disk

LEMMA SaveCount ==
    ASSUME CountInv, Save
    PROVE  CountInv'
<1>1. file' \in Seq(Byte)
  BY EncodingIs DEF Save, CountInv
<1> QED
  BY <1>1 DEF Save, CountInv, GfxTypes, FramesCounted, picture

LEMMA LoadCount ==
    ASSUME CountInv, Load
    PROVE  CountInv'
<1>1. file \in Seq(Byte) /\ Loads(file)
  BY DEF CountInv, GfxTypes, Load
<1>2. file[1] \in 0 .. MaxFrames - 1
  <2> DEFINE x == file[1]
  <2>1. x \in Byte /\ x < MaxFrames
    BY <1>1, LenProperties, ElementOfSeq DEF Loads
  <2> HIDE DEF x
  <2>2. x \in 0 .. MaxFrames - 1
    BY <2>1, SizesAssumption DEF Byte
  <2> QED
    BY <2>2 DEF x
<1>3. LoadSize \in Sizes
  BY <1>1 DEF Loads, LoadSize
<1> DEFINE F(i) == [p \in Square(Stride) |->
              IF p \in Square(LoadSize)
              THEN GetColor(file[2 + ((i - 1) * LoadSize + p[2]) * LoadSize + p[1] + 1])
              ELSE Black]
           m == file[1] + 1
<1>4. \A i \in 1 .. m : F(i) \in Picture
  <2> SUFFICES ASSUME NEW i \in 1 .. m PROVE F(i) \in Picture
    OBVIOUS
  <2> DEFINE c(p) == GetColor(file[2 + ((i - 1) * LoadSize + p[2]) * LoadSize + p[1] + 1])
  <2>1. \A p \in Square(LoadSize) : c(p) \in Rgb
    BY <1>1, LoadedColours
  <2>2. Black \in Rgb
    BY ColourTypes DEF Black, Byte
  <2>3. F(i) = [p \in Square(Stride) |-> IF p \in Square(LoadSize) THEN c(p) ELSE Black]
    OBVIOUS
  <2> HIDE DEF c, F
  <2> QED
    BY <2>1, <2>2, <2>3 DEF Picture
<1>5. frames' = [i \in 1 .. m |-> F(i)]
  BY DEF Load, FramesOf, PlaceOf, LoadSize
<1>6. m \in Nat
  BY <1>2
<1> HIDE DEF F, m
<1>7. frames' \in Seq(Picture) /\ Len(frames') = m
  <2>1. frames' \in [1 .. m -> Picture]
    BY <1>4, <1>5
  <2>2. frames' \in Seq(Picture)
    BY <1>6, <2>1
  <2>3. Len(frames') \in Nat /\ 1 .. Len(frames') = 1 .. m
    BY <1>5, <2>2, LenProperties
  <2> QED
    BY <1>6, <2>2, <2>3
<1>8. /\ maxFrame' = file[1] /\ currFrame' = 0 /\ sizeAmmount' = LoadSize /\ state' = "open"
      /\ UNCHANGED <<copyBuffer, file>>
  BY DEF Load, disk
<1>9. maxFrame' \in 0 .. MaxFrames - 1 /\ currFrame' \in 0 .. maxFrame' /\ maxFrame' < MaxFrames
  BY <1>2, <1>8, SizesAssumption
<1>10. GfxTypes'
  BY <1>1, <1>3, <1>7, <1>8, <1>9 DEF CountInv, GfxTypes
<1>11. FramesCounted'
  <2>1. Len(frames') = maxFrame' + 1 /\ currFrame' <= maxFrame'
    BY <1>2, <1>7, <1>8 DEF m
  <2> QED
    BY <1>3, <1>8, <1>9, <2>1 DEF FramesCounted
<1> QED
  BY <1>8, <1>10, <1>11 DEF CountInv

LEMMA RestCount ==
    ASSUME CountInv, LoadFails \/ Wild \/ Restart \/ UNCHANGED vars
    PROVE  CountInv'
<1>1. MinSize \in Sizes /\ MaxFrames \in Nat \ {0}
  BY SizeTypes, SizesAssumption
<1>2. CASE LoadFails
  BY <1>1, <1>2 DEF LoadFails, CountInv, GfxTypes, FramesCounted, disk
<1>3. CASE Wild
  BY <1>3, CurrentIsPicture DEF Wild, CountInv, GfxTypes, FramesCounted, picture, disk
<1>4. CASE Restart
  <2>1. /\ frames' = <<Empty>> /\ maxFrame' = 0 /\ currFrame' = 0 /\ sizeAmmount' = StartSize
        /\ state' = "open" /\ copyBuffer' \in Junk
    BY <1>4 DEF Restart
  <2>2. copyBuffer' \in Picture
    BY <2>1, FilesAssumption DEF Picture
  <2>3. frames' \in Seq(Picture) /\ Len(frames') = 1
    BY <2>1, EmptyIsPicture
  <2>4. file' \in Seq(Byte)
    <3>1. CASE UNCHANGED disk
      BY <3>1 DEF disk, CountInv, GfxTypes
    <3>2. CASE file' \in Files
      BY <3>2, FilesAssumption
    <3>3. CASE \E k \in Cuts : k < Len(Encoding) /\ file' = SubSeq(Encoding, 1, k)
      <4>1. PICK k \in Cuts : k < Len(Encoding) /\ file' = SubSeq(Encoding, 1, k)
        BY <3>3
      <4>2. PICK e \in Seq(Byte) : e = Encoding
        BY EncodingIs DEF CountInv
      <4>3. k \in Nat /\ k < Len(e) /\ file' = SubSeq(e, 1, k) /\ Len(e) \in Nat
        BY <4>1, <4>2, FilesAssumption, LenProperties
      <4>4. \A j \in 1 .. k : e[j] \in Byte
        BY <4>3, ElementOfSeq
      <4> QED
        BY <4>3, <4>4, SubSeqProperties
    <3> QED
      BY <1>4, <3>1, <3>2, <3>3 DEF Restart
  <2> QED
    BY <1>1, <2>1, <2>2, <2>3, <2>4, SizesAssumption DEF CountInv, GfxTypes, FramesCounted
<1>5. CASE UNCHANGED vars
  BY <1>5 DEF vars, picture, disk, CountInv, GfxTypes, FramesCounted
<1> QED
  BY <1>2, <1>3, <1>4, <1>5

LEMMA CountStep ==
    CountInv /\ [Next]_vars => CountInv'
  BY StrokeCount, CopySizeTurnCount, InsertCount, EraseCount, SaveCount, LoadCount, RestCount DEF Next

LEMMA CountStart ==
    Init => CountInv
<1> SUFFICES ASSUME Init PROVE CountInv
  OBVIOUS
<1>1. /\ frames = <<Empty>> /\ maxFrame = 0 /\ currFrame = 0 /\ sizeAmmount = StartSize
      /\ state = "open" /\ copyBuffer \in Junk /\ file \in Files
  BY DEF Init, Fresh
<1>2. frames \in Seq(Picture) /\ Len(frames) = 1
  BY <1>1, EmptyIsPicture
<1> QED
  BY <1>1, <1>2, SizesAssumption, FilesAssumption DEF CountInv, GfxTypes, FramesCounted, Picture

\* However frames are added, erased, turned and loaded, the number of frames and
\* the frame on the screen agree with the vector of the frames.
THEOREM FramesAreCounted == Spec => []FramesCounted
<1>1. Init => CountInv
  BY CountStart
<1>2. CountInv /\ [Next]_vars => CountInv'
  BY CountStep
<1>3. CountInv => FramesCounted
  BY DEF CountInv
<1> QED
  BY <1>1, <1>2, <1>3, PTL DEF Spec

-----------------------------------------------------------------------------
(* The frames a command leaves alone *)

LEMMA StrokeLeaves ==
    ASSUME CountInv, Paint \/ Fill \/ FlipX \/ Paste
    PROVE  /\ Len(frames') = Len(frames)
           /\ RemoveAt(frames', currFrame + 1) = RemoveAt(frames, currFrame + 1)
<1>1. frames \in Seq(Picture) /\ currFrame + 1 \in 1 .. Len(frames)
  BY StrokePaints, CurrentIsPicture DEF CountInv, GfxTypes
<1>2. PICK f \in Picture : WithCurrent(f)
  BY StrokePaints
<1>3. PICK i \in 1 .. Len(frames) : i = currFrame + 1
  BY <1>1
<1>4. frames' = [frames EXCEPT ![i] = f]
  BY <1>2, <1>3 DEF WithCurrent
<1>5. Len(frames') = Len(frames)
  BY <1>1, <1>4, ExceptSeq
<1>6. RemoveAt(frames', i) = RemoveAt(frames, i)
  BY <1>1, <1>4, ChangedIsRemoved
<1> QED
  BY <1>3, <1>5, <1>6

LEMMA InsertLeaves ==
    ASSUME CountInv, Insert
    PROVE  Len(frames') = Len(frames) + 1 /\ RemoveAt(frames', currFrame' + 1) = frames
<1>1. /\ frames \in Seq(Picture) /\ Len(frames) \in Nat
      /\ currFrame + 1 \in 1 .. Len(frames) /\ currFrame \in Nat
  BY CurrentIsPicture, LenProperties, SizesAssumption DEF Insert, CountInv, GfxTypes
<1>2. PICK i \in 1 .. Len(frames) + 1 : i = currFrame + 2
  BY <1>1
<1>3. frames' = InsertAt(frames, i, Empty)
  BY <1>2 DEF Insert, Place
<1>4. Len(frames') = Len(frames) + 1
  BY <1>1, <1>3, Inserted, EmptyIsPicture
<1>5. RemoveAt(frames', i) = frames
  BY <1>1, <1>3, InsertedIsRemoved, EmptyIsPicture
<1>6. currFrame' + 1 = i
  BY <1>1, <1>2 DEF Insert
<1> QED
  BY <1>4, <1>5, <1>6

LEMMA EraseLeaves ==
    ASSUME CountInv, Erase
    PROVE  Len(frames') = Len(frames) - 1 /\ frames' = RemoveAt(frames, currFrame + 1)
<1>1. frames \in Seq(Picture) /\ currFrame + 1 \in 1 .. Len(frames)
  BY CurrentIsPicture DEF Erase, CountInv, GfxTypes
<1>2. PICK i \in 1 .. Len(frames) : i = currFrame + 1
  BY <1>1
<1>3. frames' = RemoveAt(frames, i)
  BY <1>2 DEF Erase
<1>4. Len(frames') = Len(frames) - 1
  BY <1>1, <1>3, Removed
<1> QED
  BY <1>2, <1>3, <1>4

\* What OthersUntouched says of a step.
Leaves ==
    IF Len(frames') > Len(frames) THEN RemoveAt(frames', currFrame' + 1) = frames
    ELSE IF Len(frames') < Len(frames) THEN frames' = RemoveAt(frames, currFrame + 1)
    ELSE RemoveAt(frames', currFrame + 1) = RemoveAt(frames, currFrame + 1)

\* No command touches a frame that is not on the screen, whatever the number of
\* frames; only a load replaces them.
THEOREM OthersStayUntouched == Spec => OthersUntouched
<1>1. ASSUME CountInv, [Next]_vars
      PROVE  [state = "open" /\ state' = "open" /\ ~Load /\ ~Restart => Leaves]_vars
  <2> SUFFICES ASSUME Next, state = "open", state' = "open", ~Load, ~Restart
               PROVE  Leaves
    BY <1>1
  <2>1. Len(frames) \in Nat
    BY <1>1, LenProperties DEF CountInv, GfxTypes
  <2>2. CASE Paint \/ Fill \/ FlipX \/ Paste
    BY <1>1, <2>1, <2>2, StrokeLeaves DEF Leaves
  <2>3. CASE Insert
    BY <1>1, <2>1, <2>3, InsertLeaves DEF Leaves
  <2>4. CASE Erase
    BY <1>1, <2>1, <2>4, EraseLeaves DEF Leaves
  <2>5. CASE Copy \/ Size \/ Turn \/ Save
    <3>1. frames' = frames
      BY <2>5 DEF Copy, Size, Turn, Save, picture
    <3> QED
      BY <2>1, <3>1 DEF Leaves
  <2>6. ~LoadFails /\ ~Wild
    BY DEF LoadFails, Wild
  <2> QED
    BY <2>2, <2>3, <2>4, <2>5, <2>6 DEF Next
<1>2. Spec => []CountInv
  BY CountStart, CountStep, PTL DEF Spec
<1>3. Spec => [][state = "open" /\ state' = "open" /\ ~Load /\ ~Restart => Leaves]_vars
  BY <1>1, <1>2, PTL DEF Spec
<1> QED
  BY <1>3 DEF OthersUntouched, Leaves

-----------------------------------------------------------------------------
(* What the editor saved is read again *)

LEMMA SaveFileInv ==
    ASSUME CountInv, Save
    PROVE  FileInv'
<1> DEFINE n == sizeAmmount
           m == Len(frames)
           sf == [i \in DOMAIN frames |-> [p \in Square(n) |-> frames[i][p]]]
           e == Encoding
<1>1. /\ frames \in Seq(Picture) /\ m \in Nat /\ DOMAIN frames = 1 .. m
      /\ n \in Sizes /\ maxFrame \in 0 .. MaxFrames - 1 /\ MaxFrames \in Nat
  BY LenProperties, SizesAssumption DEF CountInv, GfxTypes
<1>2. saved' = [frames |-> sf, size |-> n] /\ file' = e
  BY DEF Save
<1>3. /\ Len(e) = 2 + m * (n * n)
      /\ e[1] = maxFrame /\ e[2] = n - 1
      /\ \A i \in 1 .. m : \A p \in Square(n) :
            e[2 + (i - 1) * (n * n) + n * p[2] + p[1] + 1] = Get8Bit(frames[i][p])
  BY EncodingIs DEF CountInv
<1>4. DOMAIN sf = 1 .. m /\ \A i \in 1 .. m : \A p \in Square(n) : sf[i][p] = frames[i][p]
  BY <1>1
<1>5. sf \in Seq([Square(n) -> Rgb]) /\ Len(sf) = m
  <2>1. n \in Nat /\ n <= Stride /\ Stride \in Nat
    BY <1>1, SizeTypes
  <2>2. Square(n) \subseteq Square(Stride)
    BY <2>1 DEF Square
  <2>3. \A i \in 1 .. m : [p \in Square(n) |-> frames[i][p]] \in [Square(n) -> Rgb]
    BY <1>1, <2>2, ElementOfSeq DEF Picture
  <2>4. sf \in [1 .. m -> [Square(n) -> Rgb]]
    BY <1>1, <2>3
  <2> HIDE DEF sf
  <2>5. sf \in Seq([Square(n) -> Rgb])
    BY <1>1, <2>4
  <2>6. Len(sf) \in Nat /\ 1 .. Len(sf) = 1 .. m
    BY <1>4, <2>5, LenProperties
  <2> QED
    BY <1>1, <2>5, <2>6
<1> HIDE DEF sf, e
<1>6. SUFFICES ASSUME sf # <<>>
               PROVE  /\ n \in Sizes /\ Len(sf) \in 1 .. MaxFrames
                      /\ e[1] = Len(sf) - 1
  <2>1. saved'.frames = sf /\ saved'.size = n
    BY <1>2
  <2> HIDE DEF n
  <2> QED
    BY <1>1, <1>2, <1>3, <1>4, <1>5, <1>6, <2>1 DEF FileInv
<1>7. m # 0
  BY <1>5, <1>6, EmptySeq
<1>8. state = "open"
  BY <1>7 DEF CountInv
<1>9. m = maxFrame + 1
  BY <1>8 DEF CountInv, FramesCounted
<1> QED
  BY <1>1, <1>3, <1>5, <1>9

LEMMA FileStep ==
    CountInv /\ FileInv /\ [Next]_vars => FileInv'
<1> SUFFICES ASSUME CountInv, FileInv, [Next]_vars PROVE FileInv'
  OBVIOUS
<1>1. CASE Save
  BY <1>1, SaveFileInv
<1>2. CASE UNCHANGED disk
  BY <1>2 DEF FileInv, disk
<1>3. CASE Restart
  <2>1. UNCHANGED disk \/ origin' = "other"
    BY <1>3 DEF Restart
  <2> QED
    BY <1>2, <2>1 DEF FileInv
<1>4. Save \/ Restart \/ UNCHANGED disk
  BY DEF Next, vars, Paint, Fill, FlipX, Copy, Paste, Stroke, Size, Turn, Insert, Erase, Load, LoadFails, Wild
<1> QED
  BY <1>1, <1>2, <1>3, <1>4

LEMMA GfxInductive ==
    Spec => []GfxInv
<1>1. Init => GfxInv
  <2>1. Init => FileInv
    BY DEF Init, FileInv
  <2> QED
    BY <2>1, CountStart DEF GfxInv
<1>2. GfxInv /\ [Next]_vars => GfxInv'
  BY CountStep, FileStep DEF GfxInv
<1> QED
  BY <1>1, <1>2, PTL DEF Spec

\* Two sides with one area are one side.
LEMMA SameArea ==
    \A a, b \in Nat : a * a = b * b => a = b
<1> SUFFICES ASSUME NEW a \in Nat, NEW b \in Nat, a * a = b * b PROVE a = b
  OBVIOUS
<1>1. ASSUME NEW x \in Nat, NEW y \in Nat, x < y PROVE x * x < y * y
  <2>1. x * x <= y * x /\ x * y = y * x
    BY <1>1, Products
  <2>2. (x + 1) * y <= y * y /\ (x + 1) * y = x * y + y
    BY <1>1, Products
  <2>3. x * x \in Nat /\ y * x \in Nat /\ y * y \in Nat
    OBVIOUS
  <2> QED
    BY <1>1, <2>1, <2>2, <2>3
<1>2. a * a \in Nat
  OBVIOUS
<1> QED
  BY <1>1, <1>2

\* Load's tests on the side are LoadFile's tests on the area.
LEMMA LoadersAgree ==
    ASSUME NEW bytes \in Seq(Byte)
    PROVE  Loads(bytes) <=> Accepted(bytes)
<1> SUFFICES ASSUME Len(bytes) >= 2 PROVE Loads(bytes) <=> Accepted(bytes)
  BY DEF Loads, Accepted
<1> DEFINE n == bytes[2] + 1
           m == bytes[1] + 1
<1>1. n \in Nat /\ m \in Nat
  <2>1. bytes[1] \in Byte /\ bytes[2] \in Byte
    BY LenProperties, ElementOfSeq
  <2> DEFINE x == bytes[1]
             y == bytes[2]
  <2>2. x \in Byte /\ y \in Byte
    BY <2>1
  <2> HIDE DEF x, y
  <2>3. x + 1 \in Nat /\ y + 1 \in Nat
    BY <2>2 DEF Byte
  <2> QED
    BY <2>3 DEF x, y
<1>2. n \in Sizes <=> n * n \in Areas2
  <2> HIDE DEF n
  <2>1. ASSUME n * n \in Areas2 PROVE n \in Sizes
    <3>1. PICK s \in Sizes : n * n = s * s
      BY <2>1 DEF Areas2
    <3>2. n = s
      BY <1>1, <3>1, SizeTypes, SameArea
    <3> QED
      BY <3>2
  <2> QED
    BY <2>1 DEF Areas2
<1>3. m * n * n = m * (n * n)
  <2> HIDE DEF m, n
  <2> QED
    BY <1>1
<1> QED
  BY <1>2, <1>3 DEF Loads, Accepted, HeaderFrames, HeaderArea

\* The file the editor saved: its header, and that it is accepted.
LEMMA SavedHeader ==
    ASSUME GfxInv, origin = "save", saved.frames # <<>>
    PROVE  /\ HeaderFrames(file) = Len(saved.frames)
           /\ HeaderArea(file) = saved.size * saved.size
           /\ Len(file) = 2 + Len(saved.frames) * (saved.size * saved.size)
           /\ Len(saved.frames) \in Nat \ {0} /\ saved.size \in Nat \ {0}
           /\ Loads(file) /\ Accepted(file)
<1> DEFINE m == Len(saved.frames)
           n == saved.size
<1>1. /\ n \in Sizes /\ m \in 1 .. MaxFrames /\ Len(file) = 2 + m * (n * n)
      /\ file[1] = m - 1 /\ file[2] = n - 1 /\ file \in Seq(Byte)
  BY DEF GfxInv, FileInv, CountInv, GfxTypes
<1> HIDE DEF m, n
<1>2. n \in Nat \ {0} /\ m \in Nat \ {0} /\ m - 1 + 1 = m /\ n - 1 + 1 = n /\ MaxFrames \in Nat /\ m - 1 < MaxFrames
  BY <1>1, SizeTypes, SizesAssumption
<1>3. m * (n * n) \in Nat
  BY <1>2, Products
<1>4. HeaderFrames(file) = m /\ HeaderArea(file) = n * n
  BY <1>1, <1>2 DEF HeaderFrames, HeaderArea
<1>5. n * n \in Areas2
  BY <1>1 DEF Areas2
<1>6. Accepted(file)
  BY <1>1, <1>2, <1>3, <1>4, <1>5 DEF Accepted
<1> QED
  BY <1>1, <1>2, <1>4, <1>6, LoadersAgree DEF m, n

LEMMA SavedBlock ==
    ASSUME GfxInv, origin = "save", saved.frames # <<>>
    PROVE  /\ Len(Blocks(file)) = Len(saved.frames)
           /\ \A i \in 1 .. Len(saved.frames) : \A p \in Square(saved.size) :
                 GetBlock(file, i - 1)[saved.size * p[2] + p[1] + 1] = Get8Bit(saved.frames[i][p])
<1> DEFINE m == Len(saved.frames)
           n == saved.size
           N == n * n
           B(i) == SubSeq(file, 3 + (i - 1) * N, 2 + i * N)
<1>1. /\ HeaderFrames(file) = m /\ HeaderArea(file) = N /\ Len(file) = 2 + m * N
      /\ m \in Nat \ {0} /\ n \in Nat \ {0} /\ Accepted(file)
      /\ \A i \in 1 .. m : \A p \in Square(n) :
            file[2 + (i - 1) * N + n * p[2] + p[1] + 1] = Get8Bit(saved.frames[i][p])
      /\ file \in Seq(Byte)
  BY SavedHeader DEF GfxInv, FileInv, CountInv, GfxTypes
<1> HIDE DEF m, n
<1>2. N \in Nat \ {0} /\ m * N \in Nat
  <2>1. N \in Nat /\ 1 * n <= n * n
    BY <1>1, Products
  <2> QED
    BY <1>1, <2>1
<1>3. Blocks(file) = [i \in 1 .. m |-> B(i)]
  BY <1>1 DEF Blocks
<1>4. ASSUME NEW i \in 1 .. m
      PROVE  /\ B(i) \in Seq(Byte)
             /\ \A q \in 0 .. N - 1 : B(i)[q + 1] = file[2 + (i - 1) * N + q + 1]
  <2> HIDE DEF N
  <2> DEFINE a == (i - 1) * N
             b == i * N
  <2>1. a \in Nat /\ b = a + N /\ b \in Nat /\ b <= m * N
    BY <1>1, <1>2, Products
  <2> HIDE DEF a, b
  <2>2. 3 + a \in 1 .. Len(file) + 1 /\ 2 + b \in 3 + a - 1 .. Len(file)
    <3> DEFINE c == m * N
    <3>1. c \in Nat /\ Len(file) = 2 + c /\ b <= c /\ N >= 1 /\ N \in Nat
      BY <1>1, <1>2, <2>1
    <3> HIDE DEF c
    <3> QED
      BY <2>1, <3>1
  <2>3. \A j \in 3 + a .. 2 + b : file[j] \in Byte
    <3>1. \A j \in 1 .. Len(file) : file[j] \in Byte
      BY <1>1, ElementOfSeq
    <3> QED
      BY <1>1, <1>2, <2>1, <2>2, <3>1
  <2> DEFINE t == SubSeq(file, 3 + a, 2 + b)
  <2>4. /\ t \in Seq(Byte)
        /\ \A j \in 1 .. (2 + b) - (3 + a) + 1 : t[j] = file[(3 + a) + j - 1]
    BY <1>1, <2>1, <2>2, <2>3, SubSeqProperties
  <2> HIDE DEF t
  <2>5. ASSUME NEW q \in 0 .. N - 1 PROVE t[q + 1] = file[2 + a + q + 1]
    <3>1. q + 1 \in 1 .. (2 + b) - (3 + a) + 1 /\ (3 + a) + (q + 1) - 1 = 2 + a + q + 1
      BY <1>2, <2>1
    <3> QED
      BY <2>4, <3>1
  <2> QED
    BY <2>4, <2>5 DEF t, a, b
<1> HIDE DEF B
<1>5. Len(Blocks(file)) = m
  <2>1. Blocks(file) \in [1 .. m -> Seq(Byte)]
    BY <1>3, <1>4
  <2>2. Blocks(file) \in Seq(Seq(Byte))
    BY <1>1, <2>1
  <2>3. Len(Blocks(file)) \in Nat /\ 1 .. Len(Blocks(file)) = 1 .. m
    BY <1>3, <2>2, LenProperties
  <2> QED
    BY <1>1, <2>3
<1>6. ASSUME NEW i \in 1 .. m, NEW p \in Square(n)
      PROVE  GetBlock(file, i - 1)[n * p[2] + p[1] + 1] = Get8Bit(saved.frames[i][p])
  <2>1. GetBlock(file, i - 1) = B(i)
    <3>1. i - 1 \in 0 .. Len(Blocks(file)) - 1 /\ (i - 1) + 1 = i
      BY <1>1, <1>5
    <3> QED
      BY <1>1, <1>3, <3>1 DEF GetBlock
  <2> DEFINE q == n * p[2] + p[1]
  <2>2. q \in 0 .. N - 1
    BY <1>1, PixelNumber
  <2>3. B(i)[q + 1] = file[2 + (i - 1) * N + q + 1]
    BY <1>4, <2>2
  <2>4. 2 + (i - 1) * N + q + 1 = 2 + (i - 1) * N + n * p[2] + p[1] + 1
    <3>1. p[1] \in Nat /\ n * p[2] \in Nat /\ (i - 1) * N \in Nat
      <4>1. p[1] \in Nat /\ p[2] \in Nat /\ i - 1 \in Nat
        BY <1>1 DEF Square
      <4> HIDE DEF N
      <4> QED
        BY <1>1, <1>2, <4>1, Products
    <3> HIDE DEF N
    <3> QED
      BY <3>1
  <2>5. file[2 + (i - 1) * N + n * p[2] + p[1] + 1] = Get8Bit(saved.frames[i][p])
    BY <1>1
  <2> QED
    BY <2>1, <2>3, <2>4, <2>5
<1> QED
  BY <1>5, <1>6 DEF m, n

\* Where row x of picture y begins, counted in rows and in pictures.
LEMMA RowOffset ==
    ASSUME NEW x \in Nat, NEW y \in Nat, NEW n \in Nat
    PROVE  (y * n + x) * n = y * (n * n) + n * x
<1>1. (y * n + x) * n = (y * n) * n + x * n
  OBVIOUS
<1>2. (y * n) * n = y * (n * n)
  OBVIOUS
<1> QED
  BY <1>1, <1>2

\* What Load makes of the file the editor saved.
LEMMA SavedFrames ==
    ASSUME GfxInv, origin = "save", saved.frames # <<>>
    PROVE  /\ LoadSize = saved.size
           /\ DOMAIN FramesOf(file) = 1 .. Len(saved.frames)
           /\ \A i \in 1 .. Len(saved.frames) : \A p \in Square(saved.size) :
                 FramesOf(file)[i][p] = GetColor(Get8Bit(saved.frames[i][p]))
<1> DEFINE m == Len(saved.frames)
           n == saved.size
           N == n * n
<1>1. /\ file[1] = m - 1 /\ file[2] = n - 1 /\ m \in Nat \ {0} /\ n \in Sizes
      /\ \A i \in 1 .. m : \A p \in Square(n) :
            file[2 + (i - 1) * N + n * p[2] + p[1] + 1] = Get8Bit(saved.frames[i][p])
  BY SavedHeader DEF GfxInv, FileInv
<1>2. n \in Nat \ {0} /\ n <= Stride /\ Stride \in Nat
  BY <1>1, SizeTypes
<1> HIDE DEF m, n
<1>3. file[1] + 1 = m /\ file[2] + 1 = n
  BY <1>1, <1>2
<1>4. FramesOf(file) = [i \in 1 .. m |->
          [p \in Square(Stride) |->
              IF p \in Square(n) THEN GetColor(file[PlaceOf(i, p, n)]) ELSE Black]]
  BY <1>3 DEF FramesOf
<1>5. ASSUME NEW i \in 1 .. m, NEW p \in Square(n)
      PROVE  FramesOf(file)[i][p] = GetColor(Get8Bit(saved.frames[i][p]))
  <2>1. p \in Square(Stride)
    BY <1>2 DEF Square
  <2>2. FramesOf(file)[i][p] = GetColor(file[PlaceOf(i, p, n)])
    BY <1>4, <2>1
  <2>3. PlaceOf(i, p, n) = 2 + (i - 1) * N + n * p[2] + p[1] + 1
    <3>1. p[1] \in Nat /\ p[2] \in Nat /\ i - 1 \in Nat
      <4>1. p[1] \in 0 .. n - 1 /\ p[2] \in 0 .. n - 1
        BY DEF Square
      <4>2. i - 1 \in Nat
        BY <1>1
      <4> QED
        BY <1>2, <4>1, <4>2
    <3>2. ((i - 1) * n + p[2]) * n = (i - 1) * N + n * p[2]
      <4> DEFINE x == p[2]
                 y == i - 1
      <4>1. x \in Nat /\ y \in Nat /\ n \in Nat
        BY <1>2, <3>1
      <4> HIDE DEF x, y
      <4>2. (y * n + x) * n = y * (n * n) + n * x
        BY <4>1, RowOffset
      <4> QED
        BY <4>2 DEF x, y
    <3>3. (i - 1) * N \in Nat /\ n * p[2] \in Nat
      BY <1>2, <3>1, Products
    <3> HIDE DEF N
    <3> QED
      BY <3>1, <3>2, <3>3 DEF PlaceOf
  <2> QED
    BY <1>1, <2>2, <2>3
<1>6. DOMAIN FramesOf(file) = 1 .. m
  BY <1>4
<1> QED
  BY <1>3, <1>5, <1>6 DEF LoadSize, m, n

\* What the editor saves is accepted by the editor and by the console, for
\* pictures of every size and number, and both make of it the frames that were
\* on the screen, wherever they had colours of the palette.
THEOREM SavedFilesAreRead == Spec => []SavedIsRead
<1>1. GfxInv => SavedIsRead
  <2> SUFFICES ASSUME GfxInv, origin = "save", saved.frames # <<>>
               PROVE  SavedIsRead
    BY DEF SavedIsRead
  <2>1. DOMAIN saved.frames = 1 .. Len(saved.frames)
    BY DEF GfxInv, FileInv
  <2>2. Loads(file) /\ Accepted(file) /\ Len(Blocks(file)) = Len(saved.frames)
    BY SavedHeader, SavedBlock
  <2>3. LoadSize = saved.size /\ DOMAIN FramesOf(file) = DOMAIN saved.frames
    BY <2>1, SavedFrames
  <2>4. \A i \in 1 .. Len(saved.frames) : \A p \in Square(saved.size) :
           GetBlock(file, i - 1)[saved.size * p[2] + p[1] + 1] = Get8Bit(saved.frames[i][p])
    BY SavedBlock
  <2>5. \A i \in 1 .. Len(saved.frames) : \A p \in Square(saved.size) :
           FramesOf(file)[i][p] = GetColor(Get8Bit(saved.frames[i][p]))
    BY SavedFrames
  <2> QED
    BY <2>1, <2>2, <2>3, <2>4, <2>5 DEF SavedIsRead, InPalette
<1> QED
  BY <1>1, GfxInductive, PTL

\* Editor and console agree about every file, and take none that was cut off.
THEOREM CutsAreRefused == Spec => []CutIsRefused
<1>1. GfxInv => CutIsRefused
  <2> SUFFICES ASSUME GfxInv, NEW k \in 0 .. Len(file)
               PROVE  /\ Loads(SubSeq(file, 1, k)) <=> Accepted(SubSeq(file, 1, k))
                      /\ origin = "save" /\ saved.frames # <<>> /\ k < Len(file)
                            => ~Accepted(SubSeq(file, 1, k))
    BY DEF CutIsRefused
  <2> DEFINE bytes == SubSeq(file, 1, k)
  <2>1. file \in Seq(Byte) /\ Len(file) \in Nat /\ k \in Nat
    BY LenProperties DEF GfxInv, CountInv, GfxTypes
  <2>2. bytes \in Seq(Byte) /\ Len(bytes) = k /\ \A j \in 1 .. k : bytes[j] = file[j]
    <3>1. \A j \in 1 .. k : file[j] \in Byte
      BY <2>1, ElementOfSeq
    <3>2. /\ bytes \in Seq(Byte) /\ Len(bytes) = IF 1 <= k THEN k - 1 + 1 ELSE 0
          /\ \A j \in 1 .. k - 1 + 1 : bytes[j] = file[1 + j - 1]
      BY <2>1, <3>1, SubSeqProperties
    <3> HIDE DEF bytes
    <3> QED
      BY <2>1, <3>2
  <2> HIDE DEF bytes
  <2>3. ASSUME origin = "save", saved.frames # <<>>, k < Len(file), Accepted(bytes)
        PROVE  FALSE
    <3> DEFINE a == Len(saved.frames) * (saved.size * saved.size)
    <3>1. /\ HeaderFrames(file) * HeaderArea(file) = a /\ Len(file) = 2 + a
      BY <2>3, SavedHeader
    <3>2. bytes[1] = file[1] /\ bytes[2] = file[2]
      BY <2>2, <2>3 DEF Accepted
    <3>3. HeaderFrames(bytes) = HeaderFrames(file) /\ HeaderArea(bytes) = HeaderArea(file)
      BY <3>2 DEF HeaderFrames, HeaderArea
    <3> HIDE DEF a
    <3>4. k >= 2 + a
      BY <2>2, <2>3, <3>1, <3>3 DEF Accepted
    <3> QED
      BY <2>1, <2>3, <3>1, <3>4
  <2> QED
    BY <2>2, <2>3, LoadersAgree DEF bytes
<1> QED
  BY <1>1, GfxInductive, PTL

-----------------------------------------------------------------------------
(* The fill, round by round *)

Queued(q) == {q[i] : i \in 1 .. Len(q)}

\* What Spread adds to the queue.
Pushed(f, p) == {n \in Neighbours(p) : n \in Visible /\ f[n] = thisColor}

\* Only pixels of thisColor were changed, and they became colour.
PaintInv ==
    /\ \A p \in Changed : before[p] = thisColor /\ frame[p] = colour
    /\ thisColor = colour => fillq = <<>>

\* Neither the painted pixels nor those in the queue leave an area.
AreaInv == \A S \in Areas(before, Side, at) : Changed \cup Queued(fillq) \subseteq S

\* What is missing in the area is next to nothing that is painted, except what
\* is still in the queue.
FrontierInv ==
    loop # "cut" /\ thisColor # colour =>
        /\ at \in Changed \cup Queued(fillq)
        /\ \A p \in Changed : \A n \in Neighbours(p) :
              n \in SameColour(before, Side, at) => n \in Changed \cup Queued(fillq)

FillInv ==
    /\ FillTypeOK /\ PaintInv /\ AreaInv /\ FrontierInv
    /\ loop # "filling" => fillq = <<>>

-----------------------------------------------------------------------------
(* The queue *)

LEMMA PushQueued ==
    ASSUME NEW q \in Seq(Visible), NEW f, NEW n
    PROVE  /\ Push(q, f, n) \in Seq(Visible)
           /\ Queued(Push(q, f, n)) =
                  Queued(q) \cup (IF n \in Visible /\ f[n] = thisColor THEN {n} ELSE {})
<1>1. CASE n \in Visible /\ f[n] = thisColor
  <2>1. Push(q, f, n) = Append(q, n)
    BY <1>1 DEF Push
  <2>2. Append(q, n) \in Seq(Visible) /\ Len(Append(q, n)) = Len(q) + 1
    BY <1>1, AppendProperties
  <2>3. \A i \in 1 .. Len(q) : Append(q, n)[i] = q[i]
    BY <1>1, AppendProperties
  <2>4. Append(q, n)[Len(q) + 1] = n
    BY <1>1, AppendProperties
  <2>5. Len(q) \in Nat
    BY LenProperties
  <2>6. Queued(Append(q, n)) = Queued(q) \cup {n}
    BY <2>2, <2>3, <2>4, <2>5 DEF Queued
  <2> QED
    BY <1>1, <2>1, <2>2, <2>6
<1>2. CASE ~(n \in Visible /\ f[n] = thisColor)
  BY <1>2 DEF Push
<1> QED
  BY <1>1, <1>2

LEMMA SpreadQueued ==
    ASSUME NEW q \in Seq(Visible), NEW f, NEW p
    PROVE  /\ Spread(q, f, p) \in Seq(Visible)
           /\ Queued(Spread(q, f, p)) = Queued(q) \cup Pushed(f, p)
<1> DEFINE q1 == Push(q, f, Right(p))
           q2 == Push(q1, f, Left(p))
           q3 == Push(q2, f, Below(p))
           q4 == Push(q3, f, Above(p))
           New(n) == IF n \in Visible /\ f[n] = thisColor THEN {n} ELSE {}
<1>1. q1 \in Seq(Visible) /\ Queued(q1) = Queued(q) \cup New(Right(p))
  BY PushQueued
<1>2. q2 \in Seq(Visible) /\ Queued(q2) = Queued(q1) \cup New(Left(p))
  BY <1>1, PushQueued
<1>3. q3 \in Seq(Visible) /\ Queued(q3) = Queued(q2) \cup New(Below(p))
  BY <1>2, PushQueued
<1>4. q4 \in Seq(Visible) /\ Queued(q4) = Queued(q3) \cup New(Above(p))
  BY <1>3, PushQueued
<1>5. Pushed(f, p) = New(Right(p)) \cup New(Left(p)) \cup New(Below(p)) \cup New(Above(p))
  BY DEF Pushed, Neighbours
<1>6. Spread(q, f, p) = q4
  BY DEF Spread
<1> HIDE DEF q1, q2, q3, q4, New
<1> QED
  BY <1>1, <1>2, <1>3, <1>4, <1>5, <1>6

LEMMA HeadQueued ==
    ASSUME NEW q \in Seq(Visible), q # <<>>
    PROVE  /\ Head(q) \in Visible /\ Tail(q) \in Seq(Visible)
           /\ Queued(q) = {Head(q)} \cup Queued(Tail(q))
<1>1. Len(q) \in Nat /\ Len(q) >= 1
  BY EmptySeq, LenProperties
<1>2. Head(q) \in Visible /\ Tail(q) \in Seq(Visible) /\ Len(Tail(q)) = Len(q) - 1
  BY HeadTailProperties
<1>3. \A i \in 1 .. Len(q) - 1 : Tail(q)[i] = q[i + 1]
  BY <1>2, HeadTailProperties
<1>4. Head(q) = q[1]
  BY <1>1
<1>5. Queued(q) \subseteq {Head(q)} \cup Queued(Tail(q))
  <2> SUFFICES ASSUME NEW i \in 1 .. Len(q)
               PROVE  q[i] \in {Head(q)} \cup Queued(Tail(q))
    BY DEF Queued
  <2>1. CASE i = 1
    BY <2>1, <1>4
  <2>2. CASE i # 1
    <3>1. i - 1 \in 1 .. Len(Tail(q)) /\ Tail(q)[i - 1] = q[i]
      BY <2>2, <1>1, <1>2, <1>3
    <3> QED
      BY <3>1 DEF Queued
  <2> QED
    BY <2>1, <2>2
<1>6. {Head(q)} \cup Queued(Tail(q)) \subseteq Queued(q)
  <2>1. Head(q) \in Queued(q)
    BY <1>1, <1>4 DEF Queued
  <2>2. ASSUME NEW i \in 1 .. Len(Tail(q)) PROVE Tail(q)[i] \in Queued(q)
    <3>1. i + 1 \in 1 .. Len(q) /\ Tail(q)[i] = q[i + 1]
      BY <1>1, <1>2, <1>3
    <3> QED
      BY <3>1 DEF Queued
  <2> QED
    BY <2>1, <2>2 DEF Queued
<1> QED
  BY <1>2, <1>5, <1>6

-----------------------------------------------------------------------------
(* One visit *)

\* The area of the click's colour, with no regard to connection, is an area.
LEMMA WholeColourIsArea ==
    ASSUME before \in Frame, at \in Visible
    PROVE  SameColour(before, Side, at) \in Areas(before, Side, at)
<1>1. at \in SameColour(before, Side, at)
  BY DEF SameColour, Visible
<1> QED
  BY <1>1 DEF Areas, Closed

LEMMA VisibleInFrame == Visible \subseteq Square(Stride)
  BY SideAssumption, StrideAssumption DEF Visible, Square

\* The head of the queue is a pixel of the colour clicked on.
LEMMA HeadColour ==
    ASSUME FillInv, fillq # <<>>
    PROVE  /\ Head(fillq) \in Visible /\ Head(fillq) \in Square(Stride)
           /\ Head(fillq) \in Queued(fillq)
           /\ before[Head(fillq)] = thisColor
           /\ thisColor # colour
<1>1. Head(fillq) \in Visible /\ Head(fillq) \in Queued(fillq)
  BY HeadQueued DEF FillInv, FillTypeOK
<1>2. Head(fillq) \in SameColour(before, Side, at)
  BY <1>1, WholeColourIsArea DEF FillInv, FillTypeOK, AreaInv
<1> QED
  BY <1>1, <1>2, VisibleInFrame DEF SameColour, FillInv, FillTypeOK, PaintInv

\* What a visit does to the changed pixels and the queue.
LEMMA VisitEffect ==
    ASSUME FillInv, fillq # <<>>,
           frame' = IF Paints(Head(fillq)) THEN Painted ELSE frame, UNCHANGED click
    PROVE  /\ frame' \in Frame
           /\ Changed' = Changed \cup {Head(fillq)}
           /\ \A p \in Changed' : before[p] = thisColor /\ frame'[p] = colour
           /\ Queue \in Seq(Visible)
           /\ \A n \in Queued(Queue) :
                 n \in Queued(fillq) \/ n \in Pushed(frame', Head(fillq))
           /\ Queued(fillq) \subseteq {Head(fillq)} \cup Queued(Queue)
           /\ Paints(Head(fillq)) => Pushed(frame', Head(fillq)) \subseteq Queued(Queue)
           /\ Queued(Queue) \subseteq Queued(fillq) \/ Paints(Head(fillq))
<1> DEFINE h == Head(fillq)
<1>1. h \in Visible /\ h \in Square(Stride) /\ before[h] = thisColor /\ thisColor # colour
  BY HeadColour
<1>2. frame \in Frame /\ before \in Frame /\ colour \in Colours /\ fillq \in Seq(Visible)
  BY DEF FillInv, FillTypeOK
<1>3. Tail(fillq) \in Seq(Visible) /\ Queued(fillq) = {h} \cup Queued(Tail(fillq))
  BY <1>2, HeadQueued
<1>4. before' = before /\ thisColor' = thisColor /\ colour' = colour
  BY DEF click
<1>5. CASE Paints(h)
  <2>1. frame' = [frame EXCEPT ![h] = colour] /\ frame' = Painted
    BY <1>5 DEF Painted
  <2>2. frame' \in Frame
    BY <2>1, <1>2, <1>1 DEF Frame
  <2>3. \A p \in Square(Stride) : frame'[p] = IF p = h THEN colour ELSE frame[p]
    BY <2>1, <1>2 DEF Frame
  <2>4. Changed' = Changed \cup {h}
    BY <2>3, <1>1, <1>4 DEF Changed
  <2>5. \A p \in Changed' : before[p] = thisColor /\ frame'[p] = colour
    BY <2>3, <2>4, <1>1 DEF FillInv, PaintInv, Changed
  <2>6. Queue = Spread(Tail(fillq), frame', h)
    BY <1>5, <2>1 DEF Queue
  <2>7. Queue \in Seq(Visible) /\ Queued(Queue) = Queued(Tail(fillq)) \cup Pushed(frame', h)
    BY <2>6, <1>3, SpreadQueued
  <2> QED
    BY <2>2, <2>4, <2>5, <2>7, <1>3, <1>5
<1>6. CASE ~Paints(h)
  <2>1. frame' = frame /\ Queue = Tail(fillq)
    BY <1>6 DEF Queue
  <2>2. h \in Changed
    BY <1>1, <1>6 DEF Paints, Changed
  <2>3. Changed' = Changed
    BY <2>1, <1>4 DEF Changed
  <2>4. \A p \in Changed' : before[p] = thisColor /\ frame'[p] = colour
    BY <2>1, <2>3 DEF FillInv, PaintInv
  <2> QED
    BY <2>1, <2>2, <2>3, <2>4, <1>2, <1>3, <1>6
<1> QED
  BY <1>5, <1>6

\* The pixels pushed have the colour clicked on, so no area is left.
LEMMA FreshInArea ==
    ASSUME frame' \in Frame, before \in Frame, thisColor # colour, thisColor = before[at],
           Changed' \subseteq Square(Stride), before' = before,
           \A p \in Changed' : frame'[p] = colour,
           NEW h, NEW S \in Areas(before, Side, at), h \in S
    PROVE  Pushed(frame', h) \subseteq S
<1> SUFFICES ASSUME NEW n \in Pushed(frame', h)
             PROVE  n \in S
  OBVIOUS
<1>1. n \in Neighbours(h) /\ n \in Visible /\ frame'[n] = thisColor
  BY DEF Pushed
<1>2. n \in Square(Stride)
  BY <1>1, VisibleInFrame
<1>3. before[n] = thisColor
  BY <1>1, <1>2 DEF Changed
<1>4. n \in SameColour(before, Side, at)
  BY <1>1, <1>3 DEF SameColour, Visible
<1> QED
  BY <1>1, <1>4 DEF Areas, Closed

LEMMA VisitKeepsFill == FillInv /\ Visit => FillInv'
<1> SUFFICES ASSUME FillInv, Visit PROVE FillInv'
  OBVIOUS
<1> DEFINE h == Head(fillq)
<1>1. /\ loop = "filling" /\ fillq # <<>>
      /\ frame' = IF Paints(Head(fillq)) THEN Painted ELSE frame
      /\ UNCHANGED click
  BY DEF Visit
<1>2. before' = before /\ thisColor' = thisColor /\ colour' = colour /\ at' = at
  BY <1>1 DEF click
<1>3. h \in Visible /\ h \in Queued(fillq) /\ before[h] = thisColor /\ thisColor # colour
  BY <1>1, HeadColour
<1>4. /\ frame' \in Frame
      /\ Changed' = Changed \cup {h}
      /\ \A p \in Changed' : before[p] = thisColor /\ frame'[p] = colour
      /\ Queue \in Seq(Visible)
      /\ \A n \in Queued(Queue) : n \in Queued(fillq) \/ n \in Pushed(frame', h)
      /\ Queued(fillq) \subseteq {h} \cup Queued(Queue)
      /\ Paints(h) => Pushed(frame', h) \subseteq Queued(Queue)
  BY <1>1, VisitEffect
<1>5. \/ fillq' = Queue /\ loop' = loop
      \/ fillq' = <<>> /\ loop' = IF Queue = <<>> THEN "done" ELSE "cut"
  BY DEF Visit
<1>6. Queued(<<>>) = {} /\ <<>> \in Seq(Visible)
  BY EmptySeq DEF Queued
<1>7. FillTypeOK'
  BY <1>1, <1>2, <1>4, <1>5, <1>6 DEF FillTypeOK, FillInv
<1>8. PaintInv'
  BY <1>2, <1>3, <1>4 DEF PaintInv
<1>9. Changed' \subseteq Square(Stride)
  BY DEF Changed
<1>10. ASSUME NEW S \in Areas(before, Side, at)
       PROVE  Changed' \cup Queued(Queue) \subseteq S
  <2>1. Changed \cup Queued(fillq) \subseteq S
    BY DEF FillInv, AreaInv
  <2>2. Pushed(frame', h) \subseteq S
    BY <2>1, <1>2, <1>3, <1>4, <1>9, FreshInArea DEF FillInv, FillTypeOK
  <2> QED
    BY <2>1, <2>2, <1>3, <1>4
<1>11. AreaInv'
  BY <1>2, <1>5, <1>6, <1>10 DEF AreaInv
<1>12. at \in Changed' \cup Queued(Queue)
  BY <1>1, <1>3, <1>4 DEF FillInv, FrontierInv
<1>13. ASSUME NEW p \in Changed', NEW n \in Neighbours(p), n \in SameColour(before, Side, at)
       PROVE  n \in Changed' \cup Queued(Queue)
  <2>1. CASE p \in Changed
    BY <2>1, <1>1, <1>3, <1>4, <1>13 DEF FillInv, FrontierInv
  <2>2. CASE p = h /\ Paints(h)
    <3>1. n \in Visible /\ n \in Square(Stride) /\ before[n] = thisColor
      BY <1>13, VisibleInFrame DEF SameColour, Visible, FillInv, FillTypeOK
    <3>2. CASE frame'[n] = thisColor
      <4>1. n \in Pushed(frame', h)
        BY <2>2, <3>1, <3>2, <1>13 DEF Pushed
      <4> QED
        BY <4>1, <2>2, <1>4
    <3>3. CASE frame'[n] # thisColor
      BY <3>1, <3>3, <1>2 DEF Changed
    <3> QED
      BY <3>2, <3>3
  <2>3. CASE p = h /\ ~Paints(h)
    <3>1. p \in Changed
      BY <2>3, <1>1, HeadColour DEF Paints, Changed
    <3> QED
      BY <3>1, <2>1
  <2> QED
    BY <2>1, <2>2, <2>3, <1>4
<1>14. FrontierInv'
  <2>1. CASE fillq' = Queue
    BY <2>1, <1>2, <1>12, <1>13 DEF FrontierInv
  <2>2. CASE fillq' = <<>> /\ Queue = <<>>
    BY <2>2, <1>2, <1>12, <1>13 DEF FrontierInv
  <2>3. CASE fillq' = <<>> /\ Queue # <<>> /\ loop' = "cut"
    BY <2>3 DEF FrontierInv
  <2> QED
    BY <2>1, <2>2, <2>3, <1>5
<1>15. loop' # "filling" => fillq' = <<>>
  BY <1>1, <1>5
<1> QED
  BY <1>7, <1>8, <1>11, <1>14, <1>15 DEF FillInv

-----------------------------------------------------------------------------
LEMMA FillStarts == FillInit => FillInv
<1> SUFFICES ASSUME FillInit PROVE FillInv
  OBVIOUS
<1>1. frame \in Frame /\ before = frame /\ at \in Visible /\ loop = "filling"
  BY PicturesAssumption DEF FillInit
<1>2. Changed = {}
  BY <1>1 DEF Changed
<1>3. fillq \in Seq(Visible) /\ Queued(fillq) = IF thisColor # colour THEN {at} ELSE {}
  <2>1. <<at>> \in Seq(Visible) /\ Queued(<<at>>) = {at}
    BY <1>1 DEF Queued
  <2>2. <<>> \in Seq(Visible) /\ Queued(<<>>) = {}
    BY EmptySeq DEF Queued
  <2> QED
    BY <2>1, <2>2 DEF FillInit
<1>4. FillTypeOK
  BY <1>1, <1>3 DEF FillTypeOK, FillInit
<1>5. PaintInv
  BY <1>2 DEF PaintInv, FillInit
<1>6. AreaInv
  BY <1>2, <1>3 DEF AreaInv, Areas
<1>7. FrontierInv
  BY <1>2, <1>3 DEF FrontierInv
<1> QED
  BY <1>1, <1>4, <1>5, <1>6, <1>7 DEF FillInv

LEMMA DoneKeepsFill == FillInv /\ Done => FillInv'
  BY DEF FillInv, Done, click, FillTypeOK, PaintInv, AreaInv, FrontierInv, Changed

LEMMA StutterKeepsFill == FillInv /\ UNCHANGED fillVars => FillInv'
  BY DEF FillInv, fillVars, click, FillTypeOK, PaintInv, AreaInv, FrontierInv, Changed

LEMMA FillInductive == FillSpec => []FillInv
<1>1. FillInv /\ [FillNext]_fillVars => FillInv'
  BY VisitKeepsFill, DoneKeepsFill, StutterKeepsFill DEF FillNext
<1> QED
  BY FillStarts, <1>1, PTL DEF FillSpec

\* The variables of a fill have their types: every pixel queued is in the
\* picture, so no access leaves the array.
THEOREM FillTypes == FillSpec => []FillTypeOK
  BY FillInductive, PTL DEF FillInv

\* A fill, at every moment, has painted only pixels of the area of one colour
\* around the click.
THEOREM FillIsContained == FillSpec => []FillStaysInside
<1>1. FillInv => FillStaysInside
  BY DEF FillInv, AreaInv, PaintInv, FillStaysInside
<1> QED
  BY FillInductive, <1>1, PTL

LEMMA FillIsWhole == FillInv => FillIsComplete
<1>1. ASSUME FillInv, loop = "done", thisColor # colour
      PROVE  Changed \in Areas(before, Side, at)
  <2>1. fillq = <<>> /\ Queued(fillq) = {}
    BY <1>1 DEF FillInv, Queued
  <2>2. at \in Changed
    BY <1>1, <2>1 DEF FillInv, FrontierInv
  <2>3. Closed(Changed, before, Side, at)
    BY <1>1, <2>1 DEF FillInv, FrontierInv, Closed
  <2>4. Changed \subseteq SameColour(before, Side, at)
    BY <1>1, WholeColourIsArea DEF FillInv, AreaInv, FillTypeOK
  <2> QED
    BY <2>2, <2>3, <2>4 DEF Areas
<1> QED
  BY <1>1 DEF FillIsComplete

\* A fill that was not cut short has painted the whole area.
THEOREM FillCovers == FillSpec => []FillIsComplete
  BY FillInductive, FillIsWhole, PTL

\* What a fill that ends by itself leaves is the area of one colour around the
\* click in the new colour, and all else as it was: the fill that GfxEdit takes
\* in one step is what the loop does in many.
THEOREM FillIsAtomic ==
    FillSpec => [](loop = "done" => frame = Filled(before, Side, at, colour))
<1>1. ASSUME FillInv, loop = "done"
      PROVE  frame = Filled(before, Side, at, colour)
  <2> DEFINE area == AreaOf(before, Side, at)
  <2>1. /\ frame \in Frame /\ before \in Frame /\ thisColor = before[at]
        /\ \A p \in Changed : before[p] = thisColor /\ frame[p] = colour
    BY <1>1 DEF FillInv, FillTypeOK, PaintInv
  <2>2. \A q \in area : before[q] = thisColor
    BY <2>1 DEF AreaOf, SameColour
  <2>3. CASE thisColor = colour
    <3>1. \A q \in Square(Stride) : frame[q] = before[q]
      BY <2>1, <2>3 DEF Changed
    <3>2. \A q \in Square(Stride) : frame[q] = IF q \in area THEN colour ELSE before[q]
      BY <2>2, <2>3, <3>1
    <3> HIDE DEF area
    <3>3. frame = [q \in Square(Stride) |-> IF q \in area THEN colour ELSE before[q]]
      BY <2>1, <3>2 DEF Frame
    <3> QED
      BY <3>3 DEF Filled, area
  <2>4. CASE thisColor # colour
    <3>1. Changed \in Areas(before, Side, at)
      BY <1>1, <2>4, FillIsWhole DEF FillIsComplete
    <3>2. \A S \in Areas(before, Side, at) : Changed \subseteq S
      BY <1>1 DEF FillInv, AreaInv
    <3>3. area = Changed
      BY <3>1, <3>2 DEF AreaOf, Areas
    <3>4. \A q \in Square(Stride) : frame[q] = IF q \in area THEN colour ELSE before[q]
      BY <2>1, <3>3 DEF Changed
    <3> HIDE DEF area
    <3>5. frame = [q \in Square(Stride) |-> IF q \in area THEN colour ELSE before[q]]
      BY <2>1, <3>4 DEF Frame
    <3> QED
      BY <3>5 DEF Filled, area
  <2> QED
    BY <2>3, <2>4
<1>2. FillInv => (loop = "done" => frame = Filled(before, Side, at, colour))
  BY <1>1
<1> QED
  BY FillInductive, <1>2, PTL

=============================================================================
