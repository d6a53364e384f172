-------------------------------- MODULE Palette --------------------------------
(***************************************************************************)
(* src/one/Editors/GFXEdit.cpp, GetColor and Get8Bit: a colour of the      *)
(* console is a byte, three bits of red, three of green, two of blue.      *)
(* Alpha is left out: GetColor makes it 255, only memory nobody has        *)
(* written may hold another, and the bytes do not tell.                    *)
(***************************************************************************)
EXTENDS Integers

Byte == 0 .. 255

\* The levels of a colour of three bits; the last is not 7 * 36.
Level3(n) == IF n = 7 THEN 255 ELSE 36 * n

Level2(n) == 85 * n

GetColor(c) == <<Level3(c \div 32), Level3((c \div 4) % 8), Level2(c % 4)>>

\* std::round((v/255.0f)*top), in integers.
Nearest(v, top) == (2 * top * v + 255) \div 510

Get8Bit(rgb) == 32 * Nearest(rgb[1], 7) + 4 * Nearest(rgb[2], 7) + Nearest(rgb[3], 3)

\* A byte comes back from its colour.
PaletteExact == \A c \in Byte : Get8Bit(GetColor(c)) = c
=============================================================================
