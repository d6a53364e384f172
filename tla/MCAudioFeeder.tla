--------------------------- MODULE MCAudioFeeder ---------------------------
(* Files that meet every branch of LoadFile: tracks with samples before the  *)
(* first tick, at the same time and with gaps, an empty one, one out of      *)
(* order, a repeated name, and files that must be refused.                   *)
EXTENDS AudioFeeder

At(p, c) == [position |-> p, channel |-> c]

File(n, s, r) == [name |-> n, size |-> s, records |-> r]

MCFiles ==
    {File("tune", 4, <<At(0, 1), At(1, 2), At(3, 3), At(3, 4)>>),
     File("blip", 1, <<At(2, 4), At(5, 1)>>),
     File("blip", 2, <<At(0, 3), At(4, 3)>>),
     File("hush", 0, <<>>),
     File("odd", 2, <<At(3, 1), At(-1, 2)>>),
     File("short", 2, <<At(0, 1)>>),
     File("early", 1, <<At(-2, 1)>>),
     File("alien", 1, <<At(0, 5)>>),
     File("broken", -1, <<>>)}
=============================================================================
