---------------------------- MODULE GraphicsLoader ----------------------------
(***************************************************************************)
(* src/one/Loaders/GraphicsLoader.cpp, LoadFile on one file, and GetBlock. *)
(* A file is its bytes; the blocks of a file are the sequences of theirs.  *)
(***************************************************************************)
EXTENDS Integers, Sequences

CONSTANTS
    MinSize,     \* side of the smallest block: 8
    MaxSize,     \* side of the largest: 256
    MaxFrames    \* 200

\* The sides that are enumerators of Block::Size and accepted: 8, 16, 32, ...
Sizes == {n \in MinSize .. MaxSize : \E k \in {1, 2, 4, 8, 16, 32} : n = MinSize * k}

\* Block::Size, the number of bytes of a block.
Areas2 == {n * n : n \in Sizes}

HeaderFrames(bytes) == bytes[1] + 1

HeaderArea(bytes) == (bytes[2] + 1) * (bytes[2] + 1)

\* Mutant: a read is tested at the first byte of each frame only.
AcceptedUnlessFrameMissing(bytes) ==
    /\ Len(bytes) >= 2
    /\ bytes[1] < MaxFrames
    /\ HeaderArea(bytes) \in Areas2
    /\ Len(bytes) > 2 + bytes[1] * HeaderArea(bytes)

\* With less than two bytes the header is uninitialised, but then a first
\* pixel is missing as well.
Accepted(bytes) ==
    /\ Len(bytes) >= 2
    /\ bytes[1] < MaxFrames
    /\ HeaderArea(bytes) \in Areas2
    /\ Len(bytes) >= 2 + HeaderFrames(bytes) * HeaderArea(bytes)

\* The blocks of an accepted file.
Blocks(bytes) ==
    [i \in 1 .. HeaderFrames(bytes) |->
        SubSeq(bytes, 3 + (i - 1) * HeaderArea(bytes), 2 + i * HeaderArea(bytes))]

\* What a script draws for a frame; "missing" is the block with the X.
GetBlock(bytes, frame) ==
    IF Accepted(bytes) /\ frame \in 0 .. Len(Blocks(bytes)) - 1
    THEN Blocks(bytes)[frame + 1] ELSE "missing"
=============================================================================
