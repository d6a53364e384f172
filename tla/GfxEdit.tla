------------------------------- MODULE GfxEdit -------------------------------
(***************************************************************************)
(* src/one/Editors/GFXEdit.cpp: the frames of the graphics editor, its     *)
(* clipboard and its file, and the commands of OnClick on them.  What a    *)
(* click hits is an input: a command is any button of the toolbar, a pixel *)
(* any of the picture, a colour any of the selector.  The file is read     *)
(* again by the console, GraphicsLoader.  Which brush and which colours    *)
(* are chosen is an input too: any click may come after choosing any.      *)
(***************************************************************************)
EXTENDS Pixels, Palette, GraphicsLoader, SequencesExt

CONSTANTS
    StartSize,   \* 16
    Inks,        \* the bytes chosen on the selector in this instance
    Junk,        \* what fresh memory may hold instead of colours
    Files,       \* files that did not come from this editor
    Cuts,        \* how many bytes reach the disk when the editor dies in a save
    MaxStrokes   \* strokes of the brushes and pastes: a bound

ASSUME SizesAssumption ==
    /\ MinSize \in Nat \ {0} /\ MaxSize = Stride
    /\ StartSize \in Sizes /\ Stride \in Sizes
    /\ Stride <= 256 /\ MaxFrames \in 1 .. 256

\* What a pixel's memory can hold; the picture has other colours only if it was
\* pasted from a buffer nobody has copied to.
Rgb == (0 .. 255) \X (0 .. 255) \X (0 .. 255)

ASSUME FilesAssumption ==
    /\ Files \subseteq Seq(Byte) /\ Cuts \subseteq Nat
    /\ Inks \subseteq Byte /\ Junk \subseteq [Square(Stride) -> Rgb]

VARIABLES
    frames, maxFrame, currFrame, sizeAmmount, copyBuffer,
    state,     \* "open"; "error" after DoError; "wild" after an access outside frames
    file,      \* the bytes of the file
    strokes,
    \* history
    saved,     \* what was shown of the frames the file was written from
    origin     \* of the file: "save" or "other"

picture == <<frames, maxFrame, currFrame, sizeAmmount>>
disk == <<file, saved, origin>>
vars == <<picture, copyBuffer, state, strokes, disk>>

Black == GetColor(0)

Empty == [p \in Square(Stride) |-> Black]

Current == frames[currFrame + 1]

\* Every access is to frames.begin()+currFrame.
HasFrame == state # "wild" /\ currFrame + 1 \in DOMAIN frames

-----------------------------------------------------------------------------
(* Painting *)

WithCurrent(f) == frames' = [frames EXCEPT ![currFrame + 1] = f]

Stroke ==
    /\ strokes < MaxStrokes
    /\ strokes' = strokes + 1
    /\ UNCHANGED <<maxFrame, currFrame, sizeAmmount, copyBuffer, state, disk>>

Paint ==
    /\ HasFrame
    /\ \E p \in Square(sizeAmmount), c \in Inks : WithCurrent([Current EXCEPT ![p] = GetColor(c)])
    /\ Stroke

\* What FloodFill leaves when it is complete (theorem FillIsAtomic); one that is
\* given up leaves what some strokes of the other brush could have painted.
Fill ==
    /\ HasFrame
    /\ \E p \in Square(sizeAmmount), c \in Inks :
          WithCurrent(Filled(Current, sizeAmmount, p, GetColor(c)))
    /\ Stroke

FlipX ==
    /\ HasFrame
    /\ WithCurrent([p \in Square(Stride) |->
           IF p \in Square(sizeAmmount) THEN Current[<<sizeAmmount - 1 - p[1], p[2]>>] ELSE Current[p]])
    /\ UNCHANGED <<maxFrame, currFrame, sizeAmmount, copyBuffer, state, strokes, disk>>

Copy ==
    /\ HasFrame
    /\ copyBuffer' = Current
    /\ UNCHANGED <<picture, state, strokes, disk>>

Paste ==
    /\ HasFrame
    /\ WithCurrent(copyBuffer)
    /\ Stroke

-----------------------------------------------------------------------------
(* Frames *)

Size ==
    /\ state # "wild"
    /\ sizeAmmount' = IF 2 * sizeAmmount > Stride THEN MinSize ELSE 2 * sizeAmmount
    /\ UNCHANGED <<frames, maxFrame, currFrame, copyBuffer, state, strokes, disk>>

Previous == currFrame' = IF currFrame = 0 THEN maxFrame ELSE currFrame - 1

Following == currFrame' = IF currFrame = maxFrame THEN 0 ELSE currFrame + 1

Turn ==
    /\ state # "wild"
    /\ Previous \/ Following
    /\ UNCHANGED <<frames, maxFrame, sizeAmmount, copyBuffer, state, strokes, disk>>

Room == maxFrame < MaxFrames - 1

\* Mutant: the new frame is put before the one on the screen.
PlaceBefore == currFrame + 1

\* The index, from 1, at which insert(begin()+currFrame) puts it.
Place == currFrame + 2

Insert ==
    /\ HasFrame /\ Room
    /\ maxFrame' = maxFrame + 1
    /\ currFrame' = currFrame + 1
    /\ frames' = InsertAt(frames, Place, Empty)
    /\ UNCHANGED <<sizeAmmount, copyBuffer, state, strokes, disk>>

\* Mutant: the last frame stays current when it is erased.
AfterEraseStays == currFrame

AfterErase == IF currFrame > maxFrame - 1 THEN maxFrame - 1 ELSE currFrame

\* The last frame there is cannot be erased.
Erase ==
    /\ HasFrame /\ maxFrame > 0
    /\ maxFrame' = maxFrame - 1
    /\ frames' = RemoveAt(frames, currFrame + 1)
    /\ currFrame' = AfterErase
    /\ UNCHANGED <<sizeAmmount, copyBuffer, state, strokes, disk>>

-----------------------------------------------------------------------------
(* The file *)

\* Mutant: the picture is written column by column.
PixelOfColumn(k, n) == <<k \div n, k % n>>

\* The pixel written k-th, from 0.
PixelOf(k, n) == <<k % n, k \div n>>

Encoding ==
    LET n == sizeAmmount
    IN  <<maxFrame % 256, (n - 1) % 256>> \o
        [k \in 1 .. Len(frames) * n * n |->
            Get8Bit(frames[(k - 1) \div (n * n) + 1][PixelOf((k - 1) % (n * n), n)])]

NoSave == [frames |-> <<>>, size |-> 0]

Save ==
    /\ state # "wild"
    /\ file' = Encoding
    /\ saved' = [frames |-> [i \in DOMAIN frames |-> [p \in Square(sizeAmmount) |-> frames[i][p]]],
                 size |-> sizeAmmount]
    /\ origin' = "save"
    /\ UNCHANGED <<picture, copyBuffer, state, strokes>>

\* The size of a file's frames, and what Load requires of the file: these are
\* GraphicsLoader's tests on the side instead of the area.
LoadSize == file[2] + 1

Loads(bytes) ==
    /\ Len(bytes) >= 2
    /\ bytes[1] < MaxFrames
    /\ bytes[2] + 1 \in Sizes
    /\ Len(bytes) >= 2 + (bytes[1] + 1) * (bytes[2] + 1) * (bytes[2] + 1)

\* Mutant: Load reads a picture column by column.
PlaceOfColumn(i, p, n) == 2 + ((i - 1) * n + p[1]) * n + p[2] + 1

\* Where the byte of a pixel of the i-th frame is looked for.
PlaceOf(i, p, n) == 2 + ((i - 1) * n + p[2]) * n + p[1] + 1

\* The frames Load makes of a file.
FramesOf(bytes) ==
    LET n == bytes[2] + 1
    IN  [i \in 1 .. bytes[1] + 1 |->
            [p \in Square(Stride) |->
                IF p \in Square(n) THEN GetColor(bytes[PlaceOf(i, p, n)]) ELSE Black]]

Load ==
    /\ state # "wild" /\ Loads(file)
    /\ maxFrame' = file[1]
    /\ sizeAmmount' = LoadSize
    /\ currFrame' = 0
    /\ state' = "open"
    /\ frames' = FramesOf(file)
    /\ UNCHANGED <<copyBuffer, strokes, disk>>

\* DoError.
LoadFails ==
    /\ state # "wild" /\ ~Loads(file)
    /\ maxFrame' = 0 /\ currFrame' = 0 /\ sizeAmmount' = MinSize
    /\ frames' = <<>>
    /\ state' = "error"
    /\ UNCHANGED <<copyBuffer, strokes, disk>>

-----------------------------------------------------------------------------
\* OnDraw, or a command that needs a frame, when there is none: the program has
\* no defined state after it.
Wild ==
    /\ state # "wild" /\ ~HasFrame
    /\ state' = "wild"
    /\ UNCHANGED <<picture, copyBuffer, strokes, disk>>

Fresh ==
    /\ frames = <<Empty>> /\ maxFrame = 0 /\ currFrame = 0 /\ sizeAmmount = StartSize
    /\ state = "open" /\ strokes = 0
    /\ copyBuffer \in Junk

\* The editor ends, at any point, in the middle of a save too, and is started
\* again; the file may be exchanged in between.
Restart ==
    /\ frames' = <<Empty>> /\ maxFrame' = 0 /\ currFrame' = 0 /\ sizeAmmount' = StartSize
    /\ state' = "open"
    /\ copyBuffer' \in Junk
    /\ UNCHANGED strokes
    /\ \/ UNCHANGED disk
       \/ /\ \/ file' \in Files
             \/ state # "wild" /\ \E k \in Cuts : k < Len(Encoding) /\ file' = SubSeq(Encoding, 1, k)
          /\ saved' = NoSave
          /\ origin' = "other"

Init ==
    /\ Fresh
    /\ file \in Files
    /\ saved = NoSave
    /\ origin = "other"

Next ==
    \/ Paint \/ Fill \/ FlipX \/ Copy \/ Paste
    \/ Size \/ Turn \/ Insert \/ Erase
    \/ Save \/ Load \/ LoadFails
    \/ Wild \/ Restart

Spec == Init /\ [][Next]_vars

-----------------------------------------------------------------------------
\* The counters and the frames, which are kept apart, agree through every
\* sequence of commands, loads included, until a load fails; and no access
\* misses the frames before one has failed.
FramesCounted ==
    state = "open" =>
        /\ Len(frames) = maxFrame + 1 /\ currFrame <= maxFrame /\ maxFrame < MaxFrames
        /\ sizeAmmount \in Sizes

\* A colour of the palette, as is all that a brush has painted; what was pasted
\* from a buffer nobody had copied to may be another, and is rounded to one.
InPalette(rgb) == GetColor(Get8Bit(rgb)) = rgb

\* The file the editor saved is accepted by the editor and by the console, and
\* both make of it as many frames of the same size, with the same red, green and
\* blue at every place that was on the screen when it was saved.
SavedIsRead ==
    origin = "save" /\ saved.frames # <<>> =>
        /\ Loads(file) /\ Accepted(file)
        /\ LoadSize = saved.size /\ DOMAIN FramesOf(file) = DOMAIN saved.frames
        /\ Len(Blocks(file)) = Len(saved.frames)
        /\ \A i \in DOMAIN saved.frames : \A p \in Square(saved.size) :
              LET rgb == saved.frames[i][p]
              IN  InPalette(rgb) =>
                      /\ FramesOf(file)[i][p] = rgb
                      /\ GetColor(GetBlock(file, i - 1)[saved.size * p[2] + p[1] + 1]) = rgb

\* Editor and console agree about every file, foreign ones too, and both refuse
\* a save that was cut off anywhere: what they take is whole.
CutIsRefused ==
    \A k \in 0 .. Len(file) :
        LET bytes == SubSeq(file, 1, k)
        IN  /\ Loads(bytes) <=> Accepted(bytes)
            /\ origin = "save" /\ saved.frames # <<>> /\ k < Len(file) => ~Accepted(bytes)

\* A command changes no frame but the one on the screen, and takes none away
\* but that one; only a load replaces all.
OthersUntouched ==
    [][ state = "open" /\ state' = "open" /\ ~Load /\ ~Restart =>
          IF Len(frames') > Len(frames) THEN RemoveAt(frames', currFrame' + 1) = frames
          ELSE IF Len(frames') < Len(frames) THEN frames' = RemoveAt(frames, currFrame + 1)
          ELSE RemoveAt(frames', currFrame + 1) = RemoveAt(frames, currFrame + 1) ]_vars
=============================================================================
