------------------------------- MODULE FloodFill -------------------------------
(***************************************************************************)
(* src/one/Editors/GFXEdit.cpp, the fill of OnClick: one click of the      *)
(* filling brush.  Visit is one round of the while loop over fillq; the    *)
(* loop gives up when a second has passed.                                 *)
(***************************************************************************)
EXTENDS Pixels, Sequences

CONSTANTS
    Side,      \* sizeAmmount
    Pictures   \* the frames a fill may begin with

ASSUME SideAssumption == Side \in 1 .. Stride

ASSUME PicturesAssumption == Pictures \subseteq Frame

VARIABLES
    frame,     \* thisFrame
    fillq,
    thisColor, \* the colour clicked on
    colour,    \* leftColor or rightColor
    loop,      \* "filling", "done" or "cut" (the second passed)
    \* history
    before,    \* the frame when the click came
    at         \* the pixel clicked

click == <<thisColor, colour, before, at>>
fillVars == <<frame, fillq, loop, click>>

Visible == Square(Side)

FillTypeOK ==
    /\ frame \in Frame
    /\ fillq \in Seq(Visible)
    /\ colour \in Colours
    /\ loop \in {"filling", "done", "cut"}
    /\ before \in Frame
    /\ at \in Visible
    /\ thisColor = before[at]

-----------------------------------------------------------------------------
FillInit ==
    /\ frame \in Pictures
    /\ at \in Visible
    /\ colour \in Colours
    /\ thisColor = frame[at]
    /\ fillq = IF thisColor # colour THEN <<at>> ELSE <<>>
    /\ loop = "filling"
    /\ before = frame

\* Mutant: bounded by the array instead of the picture.
PushIntoFrame(q, f, n) == IF n \in Square(Stride) /\ f[n] = thisColor THEN Append(q, n) ELSE q

Push(q, f, n) == IF n \in Visible /\ f[n] = thisColor THEN Append(q, n) ELSE q

\* Mutant: the pixel above is forgotten.
SpreadDown(q, f, p) == Push(Push(Push(q, f, Right(p)), f, Left(p)), f, Below(p))

Spread(q, f, p) == Push(Push(Push(Push(q, f, Right(p)), f, Left(p)), f, Below(p)), f, Above(p))

\* A pixel may be in the queue several times; only the first visit paints.
Paints(p) == frame[p] = thisColor

Painted == [frame EXCEPT ![Head(fillq)] = colour]

\* Mutant: pop() is called only for a pixel that was painted.
QueueKept ==
    IF Paints(Head(fillq)) THEN Spread(Tail(fillq), Painted, Head(fillq)) ELSE fillq

\* The queue after the visit of its head.
Queue ==
    IF Paints(Head(fillq)) THEN Spread(Tail(fillq), Painted, Head(fillq)) ELSE Tail(fillq)

Visit ==
    /\ loop = "filling" /\ fillq # <<>>
    /\ frame' = IF Paints(Head(fillq)) THEN Painted ELSE frame
    /\ \/ fillq' = Queue /\ UNCHANGED loop
       \/ fillq' = <<>> /\ loop' = IF Queue = <<>> THEN "done" ELSE "cut"
    /\ UNCHANGED click

Done ==
    /\ loop = "filling" /\ fillq = <<>>
    /\ loop' = "done"
    /\ UNCHANGED <<frame, fillq, click>>

FillNext == Visit \/ Done

FillSpec == FillInit /\ [][FillNext]_fillVars

FairFillSpec == FillSpec /\ WF_fillVars(Visit /\ loop' = "filling") /\ WF_fillVars(Done)

-----------------------------------------------------------------------------
Changed == {p \in Square(Stride) : frame[p] # before[p]}

\* At every moment a fill, finished or not, has changed only pixels of the area
\* of one colour around the click, and only to the colour chosen: it leaks
\* neither through a diagonal nor over the edge of the picture, where the array
\* goes on.
FillStaysInside ==
    /\ \A S \in Areas(before, Side, at) : Changed \subseteq S
    /\ \A p \in Changed : frame[p] = colour

\* A fill that ends by itself has changed an area, by FillStaysInside the
\* smallest: nothing of one colour around the click is left out, although the
\* same pixels are queued several times and from several sides.
FillIsComplete ==
    loop = "done" /\ thisColor # colour => Changed \in Areas(before, Side, at)

\* The loop ends without the clock's help: a colour that is filled with itself
\* does not queue pixels forever.
FillEnds == loop = "filling" ~> loop # "filling"
=============================================================================
