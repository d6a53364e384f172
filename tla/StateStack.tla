------------------------------ MODULE StateStack ------------------------------
(***************************************************************************)
(* src/one/Script/*.nut: the stack of states (State.nut) and the states on *)
(* it.  The operators here are the scripts' functions: they take what the  *)
(* scripts can change, a "world", and return it changed.  A script error   *)
(* ends them where it happens; what they have done until then stays.       *)
(*                                                                         *)
(* RebindState is in RebindWizard; here it asks for its buttons until the  *)
(* frame says that it is done.  Where things are drawn is left out.        *)
(***************************************************************************)
EXTENDS Integers, Sequences, SaveFile

CONSTANTS
    MaxVolume,  \* 100
    RepeatDelay \* frames before a held direction repeats, 30

ASSUME StackAssumption == MaxVolume \in Nat /\ RepeatDelay \in Nat

Scripts == {"State", "MenuState", "SoundTestState", "InputTestState", "SaveTestState",
            "OptionsState", "RebindState", "WindowObj", "Text", "TableFind"}

\* The states' classes, and what their constructors use of other files.
States == {"MenuState", "SoundTestState", "InputTestState", "SaveTestState",
           "OptionsState", "RebindState"}

Uses(name) == IF name \in {"OptionsState", "RebindState"} THEN {name, "WindowObj"} ELSE {name}

\* A new object: picker of a menu, moveTimer of the options, number of the save
\* test, and whether a rebind screen still asks.
New(name) == [name |-> name, picker |-> 0, moveTimer |-> 0, number |-> 0, asks |-> 1]

Top(w) == w.stack[Len(w.stack)]

SetTop(w, object) == [w EXCEPT !.stack[Len(w.stack)] = object]

Fail(w) == [w EXCEPT !.ok = FALSE]

-----------------------------------------------------------------------------
(* State.nut *)

\* Mutant: a new state is drawn in the frame it is pushed in.
PushAndDraw(w, name) ==
    IF ~w.ok THEN w
    ELSE IF Uses(name) \subseteq w.defined THEN [w EXCEPT !.stack = Append(@, New(name))]
    ELSE Fail(w)

PushState(w, name) ==
    IF ~w.ok THEN w
    ELSE IF Uses(name) \subseteq w.defined
    THEN [w EXCEPT !.stack = Append(@, New(name)), !.dropFrame = TRUE]
    ELSE Fail(w)

\* The pop of an empty array is an error.
PopState(w) ==
    IF ~w.ok THEN w
    ELSE IF w.stack = <<>> THEN Fail(w)
    ELSE [w EXCEPT !.stack = SubSeq(@, 1, Len(@) - 1), !.dropFrame = TRUE]

-----------------------------------------------------------------------------
(* The states' Update.  A frame's input: the buttons pressed and held, the   *)
(* left mouse button (1 in the frame of its press, 2 while it is held), the  *)
(* entry the mouse has moved to, its place on the entry, whether the rebind  *)
(* screen has everything, whether a file to be written can be opened, and    *)
(* what uninitialised memory holds.                                          *)

PadButtons == {"A", "B", "Start", "Select", "Up", "Down", "Left", "Right"}

NoEntry == -1

Pressed(in, buttons) == in.pressed \cap buttons # {}

Chosen(in) == Pressed(in, {"A", "Start"}) \/ in.click = 1

\* The cursor of a menu of n entries: the mouse first, then the buttons.
Picked(p, n, in) ==
    LET over == IF in.over \in 0..(n - 1) THEN in.over ELSE p
        up == IF "Up" \in in.pressed THEN (over + n - 1) % n ELSE over
    IN  IF "Down" \in in.pressed THEN (up + 1) % n ELSE up

\* Mutant: the state that goes leaves the one under it, too.
LeaveTwice(w, in) == IF "B" \in in.pressed THEN PopState(PopState(w)) ELSE w

Leave(w, in) == IF "B" \in in.pressed THEN PopState(w) ELSE w

Entries == <<"SoundTestState", "InputTestState", "SaveTestState", "OptionsState">>

MenuUpdate(w, in) ==
    LET p == Picked(Top(w).picker, 5, in)
        moved == SetTop(w, [Top(w) EXCEPT !.picker = p])
    IN  IF ~Chosen(in) THEN moved
        ELSE IF p = 4 THEN [moved EXCEPT !.quit = TRUE]
        ELSE PushState(moved, Entries[p + 1])

Clamp(v) == IF v < 0 THEN 0 ELSE IF v > MaxVolume THEN MaxVolume ELSE v

\* The mouse chooses with its place on the entry, Left and Right turn it.
FullScreenSet(w, in) ==
    LET clicked == IF in.click = 1 /\ in.spot \in {1, 2} THEN in.spot = 2 ELSE w.fullScreen
    IN  [w EXCEPT !.fullScreen =
            IF Pressed(in, {"Left", "Right"}) THEN ~clicked ELSE clicked]

AspectSet(w, in) ==
    LET clicked == IF in.click = 1 /\ in.spot \in 0..2 THEN in.spot ELSE w.aspectRatio
        right == IF "Right" \in in.pressed THEN (clicked + 1) % 3 ELSE clicked
    IN  [w EXCEPT !.aspectRatio = IF "Left" \in in.pressed THEN (right + 2) % 3 ELSE right]

\* The first step at once, the next ones after RepeatDelay frames, of which the
\* model counts one more.
VolumeSet(w, in) ==
    LET dragged == IF in.click > 0 THEN Clamp(in.spot) ELSE w.volume
        timer == Top(w).moveTimer
        steps == timer = 0 \/ RepeatDelay < timer
        by == IF ~steps THEN 0
              ELSE IF "Right" \in in.held THEN 1 ELSE IF "Left" \in in.held THEN -1 ELSE 0
        moving == in.held \cap {"Left", "Right"} # {}
        capped == IF timer > RepeatDelay THEN timer ELSE timer + 1
    IN  [SetTop(w, [Top(w) EXCEPT !.moveTimer = IF moving THEN capped ELSE 0])
            EXCEPT !.volume = Clamp(dragged + by)]

OptionsUpdate(w, in) ==
    LET p == Picked(Top(w).picker, 4, in)
        moved == SetTop(w, [Top(w) EXCEPT !.picker = p])
    IN  Leave(CASE p = 0 -> FullScreenSet(moved, in)
                [] p = 1 -> AspectSet(moved, in)
                [] p = 2 -> VolumeSet(moved, in)
                [] p = 3 -> IF Chosen(in) THEN PushState(moved, "RebindState") ELSE moved,
              in)

\* The file is "absent" (no bytes) or there: {bytes}.
Loaded(w, in) ==
    IF "Up" \in in.pressed /\ w.file # {}
    THEN LET bytes == CHOOSE b \in w.file : TRUE
         IN  SetTop(w, [Top(w) EXCEPT !.number = ReadInt(Load(Packet, bytes), in.memory)])
    ELSE w

\* The script does not look at what Save returns.
Saved(w, in) ==
    IF "Down" \in in.pressed /\ in.opens
    THEN [w EXCEPT !.file = {WriteInt(Packet, Top(w).number).data},
                   !.lastSaved = Top(w).number]
    ELSE w

Counted(w, in) ==
    IF Pressed(in, {"Select", "A"})
    THEN SetTop(w, [Top(w) EXCEPT !.number = (@ + 1) % (ByteBase * ByteBase)])
    ELSE w

SaveTestUpdate(w, in) == Leave(Counted(Saved(Loaded(w, in), in), in), in)

RebindUpdate(w, in) ==
    IF Top(w).asks = 0 THEN Leave(w, in)
    ELSE IF in.done THEN SetTop(w, [Top(w) EXCEPT !.asks = 0])
    ELSE w

\* Of the sound test and the input test the stack sees that B leaves them.
Update(w, in) ==
    CASE Top(w).name = "MenuState" -> MenuUpdate(w, in)
      [] Top(w).name = "OptionsState" -> OptionsUpdate(w, in)
      [] Top(w).name = "SaveTestState" -> SaveTestUpdate(w, in)
      [] Top(w).name = "RebindState" -> RebindUpdate(w, in)
      [] OTHER -> Leave(w, in)

-----------------------------------------------------------------------------
(* tick *)

\* The first state is made by the first tick, when every class is loaded.
Started(w) ==
    IF w.stack # <<>> THEN [w EXCEPT !.dropFrame = FALSE]
    ELSE IF Uses("MenuState") \subseteq w.defined
    THEN [w EXCEPT !.dropFrame = FALSE, !.stack = <<New("MenuState")>>]
    ELSE Fail([w EXCEPT !.dropFrame = FALSE])

Ticked(w, in) == IF Started(w).ok THEN Update(Started(w), in) ELSE Started(w)

\* Draw clears the buffer; a state that writes needs PrintString.
Writes(name) == name \notin {"SoundTestState", "InputTestState"}

DrawFails(w) == Writes(Top(w).name) /\ "Text" \notin w.defined

\* The function tick: what it leaves, and the picture in the back buffer.
Tick(w, in, picture) ==
    LET t == Ticked(w, in)
    IN  IF ~t.ok \/ t.dropFrame THEN [world |-> t, picture |-> picture]
        ELSE IF DrawFails(t) THEN [world |-> Fail(t), picture |-> <<>>]
        ELSE [world |-> t, picture |-> <<Len(t.stack), Top(t)>>]
=============================================================================
