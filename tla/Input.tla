-------------------------------- MODULE Input --------------------------------
(***************************************************************************)
(* src/one/Core/Input.cpp and the event handling of src/one/Core/Window.cpp*)
(* (WindowUpdate): how key and gamepad events become the eight buttons the *)
(* game reads.  (The mouse button is in Game, which reads it.)             *)
(*                                                                         *)
(* A frame of main.cpp first resets the edges, polls the window's events,  *)
(* and then runs the scripts; phase says which.  The events are those SFML *)
(* can report for what the player does with the devices: a key event needs *)
(* the focus, a gamepad event does not, and nothing is reported for keys   *)
(* that go up or down while another window has the focus.                  *)
(***************************************************************************)
EXTENDS Integers, FiniteSets

CONSTANTS
    Keys,           \* the keys the player uses
    Escape,         \* the key that quits
    StrayKeys,      \* keys whose code also lies in the memory behind keyBinding
    Behind,         \* the buttons whose count or edge lies where such a key writes
    DefaultBinding, \* keyBinding after LoadGlobals
    JoyButtons,     \* the gamepad's buttons and axes that are used
    Axes,
    Rebound,        \* the buttons a script binds anew
    MaxRef          \* bound on a button's count

\* enum InputType::IT
Invalid == -1
A == 0
B == 1
Start == 2
Select == 3
Up == 4
Down == 5
Left == 6
Right == 7
Buttons == 0..7

ASSUME InputAssumption ==
    /\ StrayKeys \subseteq Keys
    /\ Behind \subseteq Buttons
    /\ DOMAIN DefaultBinding = Buttons
    /\ JoyButtons \subseteq Nat
    /\ Axes \subseteq {0, 1, 6, 7}
    /\ Rebound \subseteq Buttons
    /\ MaxRef \in Nat

VARIABLES
    buttonRef, buttonPress, reBind, keyBinding,
    axisButton, \* the directions WindowUpdate has pressed for an axis
    fullScreen, winFullScreen, quit,
    phase,      \* "poll" in WindowUpdate's loop, "script" after it
    \* the devices and the window system
    focused, keysDown, joyDown, axis,
    \* history of what the player did, in which no count or latch is looked at
    hits,       \* the buttons pressed since the frame began
    live,       \* device and button of the presses since the last reset that
                \* have not been released
    robbed,     \* buttons held by live presses, one of which was cancelled by
                \* the release of a device whose own press was forgotten
    orphaned,   \* buttons pressed by a device whose release went elsewhere
    adrift,     \* directions an axis left without a report of its centre
    overruled,  \* axes out of the dead zone whose direction another axis of
                \* the same two directions cleared in its centre
    smashed     \* a write past the end of the button arrays has happened

counts == <<buttonRef, buttonPress>>
bindings == <<reBind, keyBinding>>
devices == <<focused, keysDown, joyDown, axis>>
window == <<fullScreen, winFullScreen, quit>>
presses == <<hits, live, robbed, orphaned>>
sticks == <<axisButton, adrift, overruled>>
inputVars == <<counts, bindings, sticks, window, phase, devices, presses, smashed>>

-----------------------------------------------------------------------------
(* Input.cpp *)

\* The button a key stands for: the first match of the loops in InputPress and
\* InputUnPress.  They run past the table, as far as index 31.
Bound(binding, k) == {b \in Buttons : binding[b] = k}

Target(binding, k) == CHOOSE b \in Bound(binding, k) : \A c \in Bound(binding, k) : b <= c

\* The buttons a key stands for: one or none.
KeyTarget(binding, k) == IF Bound(binding, k) = {} THEN {} ELSE {Target(binding, k)}

Press(b) ==
    /\ buttonRef[b] < MaxRef
    /\ buttonRef' = [buttonRef EXCEPT ![b] = @ + 1]
    /\ buttonPress' = [buttonPress EXCEPT ![b] = TRUE]

\* Mutant: the edge survives the release.
UnPressKeepsEdge(S) ==
    /\ buttonRef' = [b \in Buttons |->
          IF b \in S /\ buttonRef[b] > 0 THEN buttonRef[b] - 1 ELSE buttonRef[b]]
    /\ UNCHANGED buttonPress

UnPress(S) ==
    /\ buttonRef' = [b \in Buttons |->
          IF b \in S /\ buttonRef[b] > 0 THEN buttonRef[b] - 1 ELSE buttonRef[b]]
    /\ buttonPress' = [b \in Buttons |-> buttonPress[b] /\ ~(b \in S /\ buttonRef[b] = 1)]

\* A match behind the table writes behind the arrays: buttonPress[i] = true may
\* fall on an edge or a count, ++buttonRef[i] on an edge, or both elsewhere.
\* Bound: one such write between two resets, after which "smashed" stands.
Smash ==
    /\ ~smashed
    /\ smashed' = TRUE
    /\ \/ \E b \in Behind : buttonPress' = [buttonPress EXCEPT ![b] = TRUE] /\ UNCHANGED buttonRef
       \/ \E b \in Behind : buttonRef' = [buttonRef EXCEPT ![b] = 1] /\ UNCHANGED buttonPress
       \/ UNCHANGED counts

\* What one key event does under a binding, if "step" is what it does to the
\* button it stands for.
KeyStep(binding, k, step(_)) ==
    IF Bound(binding, k) # {} THEN step(Target(binding, k)) /\ UNCHANGED smashed
    ELSE IF k \in StrayKeys THEN Smash
    ELSE UNCHANGED <<counts, smashed>>

\* Mutant: the key is looked up before it is bound.
InputPressBindsLast(k) ==
    LET bound == IF reBind = Invalid THEN keyBinding
                                     ELSE [keyBinding EXCEPT ![reBind] = k]
    IN  /\ keyBinding' = bound
        /\ reBind' = Invalid
        /\ KeyStep(keyBinding, k, Press)

InputPress(k) ==
    LET bound == IF reBind = Invalid THEN keyBinding
                                     ELSE [keyBinding EXCEPT ![reBind] = k]
    IN  /\ keyBinding' = bound
        /\ reBind' = Invalid
        /\ KeyStep(bound, k, Press)

InputUnPress(k) ==
    LET release(b) == UnPress({b}) IN KeyStep(keyBinding, k, release) /\ UNCHANGED bindings

Cleared == [b \in Buttons |-> 0]
NoEdge == [b \in Buttons |-> FALSE]

\* Mutant: the counts survive a reset.
InputResetAllButCounts ==
    /\ buttonPress' = NoEdge
    /\ UNCHANGED buttonRef
    /\ smashed' = FALSE

InputResetAll ==
    /\ buttonPress' = NoEdge
    /\ buttonRef' = Cleared
    /\ smashed' = FALSE

-----------------------------------------------------------------------------
(* The history of the presses.  A device is <<"key", k>>, <<"joy", j>> or, for *)
(* the directions of the axes, <<"axis", d>>.                                  *)

Live(b) == {p \in live : p[2] = b}

\* A device presses the buttons S.
Pressed(dev, S) ==
    /\ hits' = hits \cup S
    /\ live' = live \cup {<<dev, b>> : b \in S}
    /\ UNCHANGED <<robbed, orphaned>>

\* The devices D go up, and the program releases the buttons S for them.
Released(D, S) ==
    /\ live' = {p \in live : p[1] \notin D}
    /\ robbed' = {b \in robbed \cup {b \in S : \A dev \in D : <<dev, b>> \notin live} : Live(b)' # {}}
    /\ orphaned' = orphaned \cup {b \in Buttons \ S : \E dev \in D : <<dev, b>> \in live}
    /\ UNCHANGED hits

\* A reset forgets all presses.
Forgotten == live' = {} /\ robbed' = {} /\ orphaned' = {}

-----------------------------------------------------------------------------
(* WindowUpdate: the head of the frame and the events it polls *)

\* InputResetPress, and the window made anew if a script has changed
\* fullScreen; a video mode that is not valid falls back to a window.
BeginFrame ==
    /\ phase = "script"
    /\ ~quit
    /\ phase' = "poll"
    /\ hits' = {}
    /\ IF fullScreen # winFullScreen
       THEN /\ \E valid \in BOOLEAN : fullScreen' = (fullScreen /\ valid)
            /\ winFullScreen' = fullScreen'
            /\ InputResetAll
            /\ Forgotten
       ELSE /\ buttonPress' = NoEdge
            /\ UNCHANGED <<buttonRef, fullScreen, winFullScreen, live, robbed, orphaned, smashed>>
    /\ UNCHANGED <<bindings, sticks, quit, devices>>

EndPoll ==
    /\ phase = "poll"
    /\ phase' = "script"
    /\ UNCHANGED <<counts, bindings, sticks, window, devices, presses, smashed>>

KeyPressed(k) ==
    /\ phase = "poll"
    /\ focused
    /\ k \notin keysDown
    /\ keysDown' = keysDown \cup {k}
    /\ IF k = Escape
       THEN quit' = TRUE /\ UNCHANGED <<counts, bindings, presses, smashed>>
       ELSE InputPress(k) /\ Pressed(<<"key", k>>, KeyTarget(keyBinding', k)) /\ UNCHANGED quit
    /\ UNCHANGED <<sticks, fullScreen, winFullScreen, phase, focused, joyDown, axis>>

KeyReleased(k) ==
    /\ phase = "poll"
    /\ focused
    /\ k \in keysDown
    /\ keysDown' = keysDown \ {k}
    /\ InputUnPress(k)
    /\ Released({<<"key", k>>}, KeyTarget(keyBinding, k))
    /\ UNCHANGED <<sticks, window, phase, focused, joyDown, axis>>

Closed ==
    /\ phase = "poll"
    /\ quit' = TRUE
    /\ UNCHANGED <<counts, bindings, sticks, fullScreen, winFullScreen,
                   phase, devices, presses, smashed>>

LostFocus ==
    /\ phase = "poll"
    /\ focused
    /\ focused' = FALSE
    /\ InputResetAll
    /\ Forgotten
    /\ UNCHANGED <<hits, bindings, sticks, window, phase, keysDown, joyDown, axis>>

\* The gamepad buttons and the buttons they stand for; others do nothing.
JoyTarget(j) ==
    CASE j = 0 -> {A} [] j = 1 -> {B} [] j \in {2, 6} -> {Select}
      [] j \in {3, 7} -> {Start} [] OTHER -> {}

JoystickButtonPressed(j) ==
    /\ phase = "poll"
    /\ j \notin joyDown
    /\ joyDown' = joyDown \cup {j}
    /\ IF JoyTarget(j) = {} THEN UNCHANGED counts ELSE \A b \in JoyTarget(j) : Press(b)
    /\ Pressed(<<"joy", j>>, JoyTarget(j))
    /\ UNCHANGED <<bindings, sticks, window, phase, focused, keysDown, axis, smashed>>

JoystickButtonReleased(j) ==
    /\ phase = "poll"
    /\ j \in joyDown
    /\ joyDown' = joyDown \ {j}
    /\ UnPress(JoyTarget(j))
    /\ Released({<<"joy", j>>}, JoyTarget(j))
    /\ UNCHANGED <<bindings, sticks, window, phase, focused, keysDown, axis, smashed>>

\* The two directions of an axis: for a negative position (of axis 1, which is
\* negated first, a positive one) and for the opposite.
Directions(a) == IF a \in {0, 6} THEN <<Left, Right>> ELSE <<Down, Up>>

Both(a) == {Directions(a)[1], Directions(a)[2]}

Toward(a, pos) ==
    LET p == IF a = 1 THEN -pos ELSE pos
    IN  IF p < 0 THEN Directions(a)[1] ELSE Directions(a)[2]

\* Mutant: only the direction the axis comes from is released.
CentreOne(a) ==
    /\ UnPress(axisButton \cap {Directions(a)[1]})
    /\ axisButton' = axisButton \ {Directions(a)[1]}

Centre(a) ==
    /\ UnPress(axisButton \cap Both(a))
    /\ axisButton' = axisButton \ Both(a)

\* An axis in the dead zone: both directions are released, the one that another
\* axis of the pair is pushed to included.
AxisCentred(a) ==
    /\ Centre(a)
    /\ Released({<<"axis", d>> : d \in axisButton \cap Both(a)}, axisButton \cap Both(a))
    /\ adrift' = adrift \ Both(a)
    /\ overruled' = {c \in overruled \cup {c \in Axes : Both(c) = Both(a)} : axis'[c] # 0}

\* An axis pushed to d: its other direction stays pressed if it was not in the
\* dead zone on the way.
AxisPushed(a, d) ==
    /\ IF d \in axisButton
       THEN UNCHANGED <<counts, axisButton, presses>>
       ELSE Press(d) /\ axisButton' = axisButton \cup {d} /\ Pressed(<<"axis", d>>, {d})
    /\ adrift' = (IF axis[a] = 0 \/ a \in overruled THEN adrift
                                                   ELSE adrift \cup {Toward(a, axis[a])}) \ {d}
    /\ overruled' = overruled \ {a}

\* Positions: -1 and 1 outside the dead zone, 0 inside it.  An axis may also move
\* inside its zone.
JoystickMoved(a, pos) ==
    /\ phase = "poll"
    /\ axis' = [axis EXCEPT ![a] = pos]
    /\ IF pos = 0 THEN AxisCentred(a) ELSE AxisPushed(a, Toward(a, pos))
    /\ UNCHANGED <<bindings, window, phase, focused, keysDown, joyDown, smashed>>

-----------------------------------------------------------------------------
(* What the program is not told of *)

GainedFocus ==
    /\ ~focused
    /\ focused' = TRUE
    /\ UNCHANGED <<counts, bindings, sticks, window, phase, keysDown,
                   joyDown, axis, presses, smashed>>

KeyElsewhere(k) ==
    /\ ~focused
    /\ keysDown' = IF k \in keysDown THEN keysDown \ {k} ELSE keysDown \cup {k}
    /\ UNCHANGED <<counts, bindings, sticks, window, phase, focused,
                   joyDown, axis, presses, smashed>>

\* SFML reports a gamepad that is unplugged, not its buttons; WindowUpdate
\* handles neither.
Unplug ==
    /\ joyDown # {} \/ \E a \in Axes : axis[a] # 0
    /\ joyDown' = {}
    /\ axis' = [a \in Axes |-> 0]
    /\ Released({<<"joy", j>> : j \in joyDown}, {})
    /\ adrift' = adrift \cup {Toward(a, axis[a]) : a \in {a \in Axes \ overruled : axis[a] # 0}}
    /\ overruled' = {}
    /\ UNCHANGED <<counts, bindings, axisButton, window, phase, focused, keysDown, smashed>>

-----------------------------------------------------------------------------
(* What scripts do to the input: Input.SetRebind and Globals.SetFullScreen *)

SetRebind(b) ==
    /\ phase = "script"
    /\ reBind' = b
    /\ UNCHANGED <<counts, keyBinding, sticks, window, phase, devices, presses, smashed>>

SetFullScreen(v) ==
    /\ phase = "script"
    /\ fullScreen' = v
    /\ UNCHANGED <<counts, bindings, sticks, winFullScreen, quit, phase,
                   devices, presses, smashed>>

-----------------------------------------------------------------------------
Init ==
    /\ buttonRef = Cleared
    /\ buttonPress = NoEdge
    /\ reBind = Invalid
    /\ keyBinding = DefaultBinding
    /\ axisButton = {}
    /\ fullScreen = FALSE
    /\ winFullScreen = FALSE
    /\ quit = FALSE
    /\ phase = "script"
    /\ focused = TRUE
    /\ keysDown = {}
    /\ joyDown = {}
    /\ axis = [a \in Axes |-> 0]
    /\ hits = {} /\ live = {} /\ robbed = {} /\ orphaned = {}
    /\ adrift = {} /\ overruled = {}
    /\ smashed = FALSE

PadEvent ==
    \/ \E j \in JoyButtons : JoystickButtonPressed(j) \/ JoystickButtonReleased(j)
    \/ \E a \in Axes, pos \in -1..1 : JoystickMoved(a, pos)

Event ==
    \/ \E k \in Keys : KeyPressed(k) \/ KeyReleased(k)
    \/ Closed
    \/ LostFocus
    \/ PadEvent

Unseen == GainedFocus \/ (\E k \in Keys : KeyElsewhere(k)) \/ Unplug

Script == (\E v \in BOOLEAN : SetFullScreen(v)) \/ (\E b \in Rebound : SetRebind(b))

Next == BeginFrame \/ EndPoll \/ Event \/ Unseen \/ Script

Spec == Init /\ [][Next]_inputVars

-----------------------------------------------------------------------------
TypeOK ==
    /\ buttonRef \in [Buttons -> 0..MaxRef]
    /\ buttonPress \in [Buttons -> BOOLEAN]
    /\ reBind \in Buttons \cup {Invalid}
    /\ DOMAIN keyBinding = Buttons
    /\ axisButton \cup adrift \subseteq {Up, Down, Left, Right}
    /\ {fullScreen, winFullScreen, quit, focused, smashed} \subseteq BOOLEAN
    /\ phase \in {"poll", "script"}
    /\ keysDown \subseteq Keys
    /\ joyDown \subseteq JoyButtons
    /\ axis \in [Axes -> -1..1]
    /\ overruled \subseteq Axes
    /\ hits \cup robbed \cup orphaned \subseteq Buttons
    /\ \A p \in live : p[2] \in Buttons

\* A script sees a button pressed exactly in the frame of a press that still
\* holds: the edge is not lost while the device that pressed, or another that
\* pressed the button since the last reset, is down, and it never outlives them.
\* The code breaks the first for a button that is robbed: a key held over a reset
\* cancels, when it goes up, the press of another device (Input.cpp:46).  It
\* breaks the second for an orphaned one.
EdgeExact ==
    ~smashed => \A b \in Buttons :
        /\ b \in hits /\ Live(b) # {} /\ b \notin robbed => buttonPress[b]
        /\ buttonPress[b] /\ b \notin orphaned => b \in hits /\ Live(b) # {}

\* A device is down, or is a direction the stick has left unreported.
IsDown(dev) ==
    CASE dev[1] = "key" -> dev[2] \in keysDown
      [] dev[1] = "joy" -> dev[2] \in joyDown
      [] OTHER -> dev[2] \in adrift \/ \E a \in Axes : axis[a] # 0 /\ Toward(a, axis[a]) = dev[2]

\* No button is held by nothing: a count never exceeds the devices that pressed
\* the button since the last reset and are still down, whatever resets, releases
\* nobody reports and other devices come in between.  Exceptions are the buttons
\* whose release went to another button or was not reported (orphaned), and the
\* direction of a stick that was flicked to the other side (adrift).
NoPhantomHold ==
    ~smashed => \A b \in Buttons \ orphaned :
        buttonRef[b] <= Cardinality({p \in Live(b) : IsDown(p[1])})

\* The latches are the directions the axes are pushed to, although four axes share
\* four latches: except that one axis in its centre clears the latch of another
\* (overruled) until that moves again, and that a direction stays latched after a
\* flick to the other side or the loss of the pad (adrift).
LatchesFollowAxes ==
    axisButton = adrift \cup {Toward(a, axis[a]) : a \in {a \in Axes \ overruled : axis[a] # 0}}
=============================================================================
