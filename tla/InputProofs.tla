----------------------------- MODULE InputProofs -----------------------------
(* Theorems about Input, for every set of keys, binding and gamepad, and about *)
(* RebindWizard, the screen on top of it.                                      *)
EXTENDS RebindWizard, FiniteSetTheorems, TLAPS

CountTypes == buttonRef \in [Buttons -> Nat] /\ buttonPress \in [Buttons -> BOOLEAN]

\* An edge is set in the frame of a press as long as the count is not 0 again.
EdgeIsCounted ==
    ~smashed => \A b \in Buttons : buttonPress[b] <=> b \in hits /\ buttonRef[b] > 0

EdgeInv == CountTypes /\ EdgeIsCounted

AxisInv ==
    /\ axis \in [Axes -> -1 .. 1]
    /\ LatchesFollowAxes

\* A step of the program, of the player, or of a script that binds any button.
AnyStep == [Next]_inputVars \/ \E b \in Buttons : SetRebind(b)

-----------------------------------------------------------------------------
(* What a press, a release and a reset do to the counts *)

LEMMA PressCounts ==
    ASSUME EdgeInv, NEW b \in Buttons, Press(b), hits' = hits \cup {b}
    PROVE  CountTypes' /\ (smashed' = smashed => EdgeIsCounted')
<1>1. buttonRef \in [Buttons -> Nat] /\ buttonPress \in [Buttons -> BOOLEAN]
  BY DEF EdgeInv, CountTypes
<1>2. /\ buttonRef' = [buttonRef EXCEPT ![b] = buttonRef[b] + 1]
      /\ buttonPress' = [buttonPress EXCEPT ![b] = TRUE]
      /\ hits' = hits \cup {b}
  BY DEF Press
<1>3. buttonRef' \in [Buttons -> Nat] /\ buttonPress' \in [Buttons -> BOOLEAN]
  BY <1>1, <1>2
<1>4. ASSUME NEW c \in Buttons, c # b
      PROVE  /\ buttonRef'[c] = buttonRef[c] /\ buttonPress'[c] = buttonPress[c]
             /\ c \in hits' <=> c \in hits
  BY <1>1, <1>2, <1>4
<1>5. buttonRef'[b] > 0 /\ buttonPress'[b] = TRUE /\ b \in hits'
  BY <1>1, <1>2
<1> QED
  BY <1>3, <1>4, <1>5 DEF CountTypes, EdgeInv, EdgeIsCounted

LEMMA UnPressCounts ==
    ASSUME EdgeInv, NEW S, UnPress(S), hits' = hits
    PROVE  CountTypes' /\ (smashed' = smashed => EdgeIsCounted')
<1>1. buttonRef \in [Buttons -> Nat] /\ buttonPress \in [Buttons -> BOOLEAN]
  BY DEF EdgeInv, CountTypes
<1>2. /\ buttonRef' = [b \in Buttons |->
              IF b \in S /\ buttonRef[b] > 0 THEN buttonRef[b] - 1 ELSE buttonRef[b]]
      /\ buttonPress' = [b \in Buttons |-> buttonPress[b] /\ ~(b \in S /\ buttonRef[b] = 1)]
      /\ hits' = hits
  BY DEF UnPress
<1>3. buttonRef' \in [Buttons -> Nat]
  BY <1>1, <1>2
<1>4. buttonPress' \in [Buttons -> BOOLEAN]
  BY <1>2
<1>5. ASSUME NEW b \in Buttons, ~smashed
      PROVE  buttonPress'[b] <=> b \in hits' /\ buttonRef'[b] > 0
  <2>1. buttonPress[b] <=> b \in hits /\ buttonRef[b] > 0
    BY <1>5 DEF EdgeInv, EdgeIsCounted
  <2>2. buttonPress'[b] <=> buttonPress[b] /\ ~(b \in S /\ buttonRef[b] = 1)
    BY <1>2
  <2>3. buttonRef[b] \in Nat
    BY <1>1
  <2>4. buttonRef'[b] =
            IF b \in S /\ buttonRef[b] > 0 THEN buttonRef[b] - 1 ELSE buttonRef[b]
    BY <1>2
  <2>5. buttonRef[b] > 0 => (buttonRef'[b] > 0 <=> ~(b \in S /\ buttonRef[b] = 1))
    BY <2>3, <2>4
  <2>6. ~(buttonRef[b] > 0) => ~(buttonRef'[b] > 0)
    BY <2>3, <2>4
  <2> QED
    BY <1>2, <2>1, <2>2, <2>5, <2>6
<1> QED
  BY <1>3, <1>4, <1>5 DEF CountTypes, EdgeIsCounted

LEMMA ResetCounts ==
    ASSUME buttonPress' = NoEdge, buttonRef' = Cleared
    PROVE  EdgeInv'
<1>1. buttonRef' = [b \in Buttons |-> 0] /\ buttonPress' = [b \in Buttons |-> FALSE]
  BY DEF NoEdge, Cleared
<1>2. \A b \in Buttons : buttonRef'[b] = 0 /\ ~buttonPress'[b]
  BY <1>1
<1>3. buttonRef' \in [Buttons -> Nat] /\ buttonPress' \in [Buttons -> BOOLEAN]
  BY <1>1
<1> QED
  BY <1>2, <1>3 DEF EdgeInv, CountTypes, EdgeIsCounted

LEMMA SmashCounts ==
    ASSUME EdgeInv, Smash
    PROVE  CountTypes' /\ smashed' = TRUE
<1>1. buttonRef \in [Buttons -> Nat] /\ buttonPress \in [Buttons -> BOOLEAN]
  BY DEF EdgeInv, CountTypes
<1>2. smashed' = TRUE
  BY DEF Smash
<1>3. ASSUME NEW b \in Behind, buttonPress' = [buttonPress EXCEPT ![b] = TRUE] /\ UNCHANGED buttonRef
      PROVE  CountTypes'
  BY <1>1, <1>3 DEF CountTypes
<1>4. ASSUME NEW b \in Behind, buttonRef' = [buttonRef EXCEPT ![b] = 1] /\ UNCHANGED buttonPress
      PROVE  CountTypes'
  BY <1>1, <1>4 DEF CountTypes
<1>5. ASSUME UNCHANGED counts
      PROVE  CountTypes'
  BY <1>1, <1>5 DEF CountTypes, counts
<1>6. \/ \E b \in Behind : buttonPress' = [buttonPress EXCEPT ![b] = TRUE] /\ UNCHANGED buttonRef
      \/ \E b \in Behind : buttonRef' = [buttonRef EXCEPT ![b] = 1] /\ UNCHANGED buttonPress
      \/ UNCHANGED counts
  BY DEF Smash
<1>7. CountTypes'
  BY <1>3, <1>4, <1>5, <1>6
<1> QED
  BY <1>2, <1>7

LEMMA TargetIsLeast ==
    ASSUME NEW binding, NEW k, Bound(binding, k) # {}
    PROVE  /\ Target(binding, k) \in Bound(binding, k)
           /\ \A c \in Bound(binding, k) : Target(binding, k) <= c
<1> DEFINE S == Bound(binding, k)
<1>1. S \subseteq 0 .. 7
  BY DEF Bound, Buttons
<1> HIDE DEF S
<1>2. \E b \in S : \A c \in S : b <= c
  <2>1. CASE 0 \in S
    BY <1>1, <2>1
  <2>2. CASE 0 \notin S /\ 1 \in S
    BY <1>1, <2>2
  <2>3. CASE S \cap {0, 1} = {} /\ 2 \in S
    BY <1>1, <2>3
  <2>4. CASE S \cap {0, 1, 2} = {} /\ 3 \in S
    BY <1>1, <2>4
  <2>5. CASE S \cap {0, 1, 2, 3} = {} /\ 4 \in S
    BY <1>1, <2>5
  <2>6. CASE S \cap {0, 1, 2, 3, 4} = {} /\ 5 \in S
    BY <1>1, <2>6
  <2>7. CASE S \cap {0, 1, 2, 3, 4, 5} = {} /\ 6 \in S
    BY <1>1, <2>7
  <2>8. CASE S \cap {0, 1, 2, 3, 4, 5, 6} = {}
    <3>1. S \subseteq {7}
      BY <1>1, <2>8
    <3>2. 7 \in S
      BY <3>1 DEF S
    <3> QED
      BY <3>1, <3>2
  <2> QED
    BY <2>1, <2>2, <2>3, <2>4, <2>5, <2>6, <2>7, <2>8
<1>3. Target(binding, k) \in S /\ \A c \in S : Target(binding, k) <= c
  BY <1>2 DEF Target, S
<1> QED
  BY <1>3 DEF S

LEMMA TargetIsButton ==
    ASSUME NEW binding, NEW k, Bound(binding, k) # {}
    PROVE  Target(binding, k) \in Buttons
  BY TargetIsLeast DEF Bound

\* One key event: a press or a release of the button it stands for, a write
\* behind the arrays, or nothing.
LEMMA KeyPressCounts ==
    ASSUME EdgeInv, NEW k, InputPress(k), Pressed(<<"key", k>>, KeyTarget(keyBinding', k))
    PROVE  EdgeInv'
<1> DEFINE bound == keyBinding'
<1>1. KeyStep(bound, k, Press) /\ hits' = hits \cup KeyTarget(bound, k)
  BY DEF InputPress, Pressed
<1> HIDE DEF bound
<1>2. CASE Bound(bound, k) # {}
  <2>1. Press(Target(bound, k)) /\ smashed' = smashed /\ hits' = hits \cup {Target(bound, k)}
    BY <1>1, <1>2 DEF KeyStep, KeyTarget
  <2> QED
    BY <1>2, <2>1, TargetIsButton, PressCounts DEF EdgeInv
<1>3. CASE Bound(bound, k) = {} /\ k \in StrayKeys
  <2>1. Smash
    BY <1>1, <1>3 DEF KeyStep
  <2> QED
    BY <2>1, SmashCounts DEF EdgeInv, EdgeIsCounted
<1>4. CASE Bound(bound, k) = {} /\ k \notin StrayKeys
  <2>1. UNCHANGED <<counts, smashed>> /\ hits' = hits
    BY <1>1, <1>4 DEF KeyStep, KeyTarget
  <2> QED
    BY <2>1 DEF EdgeInv, EdgeIsCounted, CountTypes, counts
<1> QED
  BY <1>2, <1>3, <1>4

LEMMA KeyReleaseCounts ==
    ASSUME EdgeInv, NEW k, InputUnPress(k), hits' = hits
    PROVE  EdgeInv'
<1> DEFINE release(b) == UnPress({b})
<1>1. KeyStep(keyBinding, k, release)
  BY DEF InputUnPress
<1>2. CASE Bound(keyBinding, k) # {}
  <2>1. UnPress({Target(keyBinding, k)}) /\ smashed' = smashed
    BY <1>1, <1>2 DEF KeyStep
  <2> QED
    BY <1>2, <2>1, UnPressCounts DEF EdgeInv
<1>3. CASE Bound(keyBinding, k) = {} /\ k \in StrayKeys
  <2>1. Smash
    BY <1>1, <1>3 DEF KeyStep
  <2> QED
    BY <2>1, SmashCounts DEF EdgeInv, EdgeIsCounted
<1>4. CASE Bound(keyBinding, k) = {} /\ k \notin StrayKeys
  <2>1. UNCHANGED <<counts, smashed>>
    BY <1>1, <1>4 DEF KeyStep
  <2> QED
    BY <2>1 DEF EdgeInv, EdgeIsCounted, CountTypes, counts
<1> QED
  BY <1>2, <1>3, <1>4

LEMMA DirectionsAreButtons ==
    ASSUME NEW a, NEW pos
    PROVE  Both(a) \subseteq Buttons /\ Toward(a, pos) \in Both(a)
<1>1. Directions(a) \in {<<Left, Right>>, <<Down, Up>>}
  BY DEF Directions
<1>2. \A d \in {<<Left, Right>>, <<Down, Up>>} : d[1] \in Buttons /\ d[2] \in Buttons
  BY DEF Left, Right, Up, Down, Buttons
<1> QED
  BY <1>1, <1>2 DEF Toward, Both

\* Two axes share both directions or none.
LEMMA PairsAreApart ==
    ASSUME NEW a, NEW c, Both(a) \cap Both(c) # {}
    PROVE  Both(a) = Both(c)
<1>1. Directions(a) \in {<<Left, Right>>, <<Down, Up>>} /\ Directions(c) \in {<<Left, Right>>, <<Down, Up>>}
  BY DEF Directions
<1>2. Left # Down /\ Left # Up /\ Right # Down /\ Right # Up
  BY DEF Left, Right, Up, Down
<1>3. Both(a) \in {{Left, Right}, {Down, Up}} /\ Both(c) \in {{Left, Right}, {Down, Up}}
  BY <1>1 DEF Both
<1> QED
  BY <1>2, <1>3

-----------------------------------------------------------------------------
(* The steps *)

LEMMA EdgeStep ==
    ASSUME EdgeInv, AnyStep
    PROVE  EdgeInv'
<1>1. ASSUME UNCHANGED <<counts, hits, smashed>>
      PROVE  EdgeInv'
  BY <1>1 DEF EdgeInv, EdgeIsCounted, CountTypes, counts
<1>2. ASSUME buttonPress' = NoEdge, buttonRef' = Cleared
      PROVE  EdgeInv'
  BY <1>2, ResetCounts
<1>3. CASE BeginFrame
  <2>1. CASE fullScreen # winFullScreen
    <3>1. InputResetAll
      BY <1>3, <2>1 DEF BeginFrame
    <3> QED
      BY <1>2, <3>1 DEF InputResetAll
  <2>2. CASE fullScreen = winFullScreen
    <3>1. buttonPress' = NoEdge /\ buttonRef' = buttonRef /\ hits' = {}
      BY <1>3, <2>2 DEF BeginFrame
    <3>2. buttonPress' \in [Buttons -> BOOLEAN] /\ \A b \in Buttons : ~buttonPress'[b]
      BY <3>1 DEF NoEdge
    <3> QED
      BY <3>1, <3>2 DEF EdgeInv, CountTypes, EdgeIsCounted
  <2> QED
    BY <2>1, <2>2
<1>4. CASE EndPoll
  BY <1>1, <1>4 DEF EndPoll, presses
<1>5. ASSUME NEW k \in Keys, KeyPressed(k)
      PROVE  EdgeInv'
  <2>1. CASE k = Escape
    BY <1>1, <1>5, <2>1 DEF KeyPressed, presses
  <2>2. CASE k # Escape
    BY <1>5, <2>2, KeyPressCounts DEF KeyPressed
  <2> QED
    BY <2>1, <2>2
<1>6. ASSUME NEW k \in Keys, KeyReleased(k)
      PROVE  EdgeInv'
  BY <1>6, KeyReleaseCounts DEF KeyReleased, Released
<1>7. CASE Closed
  BY <1>1, <1>7 DEF Closed, presses
<1>8. CASE LostFocus
  BY <1>2, <1>8 DEF LostFocus, InputResetAll
<1>9. ASSUME NEW j \in JoyButtons, JoystickButtonPressed(j)
      PROVE  EdgeInv'
  <2>1. smashed' = smashed /\ hits' = hits \cup JoyTarget(j)
    BY <1>9 DEF JoystickButtonPressed, Pressed
  <2>2. CASE JoyTarget(j) = {}
    BY <1>1, <1>9, <2>1, <2>2 DEF JoystickButtonPressed
  <2>3. CASE JoyTarget(j) # {}
    <3>1. PICK b \in JoyTarget(j) : Press(b)
      BY <1>9, <2>3 DEF JoystickButtonPressed
    <3>2. b \in Buttons /\ JoyTarget(j) = {b}
      BY <3>1 DEF JoyTarget, A, B, Select, Start, Buttons
    <3> QED
      BY <2>1, <3>1, <3>2, PressCounts DEF EdgeInv
  <2> QED
    BY <2>2, <2>3
<1>10. ASSUME NEW j \in JoyButtons, JoystickButtonReleased(j)
       PROVE  EdgeInv'
  <2>1. smashed' = smashed /\ hits' = hits /\ UnPress(JoyTarget(j))
    BY <1>10 DEF JoystickButtonReleased, Released
  <2> QED
    BY <2>1, UnPressCounts DEF EdgeInv
<1>11. ASSUME NEW a \in Axes, NEW pos \in -1 .. 1, JoystickMoved(a, pos)
       PROVE  EdgeInv'
  <2>1. smashed' = smashed
    BY <1>11 DEF JoystickMoved
  <2>2. CASE pos = 0
    <3>1. UnPress(axisButton \cap Both(a)) /\ hits' = hits
      BY <1>11, <2>2 DEF JoystickMoved, AxisCentred, Centre, Released
    <3> QED
      BY <2>1, <3>1, UnPressCounts DEF EdgeInv
  <2>3. CASE pos # 0 /\ Toward(a, pos) \in axisButton
    BY <1>1, <1>11, <2>1, <2>3 DEF JoystickMoved, AxisPushed, presses
  <2>4. CASE pos # 0 /\ Toward(a, pos) \notin axisButton
    <3>1. Press(Toward(a, pos)) /\ hits' = hits \cup {Toward(a, pos)}
      BY <1>11, <2>4 DEF JoystickMoved, AxisPushed, Pressed
    <3>2. Toward(a, pos) \in Buttons
      BY DirectionsAreButtons
    <3> QED
      BY <2>1, <3>1, <3>2, PressCounts DEF EdgeInv
  <2> QED
    BY <2>2, <2>3, <2>4
<1>12. CASE Unseen
  BY <1>1, <1>12 DEF Unseen, GainedFocus, KeyElsewhere, Unplug, Released, presses
<1>13. CASE Script
  BY <1>1, <1>13 DEF Script, SetFullScreen, SetRebind, presses
<1>14. CASE UNCHANGED inputVars
  BY <1>1, <1>14 DEF inputVars, presses
<1>15. ASSUME NEW b \in Buttons, SetRebind(b)
       PROVE  EdgeInv'
  BY <1>1, <1>15 DEF SetRebind, presses
<1> QED
  BY <1>3, <1>4, <1>5, <1>6, <1>7, <1>8, <1>9, <1>10, <1>11, <1>12, <1>13, <1>14, <1>15
     DEF AnyStep, Next, Event, PadEvent

LEMMA EdgeInit == ASSUME Init PROVE EdgeInv
<1>1. /\ buttonRef = [b \in Buttons |-> 0] /\ buttonPress = [b \in Buttons |-> FALSE]
      /\ hits = {}
  BY DEF Init, Cleared, NoEdge
<1> QED
  BY <1>1 DEF EdgeInv, EdgeIsCounted, CountTypes

LEMMA AxisStep ==
    ASSUME AxisInv, AnyStep
    PROVE  AxisInv'
<1>1. ASSUME UNCHANGED <<axis, sticks>>
      PROVE  AxisInv'
  BY <1>1 DEF AxisInv, LatchesFollowAxes, sticks
<1>2. CASE BeginFrame
  BY <1>1, <1>2 DEF BeginFrame, devices
<1>3. CASE EndPoll \/ Closed
  BY <1>1, <1>3 DEF EndPoll, Closed, devices
<1>4. ASSUME NEW k \in Keys, KeyPressed(k) \/ KeyReleased(k) \/ KeyElsewhere(k)
      PROVE  AxisInv'
  BY <1>1, <1>4 DEF KeyPressed, KeyReleased, KeyElsewhere
<1>5. CASE LostFocus \/ GainedFocus
  BY <1>1, <1>5 DEF LostFocus, GainedFocus
<1>6. ASSUME NEW j \in JoyButtons, JoystickButtonPressed(j) \/ JoystickButtonReleased(j)
      PROVE  AxisInv'
  BY <1>1, <1>6 DEF JoystickButtonPressed, JoystickButtonReleased
<1>7. ASSUME NEW a \in Axes, NEW pos \in -1 .. 1, JoystickMoved(a, pos)
      PROVE  AxisInv'
  <2>1. axis' = [axis EXCEPT ![a] = pos]
    BY <1>7 DEF JoystickMoved
  <2>2. axis' \in [Axes -> -1 .. 1] /\ axis'[a] = pos
        /\ \A c \in Axes : c # a => axis'[c] = axis[c]
    BY <2>1 DEF AxisInv
  <2>3. CASE pos = 0
    <3>1. /\ axisButton' = axisButton \ Both(a) /\ adrift' = adrift \ Both(a)
          /\ overruled' = {c \in overruled \cup {c \in Axes : Both(c) = Both(a)} : axis'[c] # 0}
      BY <1>7, <2>3 DEF JoystickMoved, AxisCentred, Centre
    <3>2. ASSUME NEW d \in axisButton'
          PROVE  d \in adrift' \/ \E c \in Axes \ overruled' : axis'[c] # 0 /\ d = Toward(c, axis'[c])
      <4>1. CASE d \in adrift
        BY <3>1, <4>1
      <4>2. CASE d \notin adrift
        <5>1. PICK c \in Axes \ overruled : axis[c] # 0 /\ d = Toward(c, axis[c])
          BY <3>1, <4>2 DEF AxisInv, LatchesFollowAxes
        <5>2. d \in Both(c) /\ d \notin Both(a)
          BY <3>1, <5>1, DirectionsAreButtons
        <5>3. Both(c) # Both(a) /\ c # a
          BY <5>2
        <5> QED
          BY <2>2, <3>1, <5>1, <5>3
      <4> QED
        BY <4>1, <4>2
    <3>3. ASSUME NEW c \in Axes \ overruled', axis'[c] # 0
          PROVE  Toward(c, axis'[c]) \in axisButton'
      <4>1. c \notin overruled /\ Both(c) # Both(a) /\ c # a
        BY <2>2, <2>3, <3>1, <3>3
      <4>2. axis'[c] = axis[c] /\ Toward(c, axis[c]) \in axisButton
        BY <2>2, <3>3, <4>1 DEF AxisInv, LatchesFollowAxes
      <4>3. Toward(c, axis[c]) \notin Both(a)
        BY <4>1, DirectionsAreButtons, PairsAreApart
      <4> QED
        BY <3>1, <4>2, <4>3
    <3>4. adrift' \subseteq axisButton'
      BY <3>1 DEF AxisInv, LatchesFollowAxes
    <3> QED
      BY <2>2, <3>2, <3>3, <3>4 DEF AxisInv, LatchesFollowAxes
  <2>4. CASE pos # 0
    <3> DEFINE e == Toward(a, pos)
    <3>1. /\ axisButton' = axisButton \cup {e}
          /\ adrift' = (IF axis[a] = 0 \/ a \in overruled THEN adrift
                                                      ELSE adrift \cup {Toward(a, axis[a])}) \ {e}
          /\ overruled' = overruled \ {a}
      <4>1. AxisPushed(a, e)
        BY <1>7, <2>4 DEF JoystickMoved
      <4> HIDE DEF e
      <4> QED
        BY <4>1 DEF AxisPushed
    <3>2. e = Toward(a, axis'[a]) /\ axis'[a] # 0 /\ a \notin overruled'
      BY <2>2, <2>4, <3>1
    <3> HIDE DEF e
    <3>3. ASSUME NEW d \in axisButton'
          PROVE  d \in adrift' \/ \E c \in Axes \ overruled' : axis'[c] # 0 /\ d = Toward(c, axis'[c])
      <4>1. CASE d = e
        BY <3>2, <4>1
      <4>2. CASE d # e /\ d \in adrift
        BY <3>1, <4>2
      <4>3. CASE d # e /\ d \notin adrift
        <5>1. PICK c \in Axes \ overruled : axis[c] # 0 /\ d = Toward(c, axis[c])
          BY <3>1, <4>3 DEF AxisInv, LatchesFollowAxes
        <5>2. CASE c = a
          BY <3>1, <4>3, <5>1, <5>2
        <5>3. CASE c # a
          BY <2>2, <3>1, <5>1, <5>3
        <5> QED
          BY <5>2, <5>3
      <4> QED
        BY <4>1, <4>2, <4>3
    <3>4. ASSUME NEW c \in Axes \ overruled', axis'[c] # 0
          PROVE  Toward(c, axis'[c]) \in axisButton'
      <4>1. CASE c = a
        BY <3>1, <3>2, <4>1
      <4>2. CASE c # a
        BY <2>2, <3>1, <3>4, <4>2 DEF AxisInv, LatchesFollowAxes
      <4> QED
        BY <4>1, <4>2
    <3>5. adrift' \subseteq axisButton'
      BY <3>1 DEF AxisInv, LatchesFollowAxes
    <3> QED
      BY <2>2, <3>3, <3>4, <3>5 DEF AxisInv, LatchesFollowAxes
  <2> QED
    BY <2>3, <2>4
<1>8. CASE Unplug
  <2>1. axis' = [c \in Axes |-> 0] /\ axisButton' = axisButton
        /\ adrift' = adrift \cup {Toward(a, axis[a]) : a \in {a \in Axes \ overruled : axis[a] # 0}}
    BY <1>8 DEF Unplug
  <2>2. axis' \in [Axes -> -1 .. 1] /\ \A c \in Axes : axis'[c] = 0
    BY <2>1
  <2>3. adrift' = axisButton'
    BY <2>1 DEF AxisInv, LatchesFollowAxes
  <2> QED
    BY <2>2, <2>3 DEF AxisInv, LatchesFollowAxes
<1>9. CASE Script
  BY <1>1, <1>9 DEF Script, SetFullScreen, SetRebind, devices
<1>10. ASSUME NEW b \in Buttons, SetRebind(b)
       PROVE  AxisInv'
  BY <1>1, <1>10 DEF SetRebind, devices
<1>11. CASE UNCHANGED inputVars
  BY <1>1, <1>11 DEF inputVars, devices
<1> QED
  BY <1>2, <1>3, <1>4, <1>5, <1>6, <1>7, <1>8, <1>9, <1>10, <1>11
     DEF AnyStep, Next, Event, PadEvent, Unseen

LEMMA AxisInit == ASSUME Init PROVE AxisInv
<1>1. axis = [a \in Axes |-> 0] /\ axisButton = {} /\ adrift = {}
  BY DEF Init
<1>2. axis \in [Axes -> -1 .. 1] /\ \A a \in Axes : axis[a] = 0
  BY <1>1
<1> QED
  BY <1>1, <1>2 DEF AxisInv, LatchesFollowAxes

\* The latches are exactly the directions the axes are pushed to, up to those a
\* stick left without its centre and those another axis cleared: axisButton of
\* WindowUpdate, for any set of axes and any movement.
THEOREM LatchesAreExact == Spec => []LatchesFollowAxes
<1>1. AxisInv /\ [Next]_inputVars => AxisInv'
  BY AxisStep DEF AnyStep
<1>2. AxisInv => LatchesFollowAxes
  BY DEF AxisInv
<1> QED
  BY AxisInit, <1>1, <1>2, PTL DEF Spec

-----------------------------------------------------------------------------
(* The devices that hold a button *)

\* A live press is that of a device that is down, as WindowUpdate has been told.
LiveTypes ==
    \A p \in live :
        \/ \E k \in keysDown, b \in Buttons : focused /\ p = <<<<"key", k>>, b>>
        \/ \E j \in joyDown, b \in Buttons : p = <<<<"joy", j>>, b>>
        \/ \E d \in axisButton \cap Buttons : p = <<<<"axis", d>>, d>>

\* The count of a button is the number of its live presses, but for the releases
\* that went to the wrong button.
CountsLive ==
    ~smashed => \A b \in Buttons :
        /\ b \notin robbed => Cardinality(Live(b)) <= buttonRef[b]
        /\ b \notin orphaned => buttonRef[b] <= Cardinality(Live(b))

LiveInv == EdgeInv /\ IsFiniteSet(live) /\ LiveTypes /\ CountsLive

LEMMA LiveIsFinite ==
    ASSUME IsFiniteSet(live), NEW b
    PROVE  IsFiniteSet(Live(b)) /\ Cardinality(Live(b)) \in Nat
<1>1. Live(b) \in SUBSET live
  BY DEF Live
<1> QED
  BY <1>1, FS_Subset, FS_CardinalityType

LEMMA PressLive ==
    ASSUME LiveInv, NEW b \in Buttons, NEW dev, Press(b), Pressed(dev, {b}),
           <<dev, b>> \notin live, smashed' = smashed
    PROVE  IsFiniteSet(live') /\ CountsLive'
<1>1. live' = live \cup {<<dev, b>>} /\ robbed' = robbed /\ orphaned' = orphaned
  BY DEF Pressed
<1>2. IsFiniteSet(live')
  BY <1>1, FS_AddElement DEF LiveInv
<1>3. buttonRef \in [Buttons -> Nat] /\ buttonRef' = [buttonRef EXCEPT ![b] = buttonRef[b] + 1]
  BY DEF LiveInv, EdgeInv, CountTypes, Press
<1>4. ASSUME NEW c \in Buttons, ~smashed
      PROVE  /\ c \notin robbed' => Cardinality(Live(c)') <= buttonRef'[c]
             /\ c \notin orphaned' => buttonRef'[c] <= Cardinality(Live(c)')
  <2>1. /\ c \notin robbed => Cardinality(Live(c)) <= buttonRef[c]
        /\ c \notin orphaned => buttonRef[c] <= Cardinality(Live(c))
    BY <1>4 DEF LiveInv, CountsLive
  <2>2. IsFiniteSet(Live(c)) /\ Cardinality(Live(c)) \in Nat /\ buttonRef[c] \in Nat
    BY <1>3, LiveIsFinite DEF LiveInv
  <2>3. CASE c = b
    <3>1. Live(c)' = Live(c) \cup {<<dev, b>>} /\ <<dev, b>> \notin Live(c)
      BY <1>1, <2>3 DEF Live
    <3>2. Cardinality(Live(c)') = Cardinality(Live(c)) + 1
      BY <2>2, <3>1, FS_AddElement
    <3>3. buttonRef'[c] = buttonRef[c] + 1
      BY <1>3, <2>3
    <3> QED
      BY <1>1, <2>1, <2>2, <3>2, <3>3
  <2>4. CASE c # b
    <3>1. Live(c)' = Live(c)
      BY <1>1, <2>4 DEF Live
    <3>2. buttonRef'[c] = buttonRef[c]
      BY <1>3, <2>4
    <3> QED
      BY <1>1, <2>1, <3>1, <3>2
  <2> QED
    BY <2>3, <2>4
<1> QED
  BY <1>2, <1>4 DEF CountsLive

\* A release of the buttons S for the devices D, one of which at most has pressed
\* each of them.
LEMMA ReleaseLive ==
    ASSUME LiveInv, NEW D, NEW S, Released(D, S), smashed' = smashed,
           \A b \in Buttons : buttonRef'[b] =
               IF b \in S /\ buttonRef[b] > 0 THEN buttonRef[b] - 1 ELSE buttonRef[b],
           \A b \in S : \E x : \A p \in Live(b) : p[1] \in D => p = x
    PROVE  IsFiniteSet(live') /\ CountsLive'
<1>1. /\ live' = {p \in live : p[1] \notin D}
      /\ robbed' = {b \in robbed \cup {b \in S : \A dev \in D : <<dev, b>> \notin live} : Live(b)' # {}}
      /\ orphaned' = orphaned \cup {b \in Buttons \ S : \E dev \in D : <<dev, b>> \in live}
  BY DEF Released
<1>2. IsFiniteSet(live')
  <2>1. live' \in SUBSET live
    BY <1>1
  <2> QED
    BY <2>1, FS_Subset DEF LiveInv
<1>3. ASSUME NEW b \in Buttons, ~smashed
      PROVE  /\ b \notin robbed' => Cardinality(Live(b)') <= buttonRef'[b]
             /\ b \notin orphaned' => buttonRef'[b] <= Cardinality(Live(b)')
  <2>1. /\ b \notin robbed => Cardinality(Live(b)) <= buttonRef[b]
        /\ b \notin orphaned => buttonRef[b] <= Cardinality(Live(b))
    BY <1>3 DEF LiveInv, CountsLive
  <2>2. /\ IsFiniteSet(Live(b)) /\ Cardinality(Live(b)) \in Nat
        /\ buttonRef[b] \in Nat
    BY LiveIsFinite DEF LiveInv, EdgeInv, CountTypes
  <2>3. Live(b)' = {p \in Live(b) : p[1] \notin D}
    BY <1>1 DEF Live
  <2>4. IsFiniteSet(Live(b)') /\ Cardinality(Live(b)') \in Nat /\ Cardinality(Live(b)') <= Cardinality(Live(b))
    <3>1. Live(b)' \in SUBSET Live(b)
      BY <2>3
    <3> QED
      BY <2>2, <3>1, FS_Subset, FS_CardinalityType
  <2>5. \A p \in Live(b) : p = <<p[1], b>> /\ p \in live
    BY DEF Live, LiveInv, LiveTypes
  <2>6. buttonRef'[b] = IF b \in S /\ buttonRef[b] > 0 THEN buttonRef[b] - 1 ELSE buttonRef[b]
    OBVIOUS
  <2>7. CASE b \in S
    <3>1. PICK x : \A p \in Live(b) : p[1] \in D => p = x
      BY <2>7
    <3>2. Live(b) \ {x} \in SUBSET Live(b)'
      BY <2>3, <3>1
    <3>3. IsFiniteSet(Live(b) \ {x}) /\
          Cardinality(Live(b) \ {x}) = IF x \in Live(b) THEN Cardinality(Live(b)) - 1 ELSE Cardinality(Live(b))
      BY <2>2, FS_RemoveElement
    <3>4. Cardinality(Live(b) \ {x}) <= Cardinality(Live(b)')
      BY <2>4, <3>2, FS_Subset
    <3>5. ASSUME b \notin orphaned' PROVE buttonRef'[b] <= Cardinality(Live(b)')
      <4>1. buttonRef[b] <= Cardinality(Live(b))
        BY <1>1, <2>1, <3>5
      <4>2. buttonRef'[b] = IF buttonRef[b] > 0 THEN buttonRef[b] - 1 ELSE 0
        BY <2>2, <2>6, <2>7
      <4>3. Cardinality(Live(b) \ {x}) >= Cardinality(Live(b)) - 1
        BY <2>2, <3>3
      <4>4. Cardinality(Live(b) \ {x}) \in Nat
        BY <3>3, FS_CardinalityType
      <4> QED
        BY <2>2, <2>4, <3>4, <4>1, <4>2, <4>3, <4>4
    <3>6. ASSUME b \notin robbed' PROVE Cardinality(Live(b)') <= buttonRef'[b]
      <4>1. CASE Live(b)' = {}
        <5>1. Cardinality(Live(b)') = 0
          BY <4>1, FS_EmptySet
        <5> QED
          BY <2>2, <2>6, <5>1
      <4>2. CASE Live(b)' # {}
        <5>1. b \notin robbed
          BY <1>1, <3>6, <4>2
        <5>2. PICK dev \in D : <<dev, b>> \in live
          BY <1>1, <2>7, <3>6, <4>2
        <5>3. <<dev, b>> \in Live(b) /\ <<dev, b>>[1] \in D
          BY <5>2 DEF Live
        <5>4. x = <<dev, b>> /\ x \in Live(b) /\ x \notin Live(b)'
          BY <2>3, <3>1, <5>3
        <5>5. Live(b)' \in SUBSET (Live(b) \ {x})
          BY <2>3, <5>4
        <5>6. Cardinality(Live(b)') <= Cardinality(Live(b) \ {x})
          BY <3>3, <5>5, FS_Subset
        <5>7. Cardinality(Live(b) \ {x}) = Cardinality(Live(b)) - 1
          BY <3>3, <5>4
        <5> QED
          BY <2>1, <2>2, <2>4, <2>6, <5>1, <5>6, <5>7
      <4> QED
        BY <4>1, <4>2
    <3> QED
      BY <3>5, <3>6
  <2>8. CASE b \notin S
    <3>1. buttonRef'[b] = buttonRef[b]
      BY <2>6, <2>8
    <3>2. ASSUME b \notin orphaned' PROVE buttonRef'[b] <= Cardinality(Live(b)')
      <4>1. b \notin orphaned /\ \A dev \in D : <<dev, b>> \notin live
        BY <1>1, <2>8, <3>2
      <4>2. Live(b)' = Live(b)
        BY <2>3, <2>5, <4>1
      <4> QED
        BY <2>1, <3>1, <4>1, <4>2
    <3>3. ASSUME b \notin robbed' PROVE Cardinality(Live(b)') <= buttonRef'[b]
      <4>1. CASE Live(b)' = {}
        <5>1. Cardinality(Live(b)') = 0
          BY <4>1, FS_EmptySet
        <5> QED
          BY <2>2, <3>1, <5>1
      <4>2. CASE Live(b)' # {}
        <5>1. b \notin robbed
          BY <1>1, <3>3, <4>2
        <5> QED
          BY <2>1, <2>2, <2>4, <3>1, <5>1
      <4> QED
        BY <4>1, <4>2
    <3> QED
      BY <3>2, <3>3
  <2> QED
    BY <2>7, <2>8
<1> QED
  BY <1>2, <1>3 DEF CountsLive

LEMMA ResetLive ==
    ASSUME live' = {}, buttonRef' = Cleared
    PROVE  IsFiniteSet(live') /\ LiveTypes' /\ CountsLive'
<1>1. IsFiniteSet(live')
  BY FS_EmptySet
<1>2. \A b \in Buttons : Cardinality(Live(b)') = 0 /\ buttonRef'[b] = 0
  <2>1. \A b \in Buttons : Live(b)' = {}
    BY DEF Live
  <2> QED
    BY <2>1, FS_EmptySet DEF Cleared
<1>3. CountsLive'
  BY <1>2 DEF CountsLive
<1>4. LiveTypes'
  BY DEF LiveTypes
<1> QED
  BY <1>1, <1>3, <1>4

LEMMA LiveStep ==
    ASSUME LiveInv, AnyStep
    PROVE  LiveInv'
<1> SUFFICES IsFiniteSet(live') /\ LiveTypes' /\ CountsLive'
  BY EdgeStep DEF LiveInv
<1>1. ASSUME UNCHANGED <<buttonRef, live, robbed, orphaned, smashed>>
      PROVE  IsFiniteSet(live') /\ CountsLive'
  BY <1>1 DEF LiveInv, CountsLive, Live
<1>2. ASSUME UNCHANGED <<live, keysDown, joyDown, axisButton>>, focused => focused'
      PROVE  LiveTypes'
  BY <1>2 DEF LiveInv, LiveTypes
<1>3. CASE BeginFrame
  <2>1. CASE fullScreen # winFullScreen
    <3>1. InputResetAll /\ Forgotten
      BY <1>3, <2>1 DEF BeginFrame
    <3> QED
      BY <3>1, ResetLive DEF InputResetAll, Forgotten
  <2>2. CASE fullScreen = winFullScreen
    BY <1>1, <1>2, <1>3, <2>2 DEF BeginFrame, devices, sticks
  <2> QED
    BY <2>1, <2>2
<1>4. CASE EndPoll \/ Closed
  BY <1>1, <1>2, <1>4 DEF EndPoll, Closed, counts, devices, sticks, presses
<1>5. ASSUME NEW k \in Keys, KeyPressed(k)
      PROVE  IsFiniteSet(live') /\ LiveTypes' /\ CountsLive'
  <2>1. /\ focused /\ focused' = focused /\ k \notin keysDown /\ keysDown' = keysDown \cup {k}
        /\ axisButton' = axisButton /\ joyDown' = joyDown
    BY <1>5 DEF KeyPressed, sticks
  <2>2. CASE k = Escape
    <3>1. UNCHANGED <<buttonRef, live, robbed, orphaned, smashed>>
      BY <1>5, <2>2 DEF KeyPressed, counts, presses
    <3>2. LiveTypes'
      BY <2>1, <3>1 DEF LiveInv, LiveTypes
    <3> QED
      BY <1>1, <3>1, <3>2
  <2>3. CASE k # Escape
    <3> DEFINE bound == keyBinding'
    <3>1. KeyStep(bound, k, Press) /\ Pressed(<<"key", k>>, KeyTarget(bound, k))
      BY <1>5, <2>3 DEF KeyPressed, InputPress
    <3> HIDE DEF bound
    <3>2. CASE Bound(bound, k) # {}
      <4>1. PICK t \in Buttons : t = Target(bound, k)
        BY <3>2, TargetIsButton
      <4>2. Press(t) /\ smashed' = smashed /\ Pressed(<<"key", k>>, {t})
        BY <3>1, <3>2, <4>1 DEF KeyStep, KeyTarget
      <4>3. <<<<"key", k>>, t>> \notin live
        BY <2>1 DEF LiveInv, LiveTypes
      <4>4. IsFiniteSet(live') /\ CountsLive'
        BY <4>2, <4>3, PressLive
      <4>5. live' = live \cup {<<<<"key", k>>, t>>}
        BY <4>2 DEF Pressed
      <4>6. LiveTypes'
        BY <2>1, <4>5 DEF LiveInv, LiveTypes
      <4> QED
        BY <4>4, <4>6
    <3>3. CASE Bound(bound, k) = {}
      <4>1. live' = live /\ robbed' = robbed /\ orphaned' = orphaned
        BY <3>1, <3>3 DEF Pressed, KeyTarget
      <4>2. LiveTypes'
        BY <2>1, <4>1 DEF LiveInv, LiveTypes
      <4>3. CASE k \in StrayKeys
        <5>1. smashed' = TRUE
          BY <3>1, <3>3, <4>3 DEF KeyStep, Smash
        <5> QED
          BY <4>1, <4>2, <5>1 DEF LiveInv, CountsLive
      <4>4. CASE k \notin StrayKeys
        <5>1. UNCHANGED <<buttonRef, smashed>>
          BY <3>1, <3>3, <4>4 DEF KeyStep, counts
        <5> QED
          BY <1>1, <4>1, <4>2, <5>1
      <4> QED
        BY <4>3, <4>4
    <3> QED
      BY <3>2, <3>3
  <2> QED
    BY <2>2, <2>3
<1>6. ASSUME NEW k \in Keys, KeyReleased(k)
      PROVE  IsFiniteSet(live') /\ LiveTypes' /\ CountsLive'
  <2> DEFINE D == {<<"key", k>>}
             S == KeyTarget(keyBinding, k)
             release(b) == UnPress({b})
  <2>1. /\ keysDown' = keysDown \ {k} /\ focused' = focused
        /\ axisButton' = axisButton /\ joyDown' = joyDown
        /\ Released(D, S) /\ KeyStep(keyBinding, k, release)
    BY <1>6 DEF KeyReleased, sticks, InputUnPress
  <2>2. live' = {p \in live : p[1] \notin D}
    BY <2>1 DEF Released
  <2>3. LiveTypes'
    BY <2>1, <2>2 DEF LiveInv, LiveTypes
  <2>4. \A b \in S : \E x : \A p \in Live(b) : p[1] \in D => p = x
    <3>1. \A b \in S : \A p \in Live(b) : p[1] \in D => p = <<<<"key", k>>, b>>
      BY DEF Live, LiveInv, LiveTypes
    <3> QED
      BY <3>1
  <2>5. CASE Bound(keyBinding, k) # {}
    <3>1. UnPress(S) /\ smashed' = smashed
      BY <2>1, <2>5 DEF KeyStep, KeyTarget
    <3>2. \A b \in Buttons : buttonRef'[b] =
              IF b \in S /\ buttonRef[b] > 0 THEN buttonRef[b] - 1 ELSE buttonRef[b]
      BY <3>1 DEF UnPress
    <3> HIDE DEF D, S
    <3> QED
      BY <2>1, <2>3, <2>4, <3>1, <3>2, ReleaseLive
  <2>6. CASE Bound(keyBinding, k) = {} /\ k \in StrayKeys
    <3>1. smashed' = TRUE
      BY <2>1, <2>6 DEF KeyStep, Smash
    <3>2. live' \in SUBSET live
      BY <2>2
    <3> QED
      BY <2>3, <3>1, <3>2, FS_Subset DEF LiveInv, CountsLive
  <2>7. CASE Bound(keyBinding, k) = {} /\ k \notin StrayKeys
    <3>1. UNCHANGED <<buttonRef, smashed>> /\ S = {}
      BY <2>1, <2>7 DEF KeyStep, KeyTarget, counts
    <3>2. \A b \in Buttons : buttonRef'[b] =
              IF b \in S /\ buttonRef[b] > 0 THEN buttonRef[b] - 1 ELSE buttonRef[b]
      BY <3>1
    <3> HIDE DEF D, S
    <3> QED
      BY <2>1, <2>3, <2>4, <3>1, <3>2, ReleaseLive
  <2> QED
    BY <2>5, <2>6, <2>7
<1>7. CASE LostFocus
  BY <1>7, ResetLive DEF LostFocus, InputResetAll, Forgotten
<1>8. ASSUME NEW j \in JoyButtons, JoystickButtonPressed(j)
      PROVE  IsFiniteSet(live') /\ LiveTypes' /\ CountsLive'
  <2>1. /\ UNCHANGED <<focused, keysDown, axisButton, smashed>>
        /\ j \notin joyDown /\ joyDown' = joyDown \cup {j}
        /\ Pressed(<<"joy", j>>, JoyTarget(j))
    BY <1>8 DEF JoystickButtonPressed, sticks
  <2>2. CASE JoyTarget(j) = {}
    <3>1. UNCHANGED <<buttonRef, live, robbed, orphaned>>
      BY <1>8, <2>1, <2>2 DEF JoystickButtonPressed, Pressed, counts
    <3>2. LiveTypes'
      BY <2>1, <3>1 DEF LiveInv, LiveTypes
    <3> QED
      BY <1>1, <2>1, <3>1, <3>2
  <2>3. CASE JoyTarget(j) # {}
    <3>1. PICK t \in JoyTarget(j) : Press(t)
      BY <1>8, <2>3 DEF JoystickButtonPressed
    <3>2. t \in Buttons /\ JoyTarget(j) = {t}
      BY <3>1 DEF JoyTarget, A, B, Select, Start, Buttons
    <3>3. <<<<"joy", j>>, t>> \notin live
      BY <2>1 DEF LiveInv, LiveTypes
    <3>4. Pressed(<<"joy", j>>, {t})
      BY <2>1, <3>2
    <3>5. IsFiniteSet(live') /\ CountsLive'
      BY <2>1, <3>1, <3>2, <3>3, <3>4, PressLive
    <3>6. live' = live \cup {<<<<"joy", j>>, t>>}
      BY <3>4 DEF Pressed
    <3>7. LiveTypes'
      BY <2>1, <3>2, <3>6 DEF LiveInv, LiveTypes
    <3> QED
      BY <3>5, <3>7
  <2> QED
    BY <2>2, <2>3
<1>9. ASSUME NEW j \in JoyButtons, JoystickButtonReleased(j)
      PROVE  IsFiniteSet(live') /\ LiveTypes' /\ CountsLive'
  <2> DEFINE D == {<<"joy", j>>}
             S == JoyTarget(j)
  <2>1. /\ UNCHANGED <<focused, keysDown, axisButton, smashed>>
        /\ joyDown' = joyDown \ {j}
        /\ UnPress(S) /\ Released(D, S)
    BY <1>9 DEF JoystickButtonReleased, sticks
  <2>2. live' = {p \in live : p[1] \notin D}
    BY <2>1 DEF Released
  <2>3. LiveTypes'
    BY <2>1, <2>2 DEF LiveInv, LiveTypes
  <2>4. \A b \in S : \E x : \A p \in Live(b) : p[1] \in D => p = x
    <3>1. \A b \in S : \A p \in Live(b) : p[1] \in D => p = <<<<"joy", j>>, b>>
      BY DEF Live, LiveInv, LiveTypes
    <3> QED
      BY <3>1
  <2>5. \A b \in Buttons : buttonRef'[b] =
            IF b \in S /\ buttonRef[b] > 0 THEN buttonRef[b] - 1 ELSE buttonRef[b]
    BY <2>1 DEF UnPress
  <2> HIDE DEF D, S
  <2> QED
    BY <2>1, <2>3, <2>4, <2>5, ReleaseLive
<1>10. ASSUME NEW a \in Axes, NEW pos \in -1 .. 1, JoystickMoved(a, pos)
       PROVE  IsFiniteSet(live') /\ LiveTypes' /\ CountsLive'
  <2>1. UNCHANGED <<focused, keysDown, joyDown, smashed>>
    BY <1>10 DEF JoystickMoved
  <2>2. CASE pos = 0
    <3> DEFINE S == axisButton \cap Both(a)
               D == {<<"axis", d>> : d \in S}
    <3>1. UnPress(S) /\ Released(D, S) /\ axisButton' = axisButton \ Both(a)
      BY <1>10, <2>2 DEF JoystickMoved, AxisCentred, Centre
    <3>2. live' = {p \in live : p[1] \notin D}
      BY <3>1 DEF Released
    <3>3. LiveTypes'
      <4> SUFFICES ASSUME NEW p \in live, p[1] \notin D
                   PROVE \/ \E k \in keysDown, b \in Buttons : focused /\ p = <<<<"key", k>>, b>>
                         \/ \E j \in joyDown, b \in Buttons : p = <<<<"joy", j>>, b>>
                         \/ \E d \in axisButton' \cap Buttons : p = <<<<"axis", d>>, d>>
        BY <2>1, <3>2 DEF LiveTypes
      <4>1. CASE \E d \in axisButton \cap Buttons : p = <<<<"axis", d>>, d>>
        <5>1. PICK d \in axisButton \cap Buttons : p = <<<<"axis", d>>, d>>
          BY <4>1
        <5>2. d \notin Both(a)
          BY <5>1
        <5> QED
          BY <3>1, <5>1, <5>2
      <4> QED
        BY <4>1 DEF LiveInv, LiveTypes
    <3>4. \A b \in S : \E x : \A p \in Live(b) : p[1] \in D => p = x
      <4>1. \A b \in S : \A p \in Live(b) : p[1] \in D => p = <<<<"axis", b>>, b>>
        BY DEF Live, LiveInv, LiveTypes
      <4> QED
        BY <4>1
    <3>5. \A b \in Buttons : buttonRef'[b] =
              IF b \in S /\ buttonRef[b] > 0 THEN buttonRef[b] - 1 ELSE buttonRef[b]
      BY <3>1 DEF UnPress
    <3> HIDE DEF D, S
    <3> QED
      BY <2>1, <3>1, <3>3, <3>4, <3>5, ReleaseLive
  <2>3. CASE pos # 0 /\ Toward(a, pos) \in axisButton
    <3>1. UNCHANGED <<buttonRef, axisButton, live, robbed, orphaned>>
      BY <1>10, <2>3 DEF JoystickMoved, AxisPushed, counts, presses
    <3> QED
      BY <1>1, <1>2, <2>1, <3>1
  <2>4. CASE pos # 0 /\ Toward(a, pos) \notin axisButton
    <3>1. PICK t \in Buttons : t = Toward(a, pos)
      BY DirectionsAreButtons
    <3>2. /\ Press(t) /\ axisButton' = axisButton \cup {t} /\ t \notin axisButton
          /\ Pressed(<<"axis", t>>, {t})
      BY <1>10, <2>4, <3>1 DEF JoystickMoved, AxisPushed
    <3>3. <<<<"axis", t>>, t>> \notin live
      BY <3>2 DEF LiveInv, LiveTypes
    <3>4. IsFiniteSet(live') /\ CountsLive'
      BY <2>1, <3>2, <3>3, PressLive
    <3>5. live' = live \cup {<<<<"axis", t>>, t>>}
      BY <3>2 DEF Pressed
    <3>6. LiveTypes'
      BY <2>1, <3>2, <3>5 DEF LiveInv, LiveTypes
    <3> QED
      BY <3>4, <3>6
  <2> QED
    BY <2>2, <2>3, <2>4
<1>11. CASE GainedFocus
  BY <1>1, <1>2, <1>11 DEF GainedFocus, counts, sticks, presses
<1>12. ASSUME NEW k \in Keys, KeyElsewhere(k)
       PROVE  IsFiniteSet(live') /\ LiveTypes' /\ CountsLive'
  <2>1. ~focused /\ UNCHANGED <<buttonRef, live, robbed, orphaned, smashed, joyDown, axisButton>>
    BY <1>12 DEF KeyElsewhere, counts, sticks, presses
  <2>2. LiveTypes'
    BY <2>1 DEF LiveInv, LiveTypes
  <2> QED
    BY <1>1, <2>1, <2>2
<1>13. CASE Unplug
  <2> DEFINE D == {<<"joy", j>> : j \in joyDown}
             S == {}
  <2>1. /\ UNCHANGED <<buttonRef, axisButton, focused, keysDown, smashed>>
        /\ joyDown' = {} /\ Released(D, S)
    BY <1>13 DEF Unplug, counts
  <2>2. live' = {p \in live : p[1] \notin D}
    BY <2>1 DEF Released
  <2>3. LiveTypes'
    BY <2>1, <2>2 DEF LiveInv, LiveTypes
  <2>4. /\ \A b \in S : \E x : \A p \in Live(b) : p[1] \in D => p = x
        /\ \A b \in Buttons : buttonRef'[b] =
               IF b \in S /\ buttonRef[b] > 0 THEN buttonRef[b] - 1 ELSE buttonRef[b]
    BY <2>1
  <2> HIDE DEF D, S
  <2> QED
    BY <2>1, <2>3, <2>4, ReleaseLive
<1>14. CASE Script
  BY <1>1, <1>2, <1>14 DEF Script, SetFullScreen, SetRebind, counts, devices, sticks, presses
<1>15. ASSUME NEW b \in Buttons, SetRebind(b)
       PROVE  IsFiniteSet(live') /\ LiveTypes' /\ CountsLive'
  BY <1>1, <1>2, <1>15 DEF SetRebind, counts, devices, sticks, presses
<1>16. CASE UNCHANGED inputVars
  BY <1>1, <1>2, <1>16 DEF inputVars, counts, devices, sticks, presses
<1> QED
  BY <1>3, <1>4, <1>5, <1>6, <1>7, <1>8, <1>9, <1>10, <1>11, <1>12, <1>13, <1>14, <1>15, <1>16
     DEF AnyStep, Next, Event, PadEvent, Unseen

LEMMA LiveInit == ASSUME Init PROVE LiveInv
<1>1. live = {} /\ buttonRef = [b \in Buttons |-> 0]
  BY DEF Init, Cleared
<1>2. IsFiniteSet(live) /\ LiveTypes
  BY <1>1, FS_EmptySet DEF LiveTypes
<1>3. \A b \in Buttons : Cardinality(Live(b)) = 0 /\ buttonRef[b] = 0
  <2>1. \A b \in Buttons : Live(b) = {}
    BY <1>1 DEF Live
  <2> QED
    BY <1>1, <2>1, FS_EmptySet
<1> QED
  BY <1>2, <1>3, EdgeInit DEF LiveInv, CountsLive

LEMMA LiveInvariance == Spec => []LiveInv
<1>1. LiveInv /\ [Next]_inputVars => LiveInv'
  BY LiveStep DEF AnyStep
<1> QED
  BY LiveInit, <1>1, PTL DEF Spec

LEMMA NonemptyIsPositive ==
    ASSUME NEW S, IsFiniteSet(S)
    PROVE  Cardinality(S) \in Nat /\ (Cardinality(S) > 0 <=> S # {})
  BY FS_CardinalityType, FS_EmptySet

\* An edge is neither lost while a device that pressed the button is down nor
\* outlives the last of them, for every binding and every gamepad, up to a button
\* that is robbed or orphaned (Input.cpp:22-70, Window.cpp:67-218).
THEOREM EdgesAreExact == Spec => []EdgeExact
<1>1. LiveInv => EdgeExact
  <2> SUFFICES ASSUME LiveInv, ~smashed, NEW b \in Buttons
               PROVE  /\ b \in hits /\ Live(b) # {} /\ b \notin robbed => buttonPress[b]
                      /\ buttonPress[b] /\ b \notin orphaned => b \in hits /\ Live(b) # {}
    BY DEF EdgeExact
  <2>1. buttonPress[b] <=> b \in hits /\ buttonRef[b] > 0
    BY DEF LiveInv, EdgeInv, EdgeIsCounted
  <2>2. /\ b \notin robbed => Cardinality(Live(b)) <= buttonRef[b]
        /\ b \notin orphaned => buttonRef[b] <= Cardinality(Live(b))
    BY DEF LiveInv, CountsLive
  <2>3. buttonRef[b] \in Nat
    BY DEF LiveInv, EdgeInv, CountTypes
  <2>4. Cardinality(Live(b)) \in Nat /\ (Cardinality(Live(b)) > 0 <=> Live(b) # {})
    BY LiveIsFinite, NonemptyIsPositive DEF LiveInv
  <2>5. b \notin robbed /\ Live(b) # {} => buttonRef[b] > 0
    BY <2>2, <2>3, <2>4
  <2>6. b \notin orphaned /\ buttonRef[b] > 0 => Live(b) # {}
    BY <2>2, <2>3, <2>4
  <2> QED
    BY <2>1, <2>5, <2>6
<1> QED
  BY <1>1, LiveInvariance, PTL

\* No count outlives the keys, pads and axes it counts: neither a loss of the focus
\* between a press and its release, nor two devices for one button, nor axes that
\* share a direction leaves a button held by nothing, up to a release that went to
\* another button and a stick that was flicked (Input.cpp:20-70, Window.cpp:67-218).
THEOREM NoPhantomHolds == Spec => []NoPhantomHold
<1>1. LiveInv /\ AxisInv => NoPhantomHold
  <2> SUFFICES ASSUME LiveInv, AxisInv, ~smashed, NEW b \in Buttons \ orphaned
               PROVE  buttonRef[b] <= Cardinality({p \in Live(b) : IsDown(p[1])})
    BY DEF NoPhantomHold
  <2>1. ASSUME NEW p \in Live(b) PROVE IsDown(p[1])
    <3>1. CASE \E k \in keysDown, c \in Buttons : focused /\ p = <<<<"key", k>>, c>>
      BY <3>1 DEF IsDown
    <3>2. CASE \E j \in joyDown, c \in Buttons : p = <<<<"joy", j>>, c>>
      BY <3>2 DEF IsDown
    <3>3. CASE \E d \in axisButton \cap Buttons : p = <<<<"axis", d>>, d>>
      <4>1. PICK d \in axisButton : p = <<<<"axis", d>>, d>>
        BY <3>3
      <4>2. d \in adrift \/ \E a \in Axes : axis[a] # 0 /\ Toward(a, axis[a]) = d
        BY <4>1 DEF AxisInv, LatchesFollowAxes
      <4>3. p[1][1] = "axis" /\ p[1][2] = d
        BY <4>1
      <4> QED
        BY <4>2, <4>3 DEF IsDown
    <3> QED
      BY <3>1, <3>2, <3>3 DEF Live, LiveInv, LiveTypes
  <2>2. {p \in Live(b) : IsDown(p[1])} = Live(b)
    BY <2>1
  <2> QED
    BY <2>2 DEF LiveInv, CountsLive
<1>2. Spec => []AxisInv
  <2>1. AxisInv /\ [Next]_inputVars => AxisInv'
    BY AxisStep DEF AnyStep
  <2> QED
    BY AxisInit, <2>1, PTL DEF Spec
<1> QED
  BY <1>1, <1>2, LiveInvariance, PTL

-----------------------------------------------------------------------------
(* The rebind screen, with a keyboard whose keys match nothing behind the    *)
(* table (StrayKeys = {}): after an over-read any edge may be set.           *)

\* A button that no button before it shares its key with.
Unshared(binding, b) == \A c \in Buttons : c < b => binding[c] # binding[b]

Bound1(b) == keyBinding[b] \in Keys /\ Unshared(keyBinding, b)

\* Every button asked for before this step and not passed with the gamepad has a
\* key; the last four, which come in the order of the table, keep theirs to
\* themselves.
Asked ==
    \A s \in DOMAIN Order : s < state /\ Order[s] \notin padded =>
        /\ keyBinding[Order[s]] \in Keys
        /\ s > 4 => Unshared(keyBinding, Order[s])

\* Until the script has run, an edge is that of a button with a key of its own or
\* comes from the gamepad, and only from that while the screen waits for a key.
EdgesAnswer ==
    ~updated =>
        /\ \A b \in Buttons : buttonPress[b] => Bound1(b) \/ b \in padHits
        /\ reBind # Invalid => \A b \in Buttons : buttonPress[b] => b \in padHits

\* What a key will be bound to: the button that is asked for, or still the last
\* one if the gamepad has passed it.
Asking ==
    reBind # Invalid =>
        \/ state \in DOMAIN Order /\ reBind = Order[state]
        \/ state > 8 /\ reBind = Order[8] /\ reBind \in padded

WizardInv ==
    /\ DOMAIN keyBinding = Buttons
    /\ buttonPress \in [Buttons -> BOOLEAN]
    /\ state \in 0 .. Gone
    /\ phase \in {"poll", "script"} /\ (phase = "poll" => ~updated)
    /\ Asking
    /\ EdgesAnswer
    /\ Asked

\* The last four buttons are asked for in the order of the table.
LEMMA OrderFacts ==
    /\ DOMAIN Order = 1 .. 8
    /\ \A s \in 1 .. 8 : Order[s] \in Buttons
    /\ \A s, r \in 1 .. 8 : s # r => Order[s] # Order[r]
    /\ \A s, r \in 5 .. 8 : s < r => Order[s] < Order[r]
    /\ {Order[s] : s \in 5 .. 8} = {A, B, Start, Select}
<1> USE DEF Order, Up, Right, Down, Left, A, B, Start, Select, Buttons
<1>1. DOMAIN Order = 1 .. 8
  OBVIOUS
<1>2. /\ Order[1] = 4 /\ Order[2] = 7 /\ Order[3] = 5 /\ Order[4] = 6
      /\ Order[5] = 0 /\ Order[6] = 1 /\ Order[7] = 2 /\ Order[8] = 3
  OBVIOUS
<1> HIDE DEF Order
<1> QED
  BY <1>1, <1>2

LEMMA UnsharedIsOwn ==
    ASSUME DOMAIN keyBinding = Buttons, NEW b \in Buttons, Unshared(keyBinding, b)
    PROVE  HasOwnKey(b)
<1> DEFINE t == Target(keyBinding, keyBinding[b])
<1>1. b \in Bound(keyBinding, keyBinding[b])
  BY DEF Bound
<1>2. t \in Buttons /\ keyBinding[t] = keyBinding[b] /\ t <= b
  BY <1>1, TargetIsLeast DEF Bound
<1>3. ~ (t < b)
  BY <1>2 DEF Unshared
<1> HIDE DEF t
<1>4. t = b
  BY <1>2, <1>3 DEF Buttons
<1> QED
  BY <1>4 DEF HasOwnKey, t

LEMMA TargetIsUnshared ==
    ASSUME NEW binding, NEW k, Bound(binding, k) # {}
    PROVE  /\ binding[Target(binding, k)] = k
           /\ Unshared(binding, Target(binding, k))
<1> DEFINE t == Target(binding, k)
<1>1. t \in Buttons /\ binding[t] = k /\ \A c \in Bound(binding, k) : t <= c
  BY TargetIsLeast DEF Bound
<1>2. ASSUME NEW c \in Buttons, c < t PROVE binding[c] # k
  <2>1. ~ (t <= c)
    BY <1>1, <1>2 DEF Buttons
  <2> QED
    BY <1>1, <2>1 DEF Bound
<1> QED
  BY <1>1, <1>2 DEF Unshared

\* The buttons that have been bound come before the one that is asked for in the
\* table, if that is one of the last four.
LEMMA AskingFacts ==
    ASSUME WizardInv, reBind # Invalid
    PROVE  /\ reBind \in Buttons
           /\ \A s \in 1 .. 8 : s < state /\ Order[s] \notin padded =>
                 Order[s] # reBind /\ (s > 4 => Order[s] < reBind)
<1>1. CASE state \in DOMAIN Order /\ reBind = Order[state]
  BY <1>1, OrderFacts
<1>2. CASE state > 8 /\ reBind = Order[8] /\ reBind \in padded
  <2> SUFFICES ASSUME NEW s \in 1 .. 8, Order[s] \notin padded
               PROVE  Order[s] # reBind /\ (s > 4 => Order[s] < reBind)
    BY <1>2, OrderFacts
  <2>1. s # 8
    BY <1>2
  <2> QED
    BY <1>2, <2>1, OrderFacts
<1> QED
  BY <1>1, <1>2 DEF WizardInv, Asking

\* A key that answers the screen: it is bound, and only then counted.
LEMMA AskedKeyPressed ==
    ASSUME WizardInv, ~updated, UNCHANGED <<updated, state, phase, padHits, padded>>,
           NEW k \in Keys, InputPress(k), reBind # Invalid
    PROVE  WizardInv'
<1> DEFINE r == reBind
           bound == [keyBinding EXCEPT ![r] = k]
           t == Target(bound, k)
<1>1. /\ r \in Buttons
      /\ \A b \in Buttons : buttonPress[b] => b \in padHits
  BY AskingFacts DEF WizardInv, EdgesAnswer
<1>2. DOMAIN bound = Buttons /\ bound[r] = k /\ \A b \in Buttons \ {r} : bound[b] = keyBinding[b]
  BY <1>1 DEF WizardInv
<1>3. keyBinding' = bound /\ reBind' = Invalid /\ KeyStep(bound, k, Press)
  BY <1>1 DEF InputPress
<1> HIDE DEF bound
<1>4. Bound(bound, k) # {}
  BY <1>1, <1>2 DEF Bound
<1>5. t \in Buttons /\ bound[t] = k /\ Unshared(bound, t)
  BY <1>4, TargetIsButton, TargetIsUnshared
<1>6. Press(t)
  BY <1>3, <1>4 DEF KeyStep
<1> HIDE DEF t
<1>7. buttonPress' = [buttonPress EXCEPT ![t] = TRUE]
  BY <1>6 DEF Press
<1>8. /\ buttonPress' \in [Buttons -> BOOLEAN]
      /\ \A b \in Buttons : buttonPress'[b] => b = t \/ b \in padHits
  BY <1>1, <1>5, <1>7 DEF WizardInv
<1>9. EdgesAnswer'
  BY <1>3, <1>5, <1>8 DEF EdgesAnswer, Bound1
<1>10. Asked'
  <2> SUFFICES ASSUME NEW s \in 1 .. 8, s < state, Order[s] \notin padded
               PROVE  bound[Order[s]] \in Keys /\ (s > 4 => Unshared(bound, Order[s]))
    BY <1>3, OrderFacts DEF Asked
  <2>1. keyBinding[Order[s]] \in Keys /\ (s > 4 => Unshared(keyBinding, Order[s]))
    BY OrderFacts DEF WizardInv, Asked
  <2>2. Order[s] \in Buttons /\ Order[s] # r /\ (s > 4 => Order[s] < r)
    BY <1>1, OrderFacts, AskingFacts
  <2>3. ASSUME s > 4 PROVE Unshared(bound, Order[s])
    <3>1. \A c \in Buttons : c < Order[s] => c # r
      BY <1>1, <2>2, <2>3 DEF Buttons
    <3> HIDE DEF r
    <3> QED
      BY <1>2, <2>1, <2>2, <2>3, <3>1 DEF Unshared
  <2> HIDE DEF r
  <2> QED
    BY <1>2, <2>1, <2>2, <2>3
<1>11. Asking'
  BY <1>3 DEF Asking
<1> QED
  BY <1>2, <1>3, <1>8, <1>9, <1>10, <1>11 DEF WizardInv

\* What leaves the bindings and the screen alone and takes edges away, or brings
\* some of the gamepad.
LEMMA EdgesFade ==
    ASSUME WizardInv, UNCHANGED <<keyBinding, reBind, state, updated, padded>>,
           phase' \in {"poll", "script"}, phase' = "poll" => ~updated,
           buttonPress' \in [Buttons -> BOOLEAN], padHits \subseteq padHits',
           \A b \in Buttons : buttonPress'[b] => buttonPress[b] \/ b \in padHits'
    PROVE  WizardInv'
<1>1. EdgesAnswer'
  BY DEF WizardInv, EdgesAnswer, Bound1
<1>2. Asked' /\ Asking'
  BY DEF WizardInv, Asked, Asking
<1> QED
  BY <1>1, <1>2 DEF WizardInv

LEMMA UnaskedKeyPressed ==
    ASSUME StrayKeys = {}, WizardInv, ~updated, UNCHANGED <<updated, state, phase, padHits, padded>>,
           NEW k \in Keys, InputPress(k), reBind = Invalid
    PROVE  WizardInv'
<1> DEFINE t == Target(keyBinding, k)
<1>1. keyBinding' = keyBinding /\ reBind' = reBind /\ KeyStep(keyBinding, k, Press)
  BY DEF InputPress
<1>2. CASE Bound(keyBinding, k) # {}
  <2>1. t \in Buttons /\ keyBinding[t] = k /\ Unshared(keyBinding, t)
    BY <1>2, TargetIsButton, TargetIsUnshared
  <2>2. Press(t)
    BY <1>1, <1>2 DEF KeyStep
  <2> HIDE DEF t
  <2>3. buttonPress' = [buttonPress EXCEPT ![t] = TRUE]
    BY <2>2 DEF Press
  <2>4. buttonPress' \in [Buttons -> BOOLEAN]
        /\ \A b \in Buttons : buttonPress'[b] => b = t \/ buttonPress[b]
    BY <2>1, <2>3 DEF WizardInv
  <2>5. EdgesAnswer'
    BY <1>1, <2>1, <2>4 DEF WizardInv, EdgesAnswer, Bound1
  <2>6. Asked' /\ Asking'
    BY <1>1 DEF WizardInv, Asked, Asking
  <2> QED
    BY <1>1, <2>4, <2>5, <2>6 DEF WizardInv
<1>3. CASE Bound(keyBinding, k) = {}
  <2>1. buttonPress' = buttonPress
    BY <1>1, <1>3 DEF KeyStep, counts
  <2> QED
    BY <1>1, <2>1, EdgesFade DEF WizardInv
<1> QED
  BY <1>2, <1>3

\* The script's turn: an edge answers the button that is asked for only if that
\* has the key it came from, or if it is of the gamepad.
LEMMA TickAsks == ASSUME WizardInv, Tick PROVE WizardInv'
<1>1. phase = "script" /\ ~updated /\ updated' = TRUE /\ Update
      /\ padded' = (IF state \in DOMAIN Order /\ state' # state
                    THEN padded \cup (padHits \cap {Order[state]}) ELSE padded)
  BY DEF Tick
<1>2. EdgesAnswer'
  BY <1>1 DEF EdgesAnswer
<1>3. CASE state \in {0} \cup DOMAIN Order /\ UpdateStep
  <2>1. state \in 0 .. 8 /\ state' = state + 1
    BY <1>3, OrderFacts DEF UpdateStep
  <2>2. state \in DOMAIN Order => Answers(Order[state])
    <3>1. CASE state \in DOMAIN Order
      <4>1. state # 0 /\ state # Testing /\ state # GoBack
        BY <3>1, OrderFacts DEF Testing, GoBack
      <4>2. IF Answers(Order[state]) THEN UpdateStep ELSE UNCHANGED <<inputVars, state>>
        BY <1>1, <4>1 DEF Update
      <4> QED
        BY <2>1, <4>2
    <3> QED
      BY <3>1
  <2>3. /\ padded \subseteq padded'
        /\ state \in DOMAIN Order /\ Order[state] \in padHits => Order[state] \in padded'
    BY <1>1, <2>1
  <2>4. state \in DOMAIN Order /\ Order[state] \notin padded' => Bound1(Order[state]) /\ reBind = Invalid
    BY <1>1, <2>2, <2>3, OrderFacts DEF WizardInv, EdgesAnswer, Answers
  <2>5. /\ UNCHANGED <<keyBinding, buttonPress, phase>>
        /\ reBind' = IF state + 1 \in DOMAIN Order THEN Order[state + 1] ELSE reBind
    BY <1>3 DEF UpdateStep, Ask, SetRebind, inputVars, counts, bindings
  <2>6. Asked'
    <3> SUFFICES ASSUME NEW s \in 1 .. 8, s < state + 1, Order[s] \notin padded'
                 PROVE  keyBinding[Order[s]] \in Keys /\ (s > 4 => Unshared(keyBinding, Order[s]))
      BY <2>1, <2>5, OrderFacts DEF Asked
    <3>1. CASE s < state
      BY <2>3, <3>1, OrderFacts DEF WizardInv, Asked
    <3>2. CASE s = state
      BY <2>4, <3>2, OrderFacts DEF Bound1
    <3> QED
      BY <2>1, <3>1, <3>2
  <2>7. Asking'
    <3>1. CASE state + 1 \in DOMAIN Order
      BY <2>1, <2>5, <3>1 DEF Asking
    <3>2. CASE state + 1 \notin DOMAIN Order
      <4>1. state = 8 /\ state \in DOMAIN Order
        BY <2>1, <3>2, OrderFacts
      <4>2. reBind' = reBind
        BY <2>5, <3>2
      <4>3. ASSUME reBind # Invalid PROVE reBind = Order[8] /\ Order[8] \in padded'
        BY <2>4, <4>1, <4>3 DEF WizardInv, Asking
      <4>4. state' > 8
        BY <2>1, <4>1
      <4> QED
        BY <4>2, <4>3, <4>4 DEF Asking
    <3> QED
      BY <3>1, <3>2
  <2>8. state' \in 0 .. Gone
    BY <2>1 DEF Gone
  <2> QED
    BY <1>1, <1>2, <2>5, <2>6, <2>7, <2>8 DEF WizardInv
<1>4. CASE UNCHANGED <<inputVars, state>>
  <2>1. UNCHANGED <<keyBinding, reBind, buttonPress, phase, state, padded>>
    BY <1>1, <1>4 DEF inputVars, counts, bindings
  <2>2. Asked' /\ Asking'
    BY <2>1 DEF WizardInv, Asked, Asking
  <2> QED
    BY <1>1, <1>2, <2>1, <2>2 DEF WizardInv
<1>5. CASE state \in Testing .. GoBack /\ UNCHANGED inputVars /\ state' \in Testing .. Gone
  <2>1. state \notin DOMAIN Order /\ state' > 8
    BY <1>5, OrderFacts DEF Testing, GoBack, Gone
  <2>2. UNCHANGED <<keyBinding, reBind, buttonPress, phase, padded>>
    BY <1>1, <1>5, <2>1 DEF inputVars, counts, bindings
  <2>3. Asking'
    BY <2>1, <2>2 DEF WizardInv, Asking
  <2>4. Asked'
    BY <1>5, <2>2, OrderFacts DEF WizardInv, Asked, Testing, GoBack, Gone
  <2>5. state' \in 0 .. Gone
    BY <1>5 DEF Testing, Gone
  <2> QED
    BY <1>1, <1>2, <2>2, <2>3, <2>4, <2>5 DEF WizardInv
<1> QED
  <2>1. CASE state = 0 /\ UpdateStep
    BY <1>3, <2>1
  <2>2. CASE state \in DOMAIN Order /\
             IF Answers(Order[state]) THEN UpdateStep ELSE UNCHANGED <<inputVars, state>>
    BY <1>3, <1>4, <2>2
  <2>3. CASE state = Testing /\ state' \in {Testing, GoBack} /\ UNCHANGED inputVars
    BY <1>5, <2>3 DEF Testing, GoBack, Gone
  <2>4. CASE state = GoBack /\ state' \in {GoBack, Gone} /\ UNCHANGED inputVars
    BY <1>5, <2>4 DEF Testing, GoBack, Gone
  <2> QED
    BY <1>1, <2>1, <2>2, <2>3, <2>4 DEF Update

\* The gamepad's edges are all noted.
LEMMA PadEdges ==
    ASSUME LiveInv, buttonPress \in [Buttons -> BOOLEAN], PollPad
    PROVE  /\ buttonPress' \in [Buttons -> BOOLEAN]
           /\ \A b \in Buttons : buttonPress'[b] => buttonPress[b] \/ b \in padHits'
<1>1. padHits' = padHits \cup {p[2] : p \in live' \ live}
  BY DEF PollPad
<1>2. ASSUME NEW t \in Buttons, NEW dev, Press(t), Pressed(dev, {t}), <<dev, t>> \notin live
      PROVE  /\ buttonPress' \in [Buttons -> BOOLEAN]
             /\ \A b \in Buttons : buttonPress'[b] => buttonPress[b] \/ b \in padHits'
  <2>1. buttonPress' = [buttonPress EXCEPT ![t] = TRUE]
    BY <1>2 DEF Press
  <2>2. <<dev, t>> \in live' \ live
    BY <1>2 DEF Pressed
  <2>3. t \in padHits'
    BY <1>1, <2>2
  <2> QED
    BY <2>1, <2>3
<1>3. ASSUME NEW S, UnPress(S)
      PROVE  /\ buttonPress' \in [Buttons -> BOOLEAN]
             /\ \A b \in Buttons : buttonPress'[b] => buttonPress[b] \/ b \in padHits'
  BY <1>3 DEF UnPress
<1>4. ASSUME NEW j \in JoyButtons, JoystickButtonPressed(j)
      PROVE  /\ buttonPress' \in [Buttons -> BOOLEAN]
             /\ \A b \in Buttons : buttonPress'[b] => buttonPress[b] \/ b \in padHits'
  <2>1. CASE JoyTarget(j) = {}
    BY <1>4, <2>1 DEF JoystickButtonPressed, counts
  <2>2. CASE JoyTarget(j) # {}
    <3>1. PICK t \in JoyTarget(j) : Press(t)
      BY <1>4, <2>2 DEF JoystickButtonPressed
    <3>2. t \in Buttons /\ JoyTarget(j) = {t}
      BY <3>1 DEF JoyTarget, A, B, Select, Start, Buttons
    <3>3. Pressed(<<"joy", j>>, {t}) /\ j \notin joyDown
      BY <1>4, <3>2 DEF JoystickButtonPressed
    <3>4. <<<<"joy", j>>, t>> \notin live
      BY <3>3 DEF LiveInv, LiveTypes
    <3> QED
      BY <1>2, <3>1, <3>2, <3>3, <3>4
  <2> QED
    BY <2>1, <2>2
<1>5. ASSUME NEW a \in Axes, NEW pos \in -1 .. 1, JoystickMoved(a, pos)
      PROVE  /\ buttonPress' \in [Buttons -> BOOLEAN]
             /\ \A b \in Buttons : buttonPress'[b] => buttonPress[b] \/ b \in padHits'
  <2>1. CASE pos = 0
    <3>1. UnPress(axisButton \cap Both(a))
      BY <1>5, <2>1 DEF JoystickMoved, AxisCentred, Centre
    <3> QED
      BY <1>3, <3>1
  <2>2. CASE pos # 0 /\ Toward(a, pos) \in axisButton
    BY <1>5, <2>2 DEF JoystickMoved, AxisPushed, counts
  <2>3. CASE pos # 0 /\ Toward(a, pos) \notin axisButton
    <3>1. PICK t \in Buttons : t = Toward(a, pos)
      BY DirectionsAreButtons
    <3>2. Press(t) /\ t \notin axisButton /\ Pressed(<<"axis", t>>, {t})
      BY <1>5, <2>3, <3>1 DEF JoystickMoved, AxisPushed
    <3>3. <<<<"axis", t>>, t>> \notin live
      BY <3>2 DEF LiveInv, LiveTypes
    <3> QED
      BY <1>2, <3>2, <3>3
  <2> QED
    BY <2>1, <2>2, <2>3
<1>6. ASSUME NEW j \in JoyButtons, JoystickButtonReleased(j)
      PROVE  /\ buttonPress' \in [Buttons -> BOOLEAN]
             /\ \A b \in Buttons : buttonPress'[b] => buttonPress[b] \/ b \in padHits'
  BY <1>3, <1>6 DEF JoystickButtonReleased
<1>7. CASE Unplug
  BY <1>7 DEF Unplug, counts
<1> QED
  BY <1>4, <1>5, <1>6, <1>7 DEF PollPad, PadEvent

LEMMA WizardStep ==
    ASSUME StrayKeys = {}, WizardInv, LiveInv, [WizardNext]_wizardVars
    PROVE  WizardInv'
<1>1. CASE Tick
  BY <1>1, TickAsks
<1>2. CASE Frame
  <2>1. UNCHANGED <<keyBinding, reBind, state, padded>> /\ phase' = "poll" /\ updated' = FALSE
    BY <1>2 DEF Frame, BeginFrame, bindings
  <2>2. buttonPress' = NoEdge
    BY <1>2 DEF Frame, BeginFrame, InputResetAll
  <2>3. buttonPress' \in [Buttons -> BOOLEAN] /\ \A b \in Buttons : ~buttonPress'[b]
    BY <2>2 DEF NoEdge
  <2>4. EdgesAnswer' /\ Asked' /\ Asking'
    BY <2>1, <2>3 DEF EdgesAnswer, WizardInv, Asked, Asking
  <2> QED
    BY <2>1, <2>3, <2>4 DEF WizardInv
<1>3. CASE Poll
  <2>1. UNCHANGED <<state, updated, padded>>
    BY <1>3 DEF Poll, script
  <2>2. CASE EndPoll /\ UNCHANGED padHits
    BY <2>1, <2>2, EdgesFade DEF EndPoll, counts, bindings, WizardInv
  <2>3. ASSUME NEW k \in Keys, KeyPressed(k), UNCHANGED padHits PROVE WizardInv'
    <3>1. ~updated /\ phase' = phase /\ phase = "poll"
      BY <2>3 DEF KeyPressed, WizardInv
    <3>2. CASE k = Escape
      BY <2>1, <2>3, <3>1, <3>2, EdgesFade DEF KeyPressed, counts, bindings, WizardInv
    <3>3. CASE k # Escape
      <4>1. InputPress(k)
        BY <2>3, <3>3 DEF KeyPressed
      <4> QED
        BY <2>1, <2>3, <3>1, <4>1, AskedKeyPressed, UnaskedKeyPressed
    <3> QED
      BY <3>2, <3>3
  <2>4. ASSUME NEW k \in Keys, KeyReleased(k), UNCHANGED padHits PROVE WizardInv'
    <3> DEFINE release(b) == UnPress({b})
    <3>1. KeyStep(keyBinding, k, release) /\ UNCHANGED <<keyBinding, reBind, phase>>
      BY <2>4 DEF KeyReleased, InputUnPress, bindings, window
    <3>2. buttonPress' \in [Buttons -> BOOLEAN] /\ \A b \in Buttons : buttonPress'[b] => buttonPress[b]
      <4>1. CASE Bound(keyBinding, k) # {}
        <5>1. UnPress({Target(keyBinding, k)})
          BY <3>1, <4>1 DEF KeyStep
        <5> QED
          BY <5>1 DEF UnPress
      <4>2. CASE Bound(keyBinding, k) = {}
        BY <3>1, <4>2 DEF KeyStep, counts, WizardInv
      <4> QED
        BY <4>1, <4>2
    <3> QED
      BY <2>1, <2>4, <3>1, <3>2, EdgesFade DEF WizardInv
  <2>5. CASE PollPad
    <3>1. padHits \subseteq padHits' /\ UNCHANGED <<keyBinding, reBind, phase>>
      BY <2>5 DEF PollPad, PadEvent, JoystickButtonPressed, JoystickButtonReleased,
                  JoystickMoved, Unplug, bindings, window
    <3>2. /\ buttonPress' \in [Buttons -> BOOLEAN]
          /\ \A b \in Buttons : buttonPress'[b] => buttonPress[b] \/ b \in padHits'
      BY <2>5, PadEdges DEF WizardInv
    <3> QED
      BY <2>1, <3>1, <3>2, EdgesFade DEF WizardInv
  <2>6. CASE Closed /\ UNCHANGED padHits
    BY <2>1, <2>6, EdgesFade DEF Closed, counts, bindings, WizardInv
  <2>7. CASE LostFocus /\ UNCHANGED padHits
    <3>1. buttonPress' = NoEdge /\ UNCHANGED <<keyBinding, reBind, phase>>
      BY <2>7 DEF LostFocus, InputResetAll, bindings
    <3>2. buttonPress' \in [Buttons -> BOOLEAN] /\ \A b \in Buttons : ~buttonPress'[b]
      BY <3>1 DEF NoEdge
    <3> QED
      BY <2>1, <2>7, <3>1, <3>2, EdgesFade DEF WizardInv
  <2> QED
    BY <1>3, <2>2, <2>3, <2>4, <2>5, <2>6, <2>7 DEF Poll, PollKey
<1>4. CASE Away \/ UNCHANGED wizardVars
  <2>1. UNCHANGED <<keyBinding, reBind, buttonPress, phase, state, updated, padHits, padded>>
    BY <1>4 DEF Away, GainedFocus, KeyElsewhere, wizardVars, inputVars, counts, bindings, script, given
  <2> QED
    BY <2>1, EdgesFade DEF WizardInv
<1> QED
  BY <1>1, <1>2, <1>3, <1>4 DEF WizardNext

\* The screen's steps are steps of the program, and write behind no table.
LEMMA WizardIsInput ==
    ASSUME [WizardNext]_wizardVars
    PROVE  AnyStep
<1>1. CASE Tick
  <2>1. ASSUME NEW s, Ask(s) PROVE AnyStep
    BY <2>1, OrderFacts DEF Ask, AnyStep
  <2> QED
    BY <1>1, <2>1 DEF Tick, Update, UpdateStep, AnyStep
<1>2. CASE Frame
  BY <1>2 DEF Frame, AnyStep, Next
<1>3. CASE Poll
  BY <1>3 DEF Poll, PollKey, PollPad, AnyStep, Next, Event, Unseen
<1>4. CASE Away \/ UNCHANGED wizardVars
  BY <1>4 DEF Away, AnyStep, Next, Unseen, wizardVars
<1> QED
  BY <1>1, <1>2, <1>3, <1>4 DEF WizardNext

LEMMA NothingSmashed ==
    ASSUME StrayKeys = {}, ~smashed, AnyStep
    PROVE  ~smashed'
<1>1. ASSUME NEW k \in Keys, KeyPressed(k) PROVE ~smashed'
  BY <1>1 DEF KeyPressed, InputPress, KeyStep
<1>2. ASSUME NEW k \in Keys, KeyReleased(k) PROVE ~smashed'
  BY <1>2 DEF KeyReleased, InputUnPress, KeyStep
<1>3. CASE BeginFrame
  BY <1>3 DEF BeginFrame, InputResetAll
<1>4. CASE LostFocus
  BY <1>4 DEF LostFocus, InputResetAll
<1>5. CASE PadEvent
  BY <1>5 DEF PadEvent, JoystickButtonPressed, JoystickButtonReleased, JoystickMoved
<1>6. CASE EndPoll \/ Closed \/ Unseen
  BY <1>6 DEF EndPoll, Closed, Unseen, GainedFocus, KeyElsewhere, Unplug
<1>7. CASE Script \/ (\E b \in Buttons : SetRebind(b))
  BY <1>7 DEF Script, SetRebind, SetFullScreen
<1> QED
  BY <1>1, <1>2, <1>3, <1>4, <1>5, <1>6, <1>7 DEF AnyStep, Next, Event, inputVars

\* A key that was given to the question, and is down, is a press of its button.
AnswerHolds ==
    answer # NoKey /\ ~updated /\ state \in DOMAIN Order =>
        Order[state] \in hits /\ <<<<"key", answer>>, Order[state]>> \in live

LEMMA AnswerStep ==
    ASSUME WizardInv, LiveInv, AnswerHolds, [WizardNext]_wizardVars
    PROVE  AnswerHolds'
<1>1. CASE Tick \/ Frame
  BY <1>1 DEF Tick, Frame, AnswerHolds
<1>2. CASE Poll
  <2>1. UNCHANGED <<state, updated>>
    BY <1>2 DEF Poll, script
  <2>2. ASSUME answer' = answer, hits \subseteq hits',
               \A k, b : <<<<"key", k>>, b>> \in live => <<<<"key", k>>, b>> \in live'
        PROVE  AnswerHolds'
    BY <2>1, <2>2 DEF AnswerHolds
  <2>3. ASSUME NEW k \in Keys, KeyPressed(k),
               answer' = IF k # Escape /\ reBind # Invalid /\ \A c \in Buttons : c < reBind => keyBinding[c] # k
                         THEN k ELSE answer
        PROVE  AnswerHolds'
    <3>1. hits \subseteq hits' /\ live \subseteq live'
      BY <2>3 DEF KeyPressed, Pressed, presses
    <3>2. CASE answer' = answer
      BY <2>2, <3>1, <3>2
    <3>3. CASE answer' # answer
      <4>1. k # Escape /\ reBind # Invalid /\ (\A c \in Buttons : c < reBind => keyBinding[c] # k) /\ answer' = k
        BY <2>3, <3>3
      <4> DEFINE r == reBind
                 bound == [keyBinding EXCEPT ![r] = k]
      <4>2. r \in Buttons /\ DOMAIN keyBinding = Buttons
        BY <4>1, AskingFacts DEF WizardInv
      <4>3. /\ keyBinding' = bound
            /\ Pressed(<<"key", k>>, KeyTarget(bound, k))
        BY <2>3, <4>1 DEF KeyPressed, InputPress
      <4>4. r \in Bound(bound, k)
        BY <4>2 DEF Bound
      <4>5. \A c \in Bound(bound, k) : ~ (c < r)
        BY <4>1, <4>2 DEF Bound, Buttons
      <4>6. Target(bound, k) \in Bound(bound, k) /\ Target(bound, k) <= r
        BY <4>4, TargetIsLeast
      <4>7. Target(bound, k) = r
        BY <4>2, <4>5, <4>6 DEF Bound, Buttons
      <4>8. KeyTarget(bound, k) = {r}
        BY <4>4, <4>7 DEF KeyTarget
      <4> HIDE DEF bound
      <4>9. r \in hits' /\ <<<<"key", k>>, r>> \in live'
        BY <4>3, <4>8 DEF Pressed
      <4>10. state \in DOMAIN Order => r = Order[state]
        BY <4>1, OrderFacts DEF WizardInv, Asking
      <4> QED
        BY <2>1, <4>1, <4>9, <4>10 DEF AnswerHolds
    <3> QED
      BY <3>2, <3>3
  <2>4. ASSUME NEW k \in Keys, KeyReleased(k), answer' = IF k = answer THEN NoKey ELSE answer
        PROVE  AnswerHolds'
    <3>1. CASE k = answer
      BY <2>4, <3>1 DEF AnswerHolds
    <3>2. CASE k # answer
      <4>1. live' = {p \in live : p[1] \notin {<<"key", k>>}} /\ hits' = hits
        BY <2>4 DEF KeyReleased, Released
      <4>2. \A b : <<<<"key", answer>>, b>> \in live => <<<<"key", answer>>, b>> \in live'
        BY <3>2, <4>1
      <4> QED
        BY <2>1, <2>4, <3>2, <4>1, <4>2 DEF AnswerHolds
    <3> QED
      BY <3>1, <3>2
  <2>5. ASSUME PollPad, answer' = answer PROVE AnswerHolds'
    <3>1. ASSUME NEW j \in JoyButtons, JoystickButtonPressed(j) PROVE AnswerHolds'
      BY <2>2, <2>5, <3>1 DEF JoystickButtonPressed, Pressed
    <3>2. ASSUME NEW j \in JoyButtons, JoystickButtonReleased(j) PROVE AnswerHolds'
      BY <2>2, <2>5, <3>2 DEF JoystickButtonReleased, Released
    <3>3. ASSUME NEW a \in Axes, NEW pos \in -1 .. 1, JoystickMoved(a, pos) PROVE AnswerHolds'
      <4>1. CASE pos = 0
        BY <2>2, <2>5, <3>3, <4>1 DEF JoystickMoved, AxisCentred, Released
      <4>2. CASE pos # 0
        <5>1. hits \subseteq hits' /\ live \subseteq live'
          BY <3>3, <4>2 DEF JoystickMoved, AxisPushed, Pressed, presses
        <5> QED
          BY <2>2, <2>5, <5>1
      <4> QED
        BY <4>1, <4>2
    <3>4. CASE Unplug
      BY <2>2, <2>5, <3>4 DEF Unplug, Released
    <3> QED
      BY <2>5, <3>1, <3>2, <3>3, <3>4 DEF PollPad, PadEvent
  <2>6. ASSUME EndPoll \/ Closed, answer' = answer PROVE AnswerHolds'
    BY <2>2, <2>6 DEF EndPoll, Closed, presses
  <2>7. ASSUME answer' = NoKey PROVE AnswerHolds'
    BY <2>7 DEF AnswerHolds
  <2> QED
    BY <1>2, <2>3, <2>4, <2>5, <2>6, <2>7 DEF Poll, PollKey
<1>3. CASE Away \/ UNCHANGED wizardVars
  <2>1. UNCHANGED <<answer, updated, state, hits, live>>
    BY <1>3 DEF Away, GainedFocus, KeyElsewhere, wizardVars, inputVars, presses, script, given
  <2> QED
    BY <2>1 DEF AnswerHolds
<1> QED
  BY <1>1, <1>2, <1>3 DEF WizardNext

ScreenInv == WizardInv /\ LiveInv /\ ~smashed /\ AnswerHolds

LEMMA ScreenInvariance == ASSUME StrayKeys = {} PROVE WizardSpec => []ScreenInv
<1>1. WizardInit => ScreenInv
  <2> SUFFICES ASSUME WizardInit PROVE ScreenInv
    OBVIOUS
  <2>1. buttonPress \in [Buttons -> BOOLEAN] /\ \A b \in Buttons : ~buttonPress[b]
    BY DEF WizardInit, Init, NoEdge
  <2>2. reBind = Invalid /\ state = 0 /\ phase = "script" /\ keyBinding = DefaultBinding
    BY DEF WizardInit, Init
  <2>3. Asked /\ Asking
    BY <2>2, OrderFacts DEF Asked, Asking
  <2>4. WizardInv
    BY <2>1, <2>2, <2>3, InputAssumption DEF WizardInv, EdgesAnswer, Gone
  <2>5. LiveInv /\ ~smashed
    BY LiveInit DEF WizardInit, Init
  <2>6. AnswerHolds
    BY DEF WizardInit, AnswerHolds
  <2> QED
    BY <2>4, <2>5, <2>6 DEF ScreenInv
<1>2. ScreenInv /\ [WizardNext]_wizardVars => ScreenInv'
  BY WizardStep, WizardIsInput, LiveStep, NothingSmashed, AnswerStep DEF ScreenInv
<1> QED
  BY <1>1, <1>2, PTL DEF WizardSpec

\* No question is answered by a key that was held or an edge that was left from
\* the one before: every button the screen has passed was bound to a key, unless
\* the gamepad passed it, and A, B, Start and Select have a key that no button
\* before them takes (RebindState.nut:20-60, Input.cpp:20-47).
THEOREM EveryStepBinds == ASSUME StrayKeys = {} PROVE WizardSpec => []NoStepSkipped
<1>1. ScreenInv => NoStepSkipped
  <2> SUFFICES ASSUME ScreenInv, NEW s \in 1 .. 8, state \in (s + 1) .. GoBack, Order[s] \notin padded
               PROVE  keyBinding[Order[s]] \in Keys /\ (s > 4 => HasOwnKey(Order[s]))
    BY OrderFacts DEF NoStepSkipped
  <2>1. s < state
    BY DEF GoBack
  <2>2. keyBinding[Order[s]] \in Keys /\ (s > 4 => Unshared(keyBinding, Order[s]))
    BY <2>1, OrderFacts DEF ScreenInv, WizardInv, Asked
  <2>3. Order[s] \in Buttons /\ DOMAIN keyBinding = Buttons
    BY OrderFacts DEF ScreenInv, WizardInv
  <2> QED
    BY <2>2, <2>3, UnsharedIsOwn
<1> QED
  BY <1>1, ScreenInvariance, PTL

\* A key that is given to the question and held brings the next one, whatever else
\* the player and the gamepad do in the frame (RebindState.nut:20, Input.cpp:20-35).
THEOREM AnswersAreTaken == ASSUME StrayKeys = {} PROVE WizardSpec => AnswerIsTaken
<1>1. ScreenInv /\ [WizardNext]_wizardVars =>
          [Tick /\ answer # NoKey /\ state \in DOMAIN Order /\ Order[state] \notin robbed
              => state' = state + 1]_wizardVars
  <2> SUFFICES ASSUME ScreenInv, Tick, answer # NoKey, state \in DOMAIN Order, Order[state] \notin robbed
               PROVE  state' = state + 1
    OBVIOUS
  <2> DEFINE b == Order[state]
  <2>1. ~updated /\ Update
    BY DEF Tick
  <2>2. b \in hits /\ <<<<"key", answer>>, b>> \in live /\ b \in Buttons
    BY <2>1, OrderFacts DEF ScreenInv, AnswerHolds
  <2>3. Live(b) # {}
    <3>1. <<<<"key", answer>>, b>> \in Live(b)
      BY <2>2 DEF Live
    <3> QED
      BY <3>1
  <2>4. buttonPress[b]
    <3>1. buttonPress[b] <=> b \in hits /\ buttonRef[b] > 0
      BY <2>2 DEF ScreenInv, LiveInv, EdgeInv, EdgeIsCounted
    <3>2. Cardinality(Live(b)) <= buttonRef[b] /\ buttonRef[b] \in Nat
      BY <2>2 DEF ScreenInv, LiveInv, CountsLive, EdgeInv, CountTypes
    <3>3. Cardinality(Live(b)) \in Nat /\ Cardinality(Live(b)) > 0
      BY <2>3, LiveIsFinite, NonemptyIsPositive DEF ScreenInv, LiveInv
    <3>4. buttonRef[b] > 0
      BY <3>2, <3>3
    <3> QED
      BY <2>2, <3>1, <3>4
  <2>5. state # 0 /\ state # Testing /\ state # GoBack
    BY OrderFacts DEF Testing, GoBack
  <2>6. IF Answers(b) THEN UpdateStep ELSE UNCHANGED <<inputVars, state>>
    BY <2>1, <2>5 DEF Update
  <2> QED
    BY <2>4, <2>6 DEF Answers, UpdateStep
<1> QED
  BY <1>1, ScreenInvariance, PTL DEF WizardSpec, AnswerIsTaken
==============================================================================
