----------------------------- MODULE RebindWizard -----------------------------
(***************************************************************************)
(* src/one/Script/RebindState.nut: the screen that binds the eight buttons *)
(* anew, one after the other, on top of Input.  It is the script of the    *)
(* frame: GSMUpdate runs its Update once after the events are polled.  The *)
(* gamepad's buttons and axes are not bound, but answer isPressed all the  *)
(* same.                                                                   *)
(***************************************************************************)
EXTENDS Input, Sequences

CONSTANTS
    NoKey,      \* no key
    TestFrames, \* how long the configuration can be tried (600 in the script)
    MaxDown     \* bound on the keys, pad buttons and axes the player holds at once

ASSUME WizardAssumption == NoKey \notin Keys /\ TestFrames \in Nat /\ MaxDown \in Nat

VARIABLES
    state,   \* the step of the screen; Gone once it is popped
    timer,
    updated, \* the script has run in this frame
    \* history
    answer,  \* the key that was given to the question in this frame and is down,
             \* if no button before the one asked for had it
    padHits, \* the buttons the gamepad pressed in this frame
    padded   \* the buttons whose step was passed with a press of the gamepad

script == <<state, timer, updated>>
given == <<answer, padHits, padded>>
wizardVars == <<inputVars, script, given>>

Order == <<Up, Right, Down, Left, A, B, Start, Select>>
Testing == 9
GoBack == 10
Gone == 11

\* Mutant: the next button is asked for whatever was pressed.
AnswersAny(b) == \E c \in Buttons : buttonPress[c]

Answers(b) == buttonPress[b]

\* Input.SetRebind of the button of a step; the last step asks for nothing.
Ask(step) == IF step \in DOMAIN Order THEN SetRebind(Order[step]) ELSE UNCHANGED inputVars

UpdateStep == Ask(state + 1) /\ state' = state + 1

Update ==
    \/ state = 0 /\ UpdateStep /\ UNCHANGED timer
    \/ /\ state \in DOMAIN Order
       /\ IF Answers(Order[state]) THEN UpdateStep ELSE UNCHANGED <<inputVars, state>>
       /\ UNCHANGED timer
    \/ /\ state = Testing
       /\ timer' = timer + 1
       /\ state' = IF timer' > TestFrames THEN GoBack ELSE Testing
       /\ UNCHANGED inputVars
    \/ /\ state = GoBack
       /\ state' = IF Answers(B) THEN Gone ELSE GoBack
       /\ UNCHANGED <<inputVars, timer>>

Tick ==
    /\ phase = "script"
    /\ ~updated
    /\ updated' = TRUE
    /\ Update
    /\ padded' = IF state \in DOMAIN Order /\ state' # state
                 THEN padded \cup (padHits \cap {Order[state]}) ELSE padded
    /\ UNCHANGED <<answer, padHits>>

Frame ==
    /\ updated
    /\ state # Gone
    /\ BeginFrame
    /\ updated' = FALSE
    /\ answer' = NoKey
    /\ padHits' = {}
    /\ UNCHANGED <<state, timer, padded>>

DevicesDown == Cardinality(keysDown) + Cardinality(joyDown) + Cardinality({a \in Axes : axis[a] # 0})

\* The events of WindowUpdate's loop: of the keyboard,
PollKey(k) ==
    \/ /\ KeyPressed(k)
       /\ answer' = IF k # Escape /\ reBind # Invalid /\ \A c \in Buttons : c < reBind => keyBinding[c] # k
                    THEN k ELSE answer
    \/ KeyReleased(k) /\ answer' = IF k = answer THEN NoKey ELSE answer

\* and of the gamepad; Unplug is not one, but comes as one.
PollPad ==
    /\ PadEvent \/ Unplug
    /\ padHits' = padHits \cup {p[2] : p \in live' \ live}

Poll ==
    /\ \/ EndPoll /\ UNCHANGED <<answer, padHits>>
       \/ \E k \in Keys : PollKey(k) /\ UNCHANGED padHits
       \/ PollPad /\ UNCHANGED answer
       \/ Closed /\ UNCHANGED <<answer, padHits>>
       \/ LostFocus /\ answer' = NoKey /\ UNCHANGED padHits
    /\ DevicesDown' <= MaxDown
    /\ UNCHANGED <<script, padded>>

Away ==
    /\ GainedFocus \/ \E k \in Keys : KeyElsewhere(k)
    /\ DevicesDown' <= MaxDown
    /\ UNCHANGED <<script, given>>

WizardInit ==
    /\ Init
    /\ state = 0 /\ timer = 0 /\ updated = FALSE
    /\ answer = NoKey /\ padHits = {} /\ padded = {}

WizardNext == Tick \/ Frame \/ Poll \/ Away

WizardSpec == WizardInit /\ [][WizardNext]_wizardVars

-----------------------------------------------------------------------------
\* The key bound to a button is not taken by a button before it in the table.
HasOwnKey(b) == Target(keyBinding, keyBinding[b]) = b

\* No step is passed without binding its button, unless the gamepad answers it: a
\* key that was held from the step before, or an edge of that step, never answers
\* the next question.  A, B, Start and Select, which come last, keep a key that no
\* other button takes, whatever is given to the steps between.  (A press of the
\* gamepad does pass a step and binds nothing: RebindState.nut:20.)
NoStepSkipped ==
    \A s \in DOMAIN Order : state \in (s + 1)..GoBack /\ Order[s] \notin padded =>
        /\ keyBinding[Order[s]] \in Keys
        /\ s > 4 => HasOwnKey(Order[s])

\* An answer is taken: a key pressed at the question that no button before the one
\* asked for has, and that is still down when the script runs, brings the next
\* question, whatever other keys and the gamepad do in the frame.  Not so if the
\* press is cancelled by the release of a key held over a reset (robbed); and a key
\* that a button before has presses that one, so that the screen waits on: only
\* the gamepad passes the step then, since nothing asks for a key again.
AnswerIsTaken ==
    [][Tick /\ answer # NoKey /\ state \in DOMAIN Order /\ Order[state] \notin robbed
          => state' = state + 1]_wizardVars
=============================================================================
