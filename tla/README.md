# A TLA+ model of MateBit

MateBit is a small fantasy console in C++: a frame loop, a four-voice wave
synthesizer, eight buttons, a 256x256 paletted screen, and games written as
Squirrel scripts on top of them.  Two stand-alone editors make its sound and
graphics files.  This directory models the parts whose correctness depends on
the order of events, checks the models with TLC and proves the central
properties with TLAPS.  All paths below are relative to `src/one/`.

## 1. The system

```
            main.cpp: LoadGlobals, GSMInit, AudioInit, LoadGraphics, LoadAudio, WindowInit
                                       |
   every frame:  InputResetPress > WindowUpdate > GSMUpdate > UpdateAudioFeeder > AudioUpdate > WindowDraw
                                       |               |               |
                 SFML events ->  Core/Input.cpp <- scripts -> Loaders/AudioLoader.cpp
                                                       |               |  AudioSet*Note
                                                Core/Graphics.cpp   Core/Audio.cpp  <- four SFML stream threads
```

Everything runs on the main thread, except `onGetData` of the four sound
streams, which SFML calls on one thread for each stream.

| Component | State | Operations | Interacts with | What is hard | What makes it correct |
|---|---|---|---|---|---|
| Synthesizer streams, `Core/Audio.cpp` | one `std::atomic<NoteParams>` per stream, the streams themselves | `AudioInit`, `SetNote`, `onGetData`, `AudioExit` | feeder and scripts call `SetNote`; SFML calls `onGetData` | two threads read, change and write one value with no lock; the streams are deleted while threads may run | priorities hold, a note lasts as long as it says, no thread outlives its stream |
| Audio loader and feeder, `Loaders/AudioLoader.cpp` | `loadedAudio`, four `nowPlayingSlots`, `tickCounter` | `LoadFile`, `PlayBGM`, `PlaySFX`, `UpdateAudioFeeder` | scripts start tracks; due notes go to the streams | pre-emption by priority, cursor against time, bad files | each tick sends the samples of its time, effects are neither cut nor stuck |
| Buttons, `Core/Input.cpp` | `buttonRef`, `buttonPress`, `keyBinding`, `reBind`, mouse buttons | presses, releases, resets, rebinding | fed by the window, read by scripts | several devices for one button, releases nobody reports, a binding that changes under a held key | an edge stands for a press that still holds, a count for the devices that press the button, but for the cases named in section 2 |
| Window events, `Core/Window.cpp` | full-screen state, `axisButton` latches | `WindowUpdate`, `WindowDraw`, `CreateWindow` | SFML events in, `Input.cpp` out | lost focus and window switches between press and release, four axes on four latches | latches follow the axes |
| Rebind screen, `Script/RebindState.nut` | `state`, `timer` | `Update` once a frame | `Input` | edges left from the step before, keys given to two buttons, a gamepad that answers questions for keys | no step is passed unbound by a key, and a key that can answer does |
| Settings file, `main.cpp`, `Core/InputMapper.cpp` | the options and bindings, `Settings.ini` | `LoadGlobals`, `SaveGlobals` | `Input`, `Window` | files ended or damaged anywhere, a save cut short | what is saved is what is loaded |
| Main loop, `main.cpp` | `quit` and the options | `main`: start, frames, end | calls everything | exceptions at the start, `quit` set anywhere in a frame, kills and restarts | who asks to quit gets an end and saved settings |
| Script host, `Core/GSM.cpp` | the VM, `funcExist`, the back buffer | `GSMInit`, `GSMUpdate`, `GSMExit` | calls the scripts' `Screen.tick` | a script error in any frame | the frame loop survives, the picture is presented once |
| Game states, `Script/State.nut` and the states | the stack of states | `PushState`, `PopState`, `tick` | all script interfaces | a push or pop, or both, in the middle of `Update`; clicks that last | the stack is a path in a tree of screens that a press changes by one, and a state is updated before it is drawn |
| Save files, `SQConnect/SQSaveFile.cpp` | an `sf::Packet` | `ReadInt`, `WriteInt`, `Load`, `Save` | the save test | a file that is missing or empty, a process killed while it writes | what was written is what is read |
| Screen, `Core/Graphics.cpp` | blocks and screen buffers | `Draw`, fades, `Present` | scripts draw, the window shows | clipping at every edge | no access outside a buffer |
| Graphics loader, `Loaders/GraphicsLoader.cpp` | `loadedGraphics` | `LoadFile`, `GetBlock` | scripts, `Screen` | sizes read from a file | frames have the size of the image |
| Sound editor, `Editors/SFXEdit.cpp` | the notes, selection, clipboard, playback position | mouse and key commands, load, save | its own copy of `Audio.cpp` | sliders and selection that go stale | edits change the notes they show |
| Graphics editor, `Editors/GFXEdit.cpp` | the frames, current frame | mouse and key commands, load, save | `InputBox` windows | loads that fail half way | the counters match the frames |
| Helpers, script bindings, drawing scripts | little or none | | | | |

SFML and Squirrel are vendored; the model contains what the code relies on
(stream threads, events), marked as external.

## 2. Modules

| Module | Models | Status |
|---|---|---|
| `AudioStreams` | `Core/Audio.cpp`: the streams, their threads, `AudioInit` and `AudioExit` | done |
| `Waves` | the samples of `Core/Audio.cpp`: the loops of the three `onGetData` | done |
| `AudioProofs` | theorems about `AudioStreams` and `Waves` | done |
| `SfxFile` | what `LoadFile` of `Loaders/AudioLoader.cpp` makes of one file | done |
| `AudioFeeder` | `Loaders/AudioLoader.cpp`, over `SfxFile` | done |
| `SfxPlayer` | abstract specification: one player of sound effects, implemented by `AudioFeeder` | done |
| `AudioFeederProofs` | theorems about `AudioFeeder`, the refinement included | done |
| `Input` | `Core/Input.cpp` and the events of `Core/Window.cpp` | done |
| `RebindWizard` | `Script/RebindState.nut` composed with `Input` | done |
| `InputProofs` | theorems about both | done |
| `SaveFile` | `SQConnect/SQSaveFile.cpp`, `Core/BinaryFile.h` | done |
| `StateStack` | the stack of `Script/State.nut` and `Update` of the states on it | done |
| `Screens` | abstract specification: the player's path in the tree of screens, implemented by `Game` | done |
| `Game` | `main.cpp` and `Core/GSM.cpp` over `StateStack`: the life of the program | done |
| `GameProofs` | its theorems, the refinement included | done |
| `Settings` | `LoadGlobals` and `SaveGlobals` of `main.cpp`, `Core/InputMapper.cpp` | done |
| `SettingsProofs` | its theorems | done |
| `Screen` | `Screen::DrawBlock` of `Core/Graphics.cpp` with `D2D3Trans` of `Core/Graphics.h` | done |
| `ScreenProofs` | its theorems | done |
| `Pixels` | the frames of the graphics editor: squares, neighbours, areas of one colour | done |
| `FloodFill` | the fill of `Editors/GFXEdit.cpp`, one round of its loop a step | done |
| `Palette` | `GetColor` and `Get8Bit` of the editor | done |
| `GraphicsLoader` | what `Loaders/GraphicsLoader.cpp` accepts, and the blocks it makes of it | done |
| `GfxEdit` | the frames, clipboard and file of `Editors/GFXEdit.cpp` | done |
| `GfxEditProofs` | theorems about the editor's fill, its frames, its file and its palette | done |
| `SfxEdit` | the notes, selection, sliders, clipboard and playback of `Editors/SFXEdit.cpp`, over `SfxFile` | done |
| `SfxEditProofs` | its theorems | done |
| `MC*` | the instances TLC checks | |

### AudioStreams

`noteParams[c]` is the atomic of stream `c`; `stream[c]` is where its thread is:
`waiting` between two callbacks, `render` after the first load of `onGetData`,
`merge` after the second; `minusLength[c]` is the local copy that the second
load makes and the decrement changes.  `main` is where the main thread is, and
`pending` holds a `SetNote` call between its priority test and its store.  So
each action is one atomic access, and every interleaving of the four streams
and the main thread is a behaviour.  The three wave classes repeat the same
code; they differ in what makes a note audible (a square's volume, the others'
frequency) and in the noise register, and `Kind` says which class a stream is
of.  Of the samples only "sounds" remains.  `owed`, `heard` and `resets` are
history variables carried by the parameters: they travel through the same
loads and stores as the note they describe.  A length below -1 is the same as
-1 to the code, so it stops there.

### Waves

`AudioStreams` leaves of a buffer only whether it sounds; `Waves` is the loop
that fills it.  `OnGetData` is the head of a callback: any note of the stream's
class may have been installed since the last one.  `Sample` is a round of the
loop, in one version for each class.  The counters keep their types: `time` of
a square is signed, `time` of a triangle and `entsLeft` are unsigned and start
anew at `Wrap`.  `thisWidth` and `thisHighWidth` are set when a period begins
and not when a note does.  Rates are integers, and `Lerp` rounds down where the
code works with `float`.  `noisePos` is a local of the code, so the first
samples of every buffer are those of a 0 bit, until the register turns.
`period` is history.

### AudioFeeder and SfxPlayer

A file is a name, the size in its header, and its records; `LoadFile` accepts
or refuses it by the tests of the code in their order (the comparison with
`lastPos`, which is a constant of the model because the code never assigns it,
included), and a repeated name is refused.  `slots` are the four
`nowPlayingSlots`, with the iterator as an index; `Advance` is the body of the
loop over the slots, with the `while` that sends samples written as the index
it stops at (`NotDue`).  `sent` is the sequence of `AudioSet*Note` calls of the
last frame.  `SfxPlayer` says what a script may expect of `PlaySFX`: one effect
at a time, replaced only by one that outranks it, played to its end.
`PlaysOneEffect` is the refinement: the three slots, which the code always
moves together, are that one player.

### Input and RebindWizard

`phase` divides a frame into polling and the scripts.  The devices
(`keysDown`, `joyDown`, `axis`, `focused`) are part of the state, so that the
events are those SFML can report: a key event needs the focus and a change, a
gamepad does not need the focus, nothing is reported for keys that move while
another window is active.

What the scripts see is measured by a history of what the player did, in which
no count and no latch of the code is looked at: `hits` are the buttons pressed
in this frame, `live` the presses, as pairs of a device and a button, since the
last reset that have not been released.  Four more variables name the cases in
which the code itself goes wrong, and each property excepts those and no other:

* `robbed`: a device held over a reset (lost focus, full screen), or a key bound
  anew while down, goes up later, and its release is taken off the press of
  another device (`Core/Input.cpp:46`);
* `orphaned`: a release that went to another button, since the key was bound
  anew while it was down, or to none, since the gamepad was unplugged;
* `adrift`: a stick flicked from one side to the other without a report from its
  dead zone keeps the first direction pressed (`Core/Window.cpp:204` to `218`
  release nothing), and so does an unplugged one;
* `overruled`: an axis in its dead zone releases the direction another axis of
  the pair is still pushed to (`Core/Window.cpp:190` to `202`).

`smashed` is the read past the end of `keyBinding` (`Core/Input.cpp:34` compares
`i` with the size in bytes).  That is undefined behaviour; `Smash` takes any
outcome the memory layout can give.

The mouse is not here but in `Game`, which has the screens that read it.

`RebindWizard` extends `Input` with the state of the screen; `Tick` is the
frame's `Update`, and takes the step the code takes from the edges the frame's
events left, those of keys (`PollKey`) and of the gamepad (`PollPad`).  `answer`
is the key that was given to the question and that no button before the one
asked for has; `padded` are the steps passed with a press of the gamepad, which
the screen takes for an answer although it binds nothing.

### SaveFile, StateStack, Screens and Game

`StateStack` has the functions of the scripts as operators on a `world`: the
stack, `dropFrame`, the options, the save file, `quit`, which scripts are
`defined`, and `ok`, which a script error clears.  An error ends the function
where it is, and what was done before it stays; a pop of the empty stack is one
(`PopState`).  So the operators are built in the order of the code, and each one
does nothing to a world that is not `ok`.  `SaveFile` is the packet, a new one
for every load and save of the scripts.  The number a read past the end returns
is `memory`, an input, because `SQFileReadInt` does not initialise it.

In `Game`, `main` is the call of `main.cpp` that comes next, and every call is
an action.  `GSMUpdate` runs `Tick`; `funcExist` is false from the first error
on.  `DoFile` runs the scripts in any order, as `DirScan` finds them.
`HardCheck` is the exception any part of the start can throw.  `Kill` may come
between any two calls and inside a script's `Save`, after the file has been
made empty; `Restart` begins with what is on disk.  The counts of the buttons
are those of `Input`, so here a frame's input is a record: what went down, what
is held, what the mouse did and where.  `leftClick` is kept, because only
`InputResetPress` makes a click a held button.

`Screens` says what the player may expect: a tree of screens, and a path in it
from the root, to which a press that has not been answered yet adds one screen
or from which it takes the last.  `Navigates` is the refinement, with the names
of all states on the stack as the path, empty before the first frame only.

### Settings

`phase` is where the process is: `off`, `load` (in `LoadGlobals`; `LoadCommand`
is one round of its loop), `loaded`, `run` (scripts change the settings),
`save` (in `SaveGlobals`, after the file was opened).  The file is the sequence
of its tokens, because `operator>>` sees nothing else; a file that cannot be
opened reads like an empty one.  The text is shorter than the stream's buffer,
so it reaches the disk in one write when the file is closed, and a process that
dies before leaves the empty file the opening made.  A number is read as far as
it goes: `ValueOf` is what `operator>>` makes of a word that begins with one,
`RestOf` the end of the word it leaves, which is then the next word (`rest`), and
`TooBig` are the numbers it turns into the largest float while it fails the
stream.  `Written` is the text of a volume, which has six digits: those that
scripts set are whole numbers up to 100 and read as the same number
(`NumbersAssumption`), the largest float is not read as itself.

A key without a name makes `SaveGlobals` follow an iterator past the end
(`main.cpp:84`), which is undefined.  Either the process dies with the file empty
(`Die`), or it comes to write: then what was said before that name is in the
file, and behind it anything of `Debris` (`CloseUnnamed`), which the theorems
leave open altogether.
`saved` and `origin` are history: the settings the file
was written from, and whether it is a save, a save cut off, a save with a key
that has no name, or the player's.

### Screen

`DrawBlock` is a loop over rows and, inside, over the columns of a block; a
step is one pixel (`Pixel`) or the end of a row (`EndOfRow`).  The position on
the screen and the position in the block are two pairs of variables, as in the
code, because they start from two clippings and advance together.  `Source` is
`D2D3Trans`: the pixel of the block that a rotated and mirrored position shows.
A row's shift (the warp) is added after the clipping, so a pixel may leave the
screen; `OnScreen` is the test that drops it.  Colours go through a function
`Fade` with one colour that is transparent; what `CalcFade` computes is left
open.

### Pixels, FloodFill, GfxEdit, Palette and GraphicsLoader

A frame is a function from the pairs `<<x, y>>` of a 256x256 array, of which
the upper left square of the picture's size is shown.  `FloodFill` has the
queue of the code and the test of the clock after every pop (`Visit`, with a
time-out at any moment).  `AreaOf` in `Pixels` is what the fill is measured
against: the intersection of all sets around the click that are closed under
steps between neighbours of one colour.  `Filled` is the frame with that area
painted.

`GfxEdit` has one action for each command of the toolbar that changes the
frames, the clipboard or the file.  A fill is one of them: it takes the frame to
`Filled` in one step, and that the rounds of `FloodFill` end there is the theorem
`FillIsAtomic`.  `maxFrame`, `currFrame` and `frames`
are kept apart, as in the code.  `DoError` leaves an empty vector, and the next
`OnDraw` dereferences its `begin()`: that is `Wild`, after which nothing is
said.  `Cuts` are saves of which only a part reached the disk, `Files` are
files from elsewhere, and `Junk` is what the uninitialised copy buffer may
hold (`Editors/GFXEdit.cpp:63`; until something is copied, a paste may bring
colours that are none of the palette, whatever their alpha, which the model does
not keep).  `saved` and `origin` are history: what the screen showed of the frames
the file was written from.  `FramesOf` is what the editor's own `Load` makes of a file, `Blocks` what the
console's `GraphicsLoader` does; the properties compare both with `saved`.

### SfxEdit

An action is an event of the editor's main loop or its `OnUpdate`; presses,
drags and releases come between updates in any order and number, as `pollEvent`
delivers them.  The code keeps what is selected out of the map of notes, in a
vector of its own, and puts it back by `emplace`: `notes` and `select`.  A point
is given in units of five pixels, the length unit, and a channel, which is
where `y` is.  `Reachable` is the walk from `lower_bound` back and forth that a
click makes over the map.  A click may also lie left of the notes, over the
sliders: `Margin` is how far the notes begin from the edge, and `SliderUnits`
are the places of a slider at which a frequency is typed in.  `OnUpdate` either sets the sliders from the one
selected note or writes them into it; which one is the flag `refresh`.
`clipBoard` is kept for each channel, as the numbers 0 to 3 in the code's list
say.  `Half` is C's division, which rounds towards 0: a file may bring a note of
a length below 0, and then the end of playback lies before the note itself
(`PlaysAll` excludes this case, and the second file of the run has it).
`turned`, `pasted`, `sent` and `edited` are history.
The file `Save` writes is the operator `Encoding`, which needs no variable: that
it is read back is an invariant of every state.  `Played` is what `OnUpdate` plays
at a position, `Latest` the note that counts there when it is saved.  `Earlier` is the order in which
the loop of `Save` comes by the notes, so the record at a place of the file is
the one with as many notes before it.

## 3. What TLC checks

| Run | Instance | Shows |
|---|---|---|
| `streams` | two streams (square, noise), four notes of high, middle, low and below-low priority | `HeapSafe`: no callback and no `SetNote` without the streams; `NoInversion`: the store never replaces a better note although the test is a step earlier; `DurationExact`: a note sounds for its length, or one callback less; `ResetOnce`: the register is reset once for a note; `ExitCompletes`: `AudioExit` ends; `Quiesces`: without further notes every stream goes silent and gives its priority back |
| `waves` | a rate of 60, buffers of 5 samples, seven frequencies, a register of 4 bits | `PeriodExact`: a period has the length and the duty of the note it was begun with; `NoiseTurns`: so has a bit of the noise, and the register never becomes empty; `RampSmooth`: the triangle has no jumps |
| `feeder` | nine files: good, empty, out of order, repeated, short, with a bad position, channel or size | `SentOnTime`: no tick sends a sample before its time, and of a sorted file each sends exactly the samples of its time; `SendsRise`: music before effects; `SfxEnds`: an effect ends; `PlaysOneEffect`: refinement of `SfxPlayer` |
| `feeder_unsorted` | the same files | violation, see section 5 |
| `input` | three keys (one for two directions, one that matches memory behind the table and that a script can bind to one of them, one that quits), two axes for the same directions | `EdgeExact`: an edge is seen in the frame of a press that still holds; `NoPhantomHold`: a count never exceeds the devices that press the button; `LatchesFollowAxes`: the latches are the directions the axes are pushed to; each but for the cases named in section 2 |
| `rebind_wizard` | three keys and the key that quits, a gamepad button that stands for one of the buttons asked for, at most two held, one test frame | `NoStepSkipped`: a step that no gamepad press passed has bound its button, and the last four buttons have a key of their own; `AnswerIsTaken`: a key that can answer brings the next question |
| `settings` | two buttons, three named keys, two volumes, twelve edited files: good, ended early, damaged, repeated, with volumes out of range or run into the next word; five texts that may follow a key without a name | `RoundTrip`: a save is read back, a cut one gives the defaults; `LossIsBounded`: of a save with an unnamed key that was written, what came before it survives; `NothingInvented`: a setting is its default or what the file says; `LoadEnds` |
| `draw_block` | a 3x3 screen, blocks of sides 1 to 3, both mirrorings and four rotations, places from -4 to 4, three shifts of the rows | `DrawnWell`: the loops leave the picture the settings describe; `IndexSafe`: every index is inside its array |
| `flood_fill` | every picture of 3x3 pixels in two colours in an array 4 wide, a click on each pixel | `FillStaysInside`, `FillIsComplete`, `FillEnds` |
| `gfx_files` | up to two frames of 1x1 or 2x2 pixels, two strokes, eight foreign files, a save cut after two bytes | `FramesCounted`: counters and frames agree until a load fails; `OthersUntouched`: a command changes the frame on the screen only; `SavedIsRead`: the frames the editor loads and the blocks of the console are those that were saved; `CutIsRefused`: they accept the same files, and no part of a save |
| `sound_editor` | a square and the noise channel, five events and any number of updates, two good and three bad files | `UpdateKeeps`: an update rewrites a note only if its sliders were moved; `NothingLost`: a note that lies alone is not lost by clicks, saving and pasting; `SaveReadsBack`: editor and console accept the file, and the editor reads from it at every position the note that counts there, which is the one played unless several are selected there; `PlaysAll`: playback that ends by itself has played at every position with a note |
| `game` | two players, one with the mouse and the options, one with the buttons and the save test; no broken script or one of four; exceptions, kills, restarts | `Navigates`: refinement of `Screens`, the whole stack; `DrawnIsFresh`: what is drawn is the state that took the input; `GoodScriptsRun`: scripts stop only because of a script that is needed; `NumberKept`: a saved number is read back from a file that is not empty; `QuitSaves`: who asks to quit gets an end, and the settings on disk |

Each property has a mutant, a changed definition beside the real one, which
makes TLC report the property violated: it stands for the bug the property
would catch.  `SentOnTime` has three (a tick too early, a tick too late, all at
once), `SavedIsRead` two (rows and columns exchanged by `Save` and by the
editor's `Load`), `Navigates` two (a screen that leaves the one under it too, a
click that is not demoted).

**Bounds.**  `streams`: each stream has its own variables and thread and meets
the others only through the main thread, so two of different kinds show every
interference; a triangle differs from a noise in nothing this module keeps but
the reset.  Lengths go to 2, longer than the one callback a note can overlap
with; the safety properties are proved for any number of streams and any notes.
`waves`: the widths are those on both sides of the length of a buffer and of
the bounds of the ramp (0, 2, 7, 10, 15, 20 and the default); `Wrap` is 64, so
that the counter of a noise above the sample rate comes round.  `feeder`:
tracks of up to four samples contain every case of `NotDue` (before the first
tick, equal times, a gap, the end, unsorted).  `MaxRef`, the bound on a
button's count, is 2: enough for a press that is shared and for one that is
orphaned or adrift; the theorems have no such bound.  The gamepad's buttons are
in `rebind_wizard` and its axes in `input`: for the counts a button is a key that
needs no focus.
`TestFrames` shortens the 600 frames of the test screen, which does nothing but
count.  `MaxDown`, keys held at once, is 2: a fresh key and the one before it.
`rebind_wizard` uses symmetry in the keys, which the code compares for equality
only; it checks no liveness.  `draw_block`: with blocks as large as the screen
and places up to a block's side away, every clipping on every side occurs, alone
and together; the theorems hold for all sizes.  `flood_fill`: 3x3 has rings,
corners, several areas and a pixel with four neighbours, and the fourth column
and row are the memory outside the picture.  `gfx_files`: `MaxStrokes` bounds
the changes of colour, two are enough to make two frames different and to
change a frame after it was saved; `MaxFrames` is 2 instead of 200, so that the
limit is reached.  `CutIsRefused` looks at every length a file can be cut to.  `sound_editor`:
`MaxInputs`, five events, is enough to load, select, turn, copy and paste with
updates in between; positions up to 1 with lengths up to 4 make notes overlap,
follow and hide each other, two selected ones come to one position, and the
window shows one position, so that notes lie on both of its sides.  `Margin` is 4 instead of 32 and a slider is
at one place instead of 20: the notes are hit by points that the lengths reach
back to, and by no others.
`game`: an integer is two bytes of two values (`ByteBase`), `MaxVolume` and
`RepeatDelay` are 1 instead of 100 and 30, so that the volume meets both its
ends and a held direction repeats.  Four of the ten scripts can be broken: the
stack, a screen, a helper that two screens use, and one that the menu draws with; the rest
stop the game in the same ways.  A process is started again only after it was
killed, since a start that follows an end in order shows nothing new.  A kill
inside `SaveGlobals` is left to `settings`, where the file is a sequence of
tokens.
`CHECK_DEADLOCK FALSE` is set where the frame
loop really ends (quit, the screen popped, the process over).

**Fairness.**  `AudioStreams`: weak fairness of the main thread inside a call
(`AudioInit`, a store that follows its test, `AudioExit`) and of each stream's
thread, which SFML keeps scheduling; none for `SetNote` and none for beginning
`AudioExit`.  `AudioFeeder`: weak fairness of loading, which is a loop over a
finite directory, and of `UpdateAudioFeeder`, which `main.cpp` calls in every
frame; none for `PlayBGM` and `PlaySFX`.  `Settings`: weak fairness of the reading
loop, which waits for nothing; none for the rest of the program's life.
`FloodFill`: weak fairness of the loop's round and of its end; the time-out is
never required to happen.  `Game`: weak fairness of the steps of main, a single
thread that waits for nobody (the loop polls); none for exceptions, kills and
restarts.  `Waves`, `Input`, `RebindWizard`, `Screen`, `GfxEdit` and `SfxEdit`
state none, and no liveness.

## 4. What is proved

For every value of the constants, from the assumptions named in the modules
(`NumStreams` positive, kinds and notes of their types; rates, buffers and sizes
positive; for the game, players whose events are events and a settings file of
the right type; for the editor, pictures of at most 256 pixels, foreign files
made of bytes, and memory that holds colours; for the settings, keys and buttons
with different names that are not empty, and volumes that are written as numbers, those of
scripts as themselves; for the sound editor, files made of numbers, whatever they are;
for the feeder, that the files are finite sequences of records):

| Theorem | Module | Says |
|---|---|---|
| `TypeCorrect` | `AudioProofs` | `Spec => []TypeOK` |
| `PrioritySafe` | | `Spec => []NoInversion` |
| `DurationIsExact` | | `Spec => []DurationExact` |
| `ResetsOnce` | | `Spec => []ResetOnce` |
| `HeapIsSafe` | | `Spec => []HeapSafe` |
| `PeriodsAreExact` | | `WaveSpec => []PeriodExact` |
| `NoiseKeepsTurning` | | `WaveSpec => []NoiseTurns` |
| `RampIsSmooth` | | `WaveSpec => RampSmooth` |
| `FeederTypes` | `AudioFeederProofs` | `Spec => []TypeOK` |
| `SlotsInLockstep` | | `Spec => []Lockstep` |
| `SendsOnTime` | | `Spec => SentOnTime` |
| `PrioritiesRise` | | `Spec => []SendsRise` |
| `FeederPlaysOneEffect` | | `Spec => PlaysOneEffect`: `AudioFeeder` implements `SfxPlayer` |
| `EdgesAreExact` | `InputProofs` | `Spec => []EdgeExact` |
| `LatchesAreExact` | | `Spec => []LatchesFollowAxes` |
| `NoPhantomHolds` | | `Spec => []NoPhantomHold` |
| `AnswersAreTaken` | | `WizardSpec => AnswerIsTaken`, if `StrayKeys = {}` |
| `EveryStepBinds` | | `WizardSpec => []NoStepSkipped`, if `StrayKeys = {}` |
| `DrawsTheBlock` | `ScreenProofs` | `Spec => []DrawnWell` |
| `IndexIsSafe` | | `Spec => []IndexSafe` |
| `FillTypes` | `GfxEditProofs` | `FillSpec => []FillTypeOK` |
| `FillIsContained` | | `FillSpec => []FillStaysInside` |
| `FillCovers` | | `FillSpec => []FillIsComplete` |
| `FillIsAtomic` | | a fill that is done has made the frame `Filled`, the step of `GfxEdit` |
| `PaletteIsExact` | | `PaletteExact`: a byte's colour is written back as the byte |
| `FramesAreCounted` | | `Spec => []FramesCounted` |
| `OthersStayUntouched` | | `Spec => OthersUntouched` |
| `SavedFilesAreRead` | | `Spec => []SavedIsRead` |
| `CutsAreRefused` | | `Spec => []CutIsRefused` |
| `GameNavigates` | `GameProofs` | `Spec => Navigates`: `Game` implements `Screens` |
| `PicturesAreFresh` | | `Spec => DrawnIsFresh` |
| `OnlyCulpritsStop` | | `Spec => []GoodScriptsRun` |
| `SavedNumberIsKept` | | `Spec => []NumberKept` |
| `SettingsRoundTrip` | `SettingsProofs` | `Spec => []RoundTrip` |
| `SettingsLossIsBounded` | | `Spec => []LossIsBounded` |
| `SettingsInventNothing` | | `Spec => []NothingInvented` |
| `SfxInvariant` | `SfxEditProofs` | `Spec => []IInv`, the invariant described below |
| `SfxUpdateKeeps` | | `Spec => UpdateKeeps` |
| `SfxNothingLost` | | `Spec => NothingLost` |
| `SfxPlaysAll` | | `Spec => PlaysAll` |
| `SfxSaveReadsBack` | | `Spec => []SaveReadsBack` |

So every safety invariant and every action property the passing runs check, and
every refinement, is a theorem; the runs remain because they show that the
hypotheses are met, and because a mutant fails there.

* Priority.  `NoInversion` is not inductive: between test and store the
  stream's thread may store too, and what it stores was made earlier.
  `PriorityInv` adds that a copy in a thread's hands never outranks what is
  installed, because since it was made the priority can only have been raised
  by a store of `SetNote`, and that the priority is never below `Low` once a
  note is installed by the rules of the test.
* Duration and reset.  `DurationInv` counts, for every copy of the parameters
  there is, the callbacks heard and those that remain: between callbacks they
  add up to what is owed or to one less (`AtRest`); during one, the callback in
  progress is counted on both sides (`InCallback`); a note that has not been
  stored yet satisfies both (`Fresh`), so it may be stored at any moment.
* Lifetime.  `LifetimeInv` says which streams may have a running thread at each
  point of `AudioInit` and `AudioExit`; the thread that `Join` waits for is the
  last one at its position.
* Waves.  The invariants say for each class how many samples of the period are
  behind and how many ahead, in terms of the note the period was begun with;
  that the note may be another by now does not enter.  For the square a second
  count does the same for the high part.  For the noise the counter has two
  ranges, below the width and, after a width of 0, below `Wrap`.  `RegisterInv`
  bounds the register by 1 and twice its top bit: a shift leaves 0 only of a 1,
  and then the bit that falls out comes in at the top.  `TopBit` is any number,
  since no more of it is used.  For `RampSmooth` the invariant `RampInv` says
  that the last sample is the one of the ramp before `time`, or 0 where a ramp
  begins; the quotients of the ramp are bounded by lemmas in which each product
  of two variables stands for one number.
* Feeder.  Every loop over the slots decides for one slot from that slot alone,
  so equal slots stay equal.  The sample at which the inner loop stops is the
  least index that is not due; that there is one follows from the well-founded
  order of the numbers (`LeastNumber`).  What lies between two such indices is
  what the tick sends, and `SentOnTime` compares it with the positions; for that
  the invariant says that everything before the cursor has been due, and that of a
  sorted track everything that has been due lies before it (`SlotOK`).  The calls of a tick are those for
  the music followed by those for the effect, which gives `SendsRise`.  With
  lockstep and the type of the slots, every step is a step of `SfxPlayer` or
  none.
* Input.  The code is tied to the history by counting: `CountsLive` says that a
  count is not below the live presses of its button unless it is robbed, and not
  above them unless it is orphaned; `EdgeIsCounted` that an edge is that of a hit
  whose count has not gone back to 0.  The two give `EdgeExact`.  `LiveTypes` says
  that a live press is that of a key or a button of the gamepad that is down, or
  of a latched direction; `AxisInv`, which is `LatchesFollowAxes` with positions
  of the right type, says where the stick then is, and the three together are
  `NoPhantomHold`.
* Rebind screen.  `WizardInv` says that a button that was asked for has a key of
  the keyboard or was passed by the gamepad, that a button bound after the
  directions shares its key with no button before it, and that an edge in the
  frame of an answer belongs to the key just bound or to the gamepad
  (`EdgesAnswer`).  The last is false after the over-read of `keyBinding`, which
  may set any edge: hence `StrayKeys = {}`.  A question that is still open when
  its step is over is that of the last step, passed by the gamepad.
  `AnswerHolds` says that the answer of a frame is a live press of the button
  asked for, so that by the counts its edge stands unless it is robbed.
* Game.  `TypeInv` is about what is behind the names.  For `Navigates`, the
  stack is at any time a path in the tree (`Path`) and has something on it once a
  frame has run, so that a pop leads to the screen that opened this one and never
  to an empty stack; `PathOf` maps a push to `Append` and a pop to a shorter path,
  the states under the top keeping their names; and a mouse button counts as a click in the frame
  of its press only (`ClickInv`).  For `GoodScriptsRun`, a script that has been
  run and is not broken is defined, in whatever order they ran (`LoadedInv`).
  For `NumberKept`, the file is absent, empty, or holds the bytes of the number
  (`FileInv`), and reading them back is arithmetic for any `ByteBase`.
* Screen.  `PlaceInv` ties the loop's two positions together: at every step
  the place in the block is the place on the screen minus where the block was
  put, and both stay inside what the clipping left.  `BufferInv` says what is
  already drawn: the rows above the current one, and of the current row the
  pixels to the left; everything else still is as it was before.  That `Source`
  stays in the block for each rotation and mirroring is a lemma.
* Fill.  Three parts: what is painted lies in every closed set around the click
  (`AreaInv`; a queued pixel lies there too, as it was reached from a painted
  one); the picture differs from the old one at the painted pixels only
  (`PaintInv`); and every neighbour of a painted pixel that has the old colour is
  painted or still queued (`FrontierInv`).  When the queue is empty the last
  makes the painted set closed itself, so it is the area.  The three together say
  which colour each pixel has, and that is `FillIsAtomic`.
* Graphics editor.  `CountInv` adds to `FramesCounted` the types and that there
  are no frames at all after a load has failed, so every command that runs has
  its frame.  The file is arithmetic: `EncodingIs` says at which place of the
  file each pixel is, from the uniqueness of quotient and remainder (`DivMod`),
  which is where `FramesOf` and `GetBlock` look for it, and `LoadedColours` that
  `Load` reads no byte behind the end.  `FileInv` keeps
  what the file holds while the picture is edited further.  The two acceptance
  tests agree because squares of different sides have different areas
  (`SameArea`).
* Settings.  What is written is described place by place: after six tokens of
  options, three for each button (`Saying`), so no induction over the file is
  needed.  `FileInv` says what the file holds by how it came about; `LoadInv`,
  that the reading of a written file stands between two of its commands, with
  the options and the first `k` buttons read (`Between`), or in what follows the
  key without a name, of which nothing is known but that it is in the file
  (`Beyond`); `LoadedInv`, what the end of the reading makes of that.
  `NothingInvented` is inductive once it is said of all of the reading
  (`GivenInv`): the file does not change under it, and what a number has left of
  its word is the end of a word of the file (`RestInv`).
* Sound editor.  `MapInv`: each map is finite and has one note at a position.
  `ShownInv`: of a channel something is selected of, either the sliders are
  about to be set, or the notes came by `Paste`, or one note is selected and the
  sliders show it or were turned since; `OfferedInv` is what this needs of the
  Cycle.  That is inductive because a click never adds to a selection without
  setting `refresh`, and an update clears that flag only where one note is
  selected; it gives `UpdateKeeps`.  `SentInv`: no note between the
  start of playback and its position is unsent; with `EndIs`, that in a channel
  without negative lengths no note starts behind `End`, it gives `PlaysAll`.
  `NothingLost`
  needs for each command which notes it may take away (`Safe`); the clicks have
  the long proof, since there the selected note under the mouse changes places
  with those of the map.  For `SaveReadsBack`, the records are finitely many and
  `Earlier` orders them, so each has a rank of its own and each rank up to their
  number has a record (`Ranks`, proved with the cardinalities of the library);
  from that, `NotesOf` finds each note once.  That the last of the notes selected
  at a position is the one kept, and is the one played where only one is, are the
  lemmas `LatestIsKept` and `LatestIsPlayed`.

Only model-checked: the liveness properties `ExitCompletes`, `Quiesces`,
`SfxEnds`, `LoadEnds`, `FillEnds` and `QuitSaves`, since the prover has no rules
for fairness over ENABLED.  No module has an operator declared `RECURSIVE`.

## 5. Where the code disagrees with itself

`Loaders/AudioLoader.cpp:49` is meant to refuse a file whose samples are out of
order, `softcheck(lastPos > note.position, ...)`, but `lastPos` stays -1: only
positions below -1 are refused.  `feeder_unsorted` loads a track whose second
sample lies before its first.  `SentOnTime` says what still holds of such a
track: nothing is sent early, but samples behind a late one wait for it.

Facts of the code that contradict no comment and are part of the models: a
note that `SetNote` stores between the second load and the store of `onGetData`
is lost; samples of the second square channel are sent to the first square
stream (`Loaders/AudioLoader.cpp:112`); a row's shift is applied after the clipping of the block, so a shifted block has
blank columns where a clipped part would have come into view; the editor reads
an empty vector after a load that failed (`Editors/GFXEdit.cpp:515` and `:408`).
In the sound editor, a frequency that is typed in is usually lost:
`Slider::Click` returns false after it (`Editors/SFXEdit.cpp:596`), so the same
click goes on to the notes and ends the selection before the value is written
(`TypeFreq`); a note that is pasted alone gets the values the sliders had
before, since `Paste` sets no refresh flag; one click on two notes that overlap
loses the earlier (line 413); playback is cut at the end of the last note of a
channel although an earlier one may be longer (line 248).

Of several notes that are selected at one position, which a drag makes at the
left end, playback takes the first (line 207) and `Save` keeps the last (line 740):
what is read back is not what was heard.

Of the input: a key held over a lost focus or a switch to full screen cancels,
when it goes up, the press of another device; a key bound anew while held, or a
gamepad unplugged while in use, leaves a button held until the next reset, and so
does a stick flicked from one side to the other, until an axis of the pair comes
to rest; an axis that comes to rest releases what another of the pair is pushed
to.
Of the rebind screen (`Script/RebindState.nut:20`): the button of a gamepad
passes a step whose button then keeps its old key; if that is the last step, the
question stays open and the next key pressed anywhere is bound to Select.  A key
that a button before has answers nothing, and the question is gone: the screen
waits for ever, unless a gamepad goes on.  So it is not promised that the screen
can be left, and no property says so.

Of the settings (`main.cpp`): a key without a name makes the saving undefined
(line 84), with the file already empty: all settings may be lost, or those from
that key on.  A volume is the number its word begins with, so `12loud` sets 12 and
the rest ends the reading as an unknown command; a number out of range sets the
largest float, what is no number 0 or nothing, and both end the reading.  A volume
is written with six digits.

Of the waves (`Core/Audio.cpp`): a buffer has 735 samples, of which
`data.sampleCount` reports 734, so the last is made and not heard.  `noisePos` is
local to the callback, so a bit that is 1 is heard as 0 from the start of the next
buffer until the register turns.  A noise note above 44100 Hz has width 0, which
is decremented past 0, and its bit then lasts 2^32 samples whatever notes follow.
A triangle of width 1 to 3 divides 0 by 0, one of width 6 or 7 leaves the range
of 16 bits.

Of the scripts: a state that is pushed is not drawn in the frame of its push but
takes the whole input of the next, which the player gave to the picture of the
state below.  `ReadInt` on a save file that is empty or too short returns
uninitialised memory; `SaveTest.nut` looks at what `Load` returns, which is true
for such a file, and not at what `Save` returns.  `Load` appends to what the
packet holds.  An exception ends the
process without `AudioExit` and `SaveGlobals`.  `SQSetVolume` takes the branch
for integers whatever it is given.
Not in a model: `x133` and `x166` in `Core/Graphics.cpp:32` leave bits unmasked,
since `&` binds before `|`.

## 6. What is left

Open, in order of use:

1. A composition of `AudioFeeder` and `AudioStreams`: the channel ends with
   the most important note.  Now the two meet in `SendsRise` (the order in which
   the feeder calls `SetNote`) and `NoInversion` (what `SetNote` does with it).

**Not modelled.**  About 38,000 of the 42,900 lines of the repository are SFML's
headers and the source of Squirrel.  They are libraries; the program's own
behaviour is in the rest.  Of SFML the model has the events and stream threads
it gives the program, of Squirrel that an error ends a function.  Of the
program's own code these are left out:

* drawing through SFML (`WindowDraw`, `WindowPresentRequest`, the editors'
  windows, buttons and input boxes), `Draw` of the states with text, and
  `Text.nut`, `WindowObj.nut` and `TableFind.nut`, which keep no state;
* `Clear`, `DrawSolid`, `OverLay`, `SetWarp` and the bits of `CalcFade`: one
  assignment or bounded loop each;
* `AudioUpdate`, which hands the volume to SFML;
* the right mouse button, which no script reads, and mouse coordinates, which
  are an entry and a place on it in `Game`;
* the square of `InputTest.nut` and the calls of `SoundTestState.nut`, whose
  choice of tracks is an input of `AudioFeeder`;
* `SwitchState` and `ResetStack`, which nothing calls;
* bytes and strings of `SaveFile`, the conversions of arguments in the bindings
  and their random numbers;
* the order of `DirScan`, which is any order wherever it matters, and the table
  of names of `LoadGraphics`.
