--------------------------------- MODULE Game ---------------------------------
(***************************************************************************)
(* src/one/main.cpp and what it calls of src/one/Core/GSM.cpp,             *)
(* src/one/Core/Window.cpp and src/one/Core/Input.cpp: the life of the     *)
(* program from its start to its end, with the scripts of StateStack.      *)
(* Every module that has a model of its own is one step here: the streams  *)
(* and the feeder, the loaders, the text of the settings file, the counts  *)
(* of the buttons.                                                         *)
(***************************************************************************)
EXTENDS StateStack

CONSTANTS
    Breakable, \* the scripts that may have an error, at most one at a time
    Players,   \* sets of events: what one player does between two frames
    Stored     \* the settings file at the start

\* What a device or the window can report; click is filled in by WindowUpdate.
Inputs == [pressed : SUBSET PadButtons, held : SUBSET PadButtons,
           mouse : {"none", "press", "release", "LostFocus"}, click : 0..2,
           over : Int, spot : Int, done : BOOLEAN, opens : BOOLEAN, memory : Numbers,
           quit : BOOLEAN]

\* A settings file may say any volume.
Settings == [fullScreen : BOOLEAN, aspectRatio : 0..2, volume : Int]

ASSUME GameAssumption ==
    /\ Breakable \subseteq Scripts
    /\ Players \subseteq SUBSET Inputs
    /\ Stored \in Settings

VARIABLES
    main,          \* the call of main.cpp that comes next, or how it has ended
    world,         \* the globals, the file and the stack: what scripts change
    toLoad,        \* the scripts DirScan still has to hand to DoFile
    broken,        \* the scripts with an error
    player,        \* the events that can happen
    funcExist,
    picture,       \* the back buffer, which every frame presents
    winFullScreen,
    leftClick,     \* 1 in the frame of the press, 2 while it is held
    in,            \* the input the scripts read in this frame
    saved          \* Settings.ini

vars == <<main, world, toLoad, broken, player, funcExist, picture, winFullScreen,
          leftClick, in, saved>>

SettingsOf(w) ==
    [fullScreen |-> w.fullScreen, aspectRatio |-> w.aspectRatio, volume |-> w.volume]

Startup == <<"scripts", "AudioInit", "LoadGraphics", "LoadAudio", "WindowInit", "frame">>

\* Mutant: main returns before it saves.
ShutdownUnsaved == <<"WindowExit", "AudioExit", "GSMExit", "done">>

Shutdown == <<"WindowExit", "AudioExit", "GSMExit", "SaveGlobals", "done">>

Frame == <<"frame", "WindowUpdate", "GSMUpdate", "WindowDraw", "frame">>

After(order, call) == order[(CHOOSE n \in 1..(Len(order) - 1) : order[n] = call) + 1]

Ended == {"done", "unsaved", "failed", "killed"}

\* No event: an event is what a device or the window reports between two frames.
Quiet == [pressed |-> {}, held |-> {}, mouse |-> "none", click |-> 0, over |-> NoEntry,
          spot |-> 0, done |-> FALSE, opens |-> TRUE, memory |-> 0, quit |-> FALSE]

\* The process starts with the settings and the save file as they are: LoadGlobals.
NewWorld(settings, file, lastSaved) ==
    [stack |-> <<>>, dropFrame |-> FALSE, fullScreen |-> settings.fullScreen,
     aspectRatio |-> settings.aspectRatio, volume |-> settings.volume,
     file |-> file, lastSaved |-> lastSaved, quit |-> FALSE, ok |-> TRUE, defined |-> {}]

Init ==
    /\ main = "scripts"
    /\ saved = Stored
    /\ world = NewWorld(Stored, {}, 0)
    /\ broken \in {{}} \cup {{s} : s \in Breakable}
    /\ player \in Players
    /\ toLoad = Scripts
    /\ funcExist = TRUE
    /\ picture = <<>>
    /\ winFullScreen = FALSE
    /\ leftClick = 0
    /\ in = Quiet

-----------------------------------------------------------------------------
(* The start *)

\* What the top level of a script uses of other scripts.
\* Mutant: the stack is made with its first state when State.nut is loaded.
TopLevelEager(script) == IF script = "State" THEN {"MenuState"} ELSE {}

TopLevel(script) == {}

\* DirScan's order is that of the directory.  An error is only logged.
DoFile(script) ==
    /\ main = "scripts"
    /\ script \in toLoad
    /\ toLoad' = toLoad \ {script}
    /\ world' = IF script \notin broken /\ TopLevel(script) \subseteq world.defined
                THEN [world EXCEPT !.defined = @ \cup {script}] ELSE world
    /\ UNCHANGED <<main, broken, player, funcExist, picture, winFullScreen, leftClick, in, saved>>

ScriptsLoaded ==
    /\ main = "scripts"
    /\ toLoad = {}
    /\ main' = After(Startup, main)
    /\ UNCHANGED <<world, toLoad, broken, player, funcExist, picture, winFullScreen,
                   leftClick, in, saved>>

Initialise ==
    /\ main \in {"AudioInit", "LoadGraphics", "LoadAudio"}
    /\ main' = After(Startup, main)
    /\ UNCHANGED <<world, toLoad, broken, player, funcExist, picture, winFullScreen,
                   leftClick, in, saved>>

\* CreateWindow: a mode that is not valid falls back to a window.
CreateWindow(w) ==
    \E valid \in BOOLEAN :
        /\ world' = [w EXCEPT !.fullScreen = @ /\ valid]
        /\ winFullScreen' = (w.fullScreen /\ valid)

WindowInit ==
    /\ main = "WindowInit"
    /\ main' = After(Startup, main)
    /\ CreateWindow(world)
    /\ UNCHANGED <<toLoad, broken, player, funcExist, picture, leftClick, in, saved>>

\* hardcheck: the exception leaves main without AudioExit or SaveGlobals.
HardCheck ==
    /\ \E n \in 1..(Len(Startup) - 1) : main = Startup[n]
    /\ main' = "failed"
    /\ UNCHANGED <<world, toLoad, broken, player, funcExist, picture, winFullScreen,
                   leftClick, in, saved>>

-----------------------------------------------------------------------------
(* A frame *)

\* Mutant: a click is new as long as the button is down.
InputResetPressKeepsClick == leftClick

InputResetPress == IF leftClick = 1 THEN 2 ELSE leftClick

\* The condition of the loop, and its first call.
BeginFrame ==
    /\ main = "frame"
    /\ IF world.quit
       THEN main' = Shutdown[1] /\ UNCHANGED leftClick
       ELSE main' = After(Frame, "frame") /\ leftClick' = InputResetPress
    /\ UNCHANGED <<world, toLoad, broken, player, funcExist, picture, winFullScreen, in, saved>>

\* The window made anew drops the buttons, and so does the loss of the focus.
WindowUpdate ==
    /\ main = "WindowUpdate"
    /\ main' = After(Frame, main)
    /\ \E e \in player :
          LET w == [world EXCEPT !.quit = @ \/ e.quit]
              anew == world.fullScreen # winFullScreen
          IN  /\ IF anew THEN CreateWindow(w) ELSE world' = w /\ UNCHANGED winFullScreen
              /\ leftClick' = CASE e.mouse = "press" -> 1
                                [] e.mouse \in {"release", "LostFocus"} -> 0
                                [] OTHER -> IF anew THEN 0 ELSE leftClick
              /\ in' = [e EXCEPT !.click = leftClick']
    /\ UNCHANGED <<toLoad, broken, player, funcExist, picture, saved>>

\* Without State.nut there is no function tick.
GSMUpdate ==
    /\ main = "GSMUpdate"
    /\ main' = After(Frame, main)
    /\ IF funcExist /\ "State" \in world.defined
       THEN LET t == Tick(world, in, picture)
            IN  /\ world' = [t.world EXCEPT !.ok = TRUE]
                /\ funcExist' = t.world.ok
                /\ picture' = t.picture
       ELSE funcExist' = FALSE /\ UNCHANGED <<world, picture>>
    /\ in' = Quiet
    /\ UNCHANGED <<toLoad, broken, player, winFullScreen, leftClick, saved>>

\* UpdateAudioFeeder, AudioUpdate and WindowDraw.
FinishFrame ==
    /\ main = "WindowDraw"
    /\ main' = After(Frame, main)
    /\ UNCHANGED <<world, toLoad, broken, player, funcExist, picture, winFullScreen,
                   leftClick, in, saved>>

-----------------------------------------------------------------------------
(* The end *)

Exit ==
    /\ main \in {"WindowExit", "AudioExit", "GSMExit"}
    /\ main' = After(Shutdown, main)
    /\ UNCHANGED <<world, toLoad, broken, player, funcExist, picture, winFullScreen,
                   leftClick, in, saved>>

\* If the file cannot be opened the settings are lost.
SaveGlobals ==
    /\ main = "SaveGlobals"
    /\ \/ main' = After(Shutdown, main) /\ saved' = SettingsOf(world)
       \/ main' = "unsaved" /\ UNCHANGED saved
    /\ UNCHANGED <<world, toLoad, broken, player, funcExist, picture, winFullScreen,
                   leftClick, in>>

-----------------------------------------------------------------------------
(* The process is killed, and started again.  Opening a file to write it     *)
(* makes it empty.  (Settings has what a cut settings file is read as, so    *)
(* SaveGlobals is not interrupted here.)                                     *)

Saving ==
    /\ main = "GSMUpdate" /\ funcExist /\ world.stack # <<>>
    /\ Top(world).name = "SaveTestState" /\ "Down" \in in.pressed /\ in.opens

Kill ==
    /\ main \notin Ended \cup {"SaveGlobals"}
    /\ main' = "killed"
    /\ \/ UNCHANGED world
       \/ Saving /\ world' = [world EXCEPT !.file = {<<>>}, !.lastSaved = 0]
    /\ UNCHANGED <<toLoad, broken, player, funcExist, picture, winFullScreen, leftClick, in, saved>>

Restart ==
    /\ main = "killed"
    /\ main' = "scripts"
    /\ world' = NewWorld(saved, world.file, world.lastSaved)
    /\ toLoad' = Scripts
    /\ funcExist' = TRUE
    /\ picture' = <<>>
    /\ winFullScreen' = FALSE
    /\ leftClick' = 0
    /\ in' = Quiet
    /\ UNCHANGED <<broken, player, saved>>

Step ==
    \/ (\E script \in Scripts : DoFile(script))
    \/ ScriptsLoaded \/ Initialise \/ WindowInit
    \/ BeginFrame \/ WindowUpdate \/ GSMUpdate \/ FinishFrame
    \/ Exit \/ SaveGlobals

Next == Step \/ HardCheck \/ Kill \/ Restart

\* The program goes on by itself; nobody has to kill it or to start it again.
Spec == Init /\ [][Next]_vars /\ WF_vars(Step)

-----------------------------------------------------------------------------
(* Properties *)

Below == [s \in States |->
    CASE s = "MenuState" -> {"SoundTestState", "InputTestState", "SaveTestState", "OptionsState"}
      [] s = "OptionsState" -> {"RebindState"}
      [] OTHER -> {}]

PathOf(w) == [k \in DOMAIN w.stack |-> w.stack[k].name]

Tree == INSTANCE Screens WITH
    Root <- "MenuState",
    Below <- Below,
    running <- main \notin Ended,
    path <- PathOf(world),
    asked <- in.pressed # {} \/ in.mouse = "press"

\* The stack implements the tree of screens, with all that lies on it: a frame
\* opens one screen on the others, or goes back to the one under it, whatever is
\* pressed together, and only if a button or the mouse went down in that very
\* frame; a mouse button that is held on moves nothing.  No screen is ever on one
\* it cannot be opened from or comes back by a second object of its own, the menu
\* is never left by B, and once it is there the stack never runs empty.
Navigates == Tree!Spec

\* What is drawn is the state that took the input of the frame, as that input
\* left it, and never a state before its first Update (State.nut's DropFrame).
DrawnIsFresh ==
    [][main = "GSMUpdate" /\ picture' # picture /\ picture' # <<>> =>
          /\ picture' = <<Len(world'.stack), Top(world')>>
          /\ IF world.stack = <<>> THEN Len(world'.stack) = 1
             ELSE Len(world'.stack) = Len(world.stack) /\ Top(world').name = Top(world).name
      ]_vars

\* What the input of a frame could open.
Opened(w) ==
    CASE w.stack = <<>> -> {}
      [] w.stack # <<>> /\ Top(w).name = "MenuState" /\ Top(w).picker < 4 ->
            {Entries[Top(w).picker + 1]}
      [] w.stack # <<>> /\ Top(w).name = "OptionsState" -> {"RebindState"}
      [] OTHER -> {}

\* The order in which the scripts are found does not matter, and one script with
\* an error stops the game only when it cannot do without it: at once if it is
\* the stack, the menu or the text, else when the player opens a screen that
\* uses it.
GoodScriptsRun ==
    ~funcExist =>
        \E s \in broken :
            \/ s \in {"State", "MenuState", "Text"}
            \/ \E screen \in Opened(world) : s \in Uses(screen)

\* The save file holds the number that was written to it last, or nothing if the
\* program was killed while it wrote; neither other screens, nor a restart, nor
\* what memory holds make a read yield anything else.
NumberKept ==
    \A bytes \in world.file :
        bytes # <<>> => \A m \in Numbers : ReadInt(Load(Packet, bytes), m) = world.lastSaved

\* The program that is asked to quit, by the window, a key or the menu, ends,
\* scripts running or not, and its settings are then on disk as they were, unless
\* it is killed or the file cannot be written.
QuitSaves ==
    world.quit ~> \/ main \in {"unsaved", "killed"}
                  \/ main = "done" /\ saved = SettingsOf(world)
=============================================================================
