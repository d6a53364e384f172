------------------------------- MODULE Screens -------------------------------
(***************************************************************************)
(* What the player is promised of the game's screens: they form a tree; a  *)
(* game opens at its root, goes one screen deeper or one back for a press  *)
(* of its own, and from the root it goes nowhere but deeper or out.  Game  *)
(* implements it with its stack of states.                                 *)
(***************************************************************************)
EXTENDS Naturals, Sequences

CONSTANTS
    Root,  \* the screen a game starts with
    Below  \* Below[s]: the screens that can be opened from s

VARIABLES
    running,
    path, \* the screens from the root to the one shown; none before the first frame
    asked \* the player has pressed something that has not been answered

screensVars == <<running, path, asked>>

Init ==
    /\ running = TRUE
    /\ path = <<>>
    /\ asked = FALSE

\* The first frame makes the root, and answers what was asked before it.
Entered == IF path = <<>> THEN <<Root>> ELSE path

Listen ==
    /\ running
    /\ asked' \in BOOLEAN
    /\ UNCHANGED <<running, path>>

Enter ==
    /\ running
    /\ path = <<>>
    /\ path' = Entered
    /\ asked' = FALSE
    /\ UNCHANGED running

Open ==
    /\ running
    /\ asked
    /\ \E s \in Below[Entered[Len(Entered)]] : path' = Append(Entered, s)
    /\ asked' = FALSE
    /\ UNCHANGED running

Back ==
    /\ running
    /\ asked
    /\ Len(path) > 1
    /\ path' = SubSeq(path, 1, Len(path) - 1)
    /\ asked' = FALSE
    /\ UNCHANGED running

Stop ==
    /\ running' = FALSE
    /\ UNCHANGED <<path, asked>>

Start ==
    /\ ~running
    /\ running' = TRUE
    /\ path' = <<>>
    /\ asked' = FALSE

Next == Listen \/ Enter \/ Open \/ Back \/ Stop \/ Start

Spec == Init /\ [][Next]_screensVars
=============================================================================
