------------------------------ MODULE SfxPlayer ------------------------------
(***************************************************************************)
(* What PlaySFX promises to a script: a player for one sound effect.  An   *)
(* effect starts when it outranks the one that plays, runs through its     *)
(* samples, and leaves the player free.  AudioFeeder implements it with    *)
(* three slots (src/one/Loaders/AudioLoader.cpp:27,143).                   *)
(***************************************************************************)
EXTENDS Integers

CONSTANTS
    Idle,  \* the track of a player that plays nothing
    Ranks  \* the priorities an effect may have; an idle player has 0

VARIABLES
    library, \* how many samples each effect has that a script can play
    track,   \* the effect that plays
    rank,    \* its priority
    left     \* how many of its samples have not been sent yet

playerVars == <<library, track, rank, left>>

Init ==
    /\ DOMAIN library = {}
    /\ track = Idle
    /\ rank = 0
    /\ left = 0

\* The library fills before anything plays, and no effect changes in it.
Load ==
    /\ track = Idle
    /\ DOMAIN library \subseteq DOMAIN library'
    /\ \A e \in DOMAIN library : library'[e] = library[e]
    /\ UNCHANGED <<track, rank, left>>

Start(e, r) ==
    /\ r > rank
    /\ track' = e
    /\ rank' = r
    /\ left' = library[e]
    /\ UNCHANGED library

\* Some samples are sent; the last one frees the player.
Advance(k) ==
    /\ track # Idle
    /\ k <= left
    /\ left' = left - k
    /\ IF k = left THEN track' = Idle /\ rank' = 0
                   ELSE UNCHANGED <<track, rank>>
    /\ UNCHANGED library

Next ==
    \/ Load
    \/ \E e \in DOMAIN library, r \in Ranks : Start(e, r)
    \/ \E k \in 0..left : Advance(k)

Spec == Init /\ [][Next]_playerVars
=============================================================================
