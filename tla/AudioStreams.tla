---------------------------- MODULE AudioStreams ----------------------------
(***************************************************************************)
(* src/one/Core/Audio.cpp: the four wave streams of the synthesizer.       *)
(*                                                                         *)
(* Each stream is an sf::SoundStream: SFML runs onGetData of a playing     *)
(* stream on a thread of that stream, while the main thread calls SetNote  *)
(* of the same stream.  Both sides share one std::atomic<NoteParams>: each *)
(* load and each store is atomic, the read-modify-write made of a load and *)
(* a store is not.  One action below is one load, one store, or one step   *)
(* of AudioInit / AudioExit.                                               *)
(*                                                                         *)
(* The samples (widths, duty cycles, the shift register) are abstracted:   *)
(* of a rendered buffer the model keeps whether it carried sound.          *)
(***************************************************************************)
EXTENDS Integers

CONSTANTS
    NumStreams, \* the streams, numbered in the order AudioInit plays them
    Kind,       \* which wave class each of them is an object of
    Notes       \* the notes the game may pass to SetNote

Streams == 1..NumStreams

ASSUME StreamsAssumption == NumStreams \in Nat \ {0}
ASSUME KindAssumption == Kind \in [Streams -> {"square", "triangle", "noise"}]
ASSUME NotesAssumption ==
    Notes \subseteq [freq : Int, volume : Nat, length : Int, priority : Int]

\* enum Priority::Type.  A script may pass any other integer.
Low == 0
Medium == 10
High == 20

\* Only "length <= 0" is ever asked of a length, and an expired stream keeps
\* decrementing it: the model stops at Spent, which is what Note() starts with.
Spent == -1

VARIABLES
    lGP,        \* the LazyGlobals object, which holds the streams, exists
    main,       \* where the main thread is in AudioInit, the game or AudioExit
    at,         \* the stream AudioInit plays or AudioExit stops next
    pending,    \* the SetNote call that has passed its priority test, if any
    noteParams, \* noteParams of each stream
    streaming,  \* m_isStreaming of each stream (SFML)
    stream,     \* where the thread of each stream is
    minusLength \* the local copy onGetData decrements

vars == <<lGP, main, at, pending, noteParams, streaming, stream, minusLength>>
mainVars == <<lGP, main, at>>
threadVars == <<streaming, stream, minusLength>>

(***************************************************************************)
(* NoteParams of the three classes.  hight tells sound (1) from silence    *)
(* (0): hight of a square, ~mute of the others.  owed, heard and resets    *)
(* are history: the callbacks that should render the note, those that did  *)
(* while it sounded, and those that set the noise register back for it.    *)
(***************************************************************************)
NoteParams ==
    [hight : 0..1, reset : 0..1, priority : Int, length : Int,
     owed : Nat, heard : Nat, resets : Nat]

Resets(c) == IF Kind[c] = "noise" THEN 1 ELSE 0

DefaultParams(c) ==
    [hight |-> 0, reset |-> Resets(c), priority |-> Low, length |-> Spent,
     owed |-> 0, heard |-> 0, resets |-> 0]

\* A square takes the volume of the note; the others sound if it has a frequency.
Hight(c, in) == IF (IF Kind[c] = "square" THEN in.volume ELSE in.freq) > 0 THEN 1 ELSE 0

\* onGetData renders a note at least once, since it tests the length afterwards.
Owed(c, in) == IF Hight(c, in) = 1 /\ in.length > 1 THEN in.length ELSE Hight(c, in)

ParamsOf(c, in) ==
    [DefaultParams(c) EXCEPT !.hight = Hight(c, in), !.priority = in.priority,
                             !.length = in.length, !.owed = Owed(c, in)]

\* Mutant: SetNote without its priority test.
AcceptsAny(p, in) == TRUE

Accepts(p, in) == in.priority >= p.priority

Rendered(p) == [p EXCEPT !.heard = @ + p.hight, !.resets = @ + p.reset]

Left(p) == IF p.length > Spent THEN p.length - 1 ELSE p.length

\* Mutants: the length test off by one; the register reset left on; the
\* priority kept by an expired note.
DecrementLate(p) ==
    [p EXCEPT !.length = Left(p), !.reset = 0,
              !.hight = IF Left(p) >= 0 THEN @ ELSE 0,
              !.priority = IF Left(p) >= 0 THEN @ ELSE Low]
DecrementKeepsReset(p) ==
    [p EXCEPT !.length = Left(p),
              !.hight = IF Left(p) > 0 THEN @ ELSE 0,
              !.priority = IF Left(p) > 0 THEN @ ELSE Low]
DecrementKeepsPriority(p) ==
    [p EXCEPT !.length = Left(p), !.reset = 0, !.hight = IF Left(p) > 0 THEN @ ELSE 0]

Decrement(p) ==
    [p EXCEPT !.length = Left(p), !.reset = 0,
              !.hight = IF Left(p) > 0 THEN @ ELSE 0,
              !.priority = IF Left(p) > 0 THEN @ ELSE Low]

-----------------------------------------------------------------------------
Init ==
    /\ lGP = FALSE
    /\ main = "init"
    /\ at = 1
    /\ pending = {}
    /\ noteParams = [c \in Streams |-> DefaultParams(c)]
    /\ streaming = [c \in Streams |-> FALSE]
    /\ stream = [c \in Streams |-> "off"]
    /\ minusLength = [c \in Streams |-> DefaultParams(c)]

AudioInit ==
    /\ main = "init"
    /\ lGP' = TRUE
    /\ main' = "play"
    /\ UNCHANGED <<at, pending, noteParams, threadVars>>

AllPlayed == at = NumStreams

\* play() of the next stream: SFML starts its thread.
Play ==
    /\ main = "play"
    /\ streaming' = [streaming EXCEPT ![at] = TRUE]
    /\ stream' = [stream EXCEPT ![at] = "waiting"]
    /\ IF AllPlayed THEN at' = at /\ main' = "loop"
                    ELSE at' = at + 1 /\ main' = "play"
    /\ UNCHANGED <<lGP, pending, noteParams, minusLength>>

\* SetNote builds the parameters, loads the current ones and compares.  A note
\* that is refused changes nothing.
SetNoteCheck(c, in) ==
    /\ main = "loop"
    /\ pending = {}
    /\ Accepts(noteParams[c], in)
    /\ pending' = {[stream |-> c, note |-> ParamsOf(c, in)]}
    /\ UNCHANGED <<mainVars, noteParams, threadVars>>

SetNoteStore ==
    /\ \E call \in pending :
          noteParams' = [noteParams EXCEPT ![call.stream] = call.note]
    /\ pending' = {}
    /\ UNCHANGED <<mainVars, threadVars>>

AudioExit ==
    /\ main = "loop"
    /\ pending = {}
    /\ main' = "stop"
    /\ at' = NumStreams
    /\ UNCHANGED <<lGP, pending, noteParams, threadVars>>

\* stop() asks the thread to end ...
Stop ==
    /\ main = "stop"
    /\ main' = "join"
    /\ streaming' = [streaming EXCEPT ![at] = FALSE]
    /\ UNCHANGED <<lGP, at, pending, noteParams, stream, minusLength>>

\* Mutants: stop() that returns at once; one that waits for the wrong thread.
JoinedAtOnce == TRUE
JoinedFirst == stream[1] = "off"

Joined == stream[at] = "off"

\* ... and waits for it before AudioExit goes on to the stream played before.
Join ==
    /\ main = "join"
    /\ Joined
    /\ IF at > 1
       THEN at' = at - 1 /\ main' = "stop"
       ELSE at' = at /\ main' = "delete"
    /\ UNCHANGED <<lGP, pending, noteParams, threadVars>>

Delete ==
    /\ main = "delete"
    /\ main' = "done"
    /\ lGP' = FALSE
    /\ UNCHANGED <<at, pending, noteParams, threadVars>>

Terminated == main = "done" /\ UNCHANGED vars

-----------------------------------------------------------------------------
\* onGetData, first load: the copy all samples of this buffer are made from.
OnGetDataLoad(c) ==
    /\ stream[c] = "waiting"
    /\ streaming[c]
    /\ stream' = [stream EXCEPT ![c] = "render"]
    /\ noteParams' = [noteParams EXCEPT ![c] = Rendered(@)]
    /\ UNCHANGED <<mainVars, pending, streaming, minusLength>>

\* Second load, after the samples are made, and the decrement of that copy.
OnGetDataDecrement(c) ==
    /\ stream[c] = "render"
    /\ stream' = [stream EXCEPT ![c] = "merge"]
    /\ minusLength' = [minusLength EXCEPT ![c] = Decrement(noteParams[c])]
    /\ UNCHANGED <<mainVars, pending, noteParams, streaming>>

OnGetDataStore(c) ==
    /\ stream[c] = "merge"
    /\ stream' = [stream EXCEPT ![c] = "waiting"]
    /\ noteParams' = [noteParams EXCEPT ![c] = minusLength[c]]
    /\ minusLength' = [minusLength EXCEPT ![c] = DefaultParams(c)] \* out of scope
    /\ UNCHANGED <<mainVars, pending, streaming>>

\* The stream's thread sees that it should stop, between two callbacks.
ThreadEnd(c) ==
    /\ stream[c] = "waiting"
    /\ ~streaming[c]
    /\ stream' = [stream EXCEPT ![c] = "off"]
    /\ UNCHANGED <<mainVars, pending, noteParams, streaming, minusLength>>

-----------------------------------------------------------------------------
SetNote == \E c \in Streams, in \in Notes : SetNoteCheck(c, in)

MainStep == AudioInit \/ Play \/ SetNoteStore \/ Stop \/ Join \/ Delete

Thread(c) ==
    OnGetDataLoad(c) \/ OnGetDataDecrement(c) \/ OnGetDataStore(c) \/ ThreadEnd(c)

Next ==
    \/ MainStep
    \/ SetNote
    \/ AudioExit
    \/ \E c \in Streams : Thread(c)
    \/ Terminated

Spec == Init /\ [][Next]_vars

\* A call that has started runs on, and SFML keeps asking a playing stream for
\* data.  Nothing obliges the game to play notes or the player to quit.
FairSpec ==
    /\ Spec
    /\ WF_vars(MainStep)
    /\ \A c \in Streams : WF_vars(Thread(c))

-----------------------------------------------------------------------------
TypeOK ==
    /\ lGP \in BOOLEAN
    /\ main \in {"init", "play", "loop", "stop", "join", "delete", "done"}
    /\ at \in Streams
    /\ pending \in SUBSET [stream : Streams, note : NoteParams]
    /\ noteParams \in [Streams -> NoteParams]
    /\ streaming \in [Streams -> BOOLEAN]
    /\ stream \in [Streams -> {"off", "waiting", "render", "merge"}]
    /\ minusLength \in [Streams -> NoteParams]

\* The priority test of SetNote (Audio.cpp:87,172,256) and the store after it
\* are two steps, so the parameters tested may be gone when the store happens.
\* Still, the store never replaces a note of a higher priority.
NoInversion ==
    \A call \in pending : call.note.priority >= noteParams[call.stream].priority

\* A note that stays installed until it falls silent is rendered for exactly
\* its length, or one callback less when it was stored while a buffer was being
\* made; it is never rendered longer, whatever stores and merges interleave.
DurationExact ==
    \A c \in Streams :
        LET p == noteParams[c] IN
            /\ p.heard <= p.owed
            /\ p.hight = 0 => p.heard >= p.owed - 1

\* The noise register is set back once for a note and not for every buffer of
\* it (Audio.cpp:204,224), and every note heard in full starts from there.
ResetOnce ==
    \A c \in Streams :
        LET p == noteParams[c] IN
            /\ p.resets <= 1
            /\ Kind[c] = "noise" /\ p.owed > 0 /\ p.heard = p.owed => p.resets = 1

\* Audio.cpp:315 "important to stop sounds before delete": no callback runs and
\* no SetNote is under way while the streams do not exist.
HeapSafe ==
    ~lGP => pending = {} /\ \A c \in Streams : stream[c] = "off"

\* AudioExit, once begun, ends: no join waits for a thread for ever.
ExitCompletes == main = "stop" ~> main = "done"

Quiet(c) == noteParams[c].hight = 0 /\ noteParams[c].priority = Low

\* Once the game stops calling SetNote, every stream that keeps playing falls
\* silent and gives its priority back, so that any later note is accepted.
Quiesces ==
    <>[](main = "loop" /\ pending = {}) => <>[](\A c \in Streams : Quiet(c))
=============================================================================
