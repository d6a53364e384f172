------------------------- MODULE AudioProofs -------------------------
(***************************************************************************)
(* Theorems about AudioStreams, for any number of streams of any kinds and *)
(* any set of notes, and about Waves, for every sample rate, length of     *)
(* buffers and set of frequencies.                                         *)
(***************************************************************************)
EXTENDS AudioStreams, Waves, TLAPS

(***************************************************************************)
(* The priority invariant.  What the audio thread is about to store never  *)
(* outranks what is there: it was made from an older state of the same     *)
(* parameters, and SetNote has only raised the priority since.             *)
(***************************************************************************)
Ranked == \A c \in Streams : noteParams[c].priority >= Low

StaleNeverOutranks ==
    \A c \in Streams : stream[c] = "merge" =>
        /\ minusLength[c].priority >= Low
        /\ minusLength[c].priority <= noteParams[c].priority

PriorityInv == TypeOK /\ Ranked /\ StaleNeverOutranks /\ NoInversion

(***************************************************************************)
(* The duration invariant.  Remaining(p) callbacks are still to render p.  *)
(* Between two callbacks (AtRest) what was heard and what remains make up  *)
(* what is owed, less one if p was stored during a callback (Missed).      *)
(* During a callback (InCallback) the one in progress is counted twice.    *)
(***************************************************************************)
Remaining(p) == IF p.hight = 0 THEN 0 ELSE IF p.length > 1 THEN p.length ELSE 1

Missed(p) == p.heard + Remaining(p) = p.owed - 1

AtRest(c, p) ==
    /\ p.heard + Remaining(p) = p.owed \/ Missed(p)
    /\ p.resets <= 1
    /\ p.reset = 1 => p.resets = 0 /\ (p.owed > 0 => p.hight = 1 /\ ~Missed(p))
    /\ Kind[c] = "noise" /\ p.reset = 0 /\ p.owed > 0 => p.resets = 1 \/ Missed(p)

InCallback(c, p) ==
    /\ \/ p.heard + Remaining(p) - p.hight = p.owed - 1
       \/ p.heard + Remaining(p) - p.hight = p.owed
    /\ p.resets <= 1
    /\ Kind[c] = "noise" /\ p.owed > 0 =>
          \/ p.resets = 1
          \/ p.hight = 1 /\ p.heard + Remaining(p) = p.owed
          \/ p.hight = 0 /\ p.heard = p.owed - 1

Fresh(c, p) == AtRest(c, p) /\ InCallback(c, p)

DurationInv ==
    /\ TypeOK
    /\ \A c \in Streams :
          IF stream[c] \in {"off", "waiting"} THEN AtRest(c, noteParams[c])
                                              ELSE InCallback(c, noteParams[c])
    /\ \A c \in Streams : stream[c] = "merge" => AtRest(c, minusLength[c])
    /\ \A call \in pending : Fresh(call.stream, call.note)

(***************************************************************************)
(* The lifetime invariant: which streams may have a running thread at each *)
(* point of AudioInit and AudioExit.                                       *)
(***************************************************************************)
IsOff(c) == stream[c] = "off"

LifetimeInv ==
    /\ TypeOK
    /\ lGP = (main \notin {"init", "done"})
    /\ main # "loop" => pending = {}
    /\ main = "init" => \A c \in Streams : IsOff(c)
    /\ main = "play" => \A c \in Streams : c >= at => IsOff(c)
    /\ main \in {"stop", "join"} => \A c \in Streams : c > at => IsOff(c)
    /\ main \in {"delete", "done"} => \A c \in Streams : IsOff(c)

-----------------------------------------------------------------------------
(* What the operators on the parameters return. *)

LEMMA DefaultParamsType ==
    ASSUME NEW c \in Streams
    PROVE  DefaultParams(c) \in NoteParams
  BY DEF DefaultParams, Resets, NoteParams, Low, Spent

LEMMA ParamsOfType ==
    ASSUME NEW c \in Streams, NEW in \in Notes
    PROVE  /\ ParamsOf(c, in) \in NoteParams
           /\ ParamsOf(c, in).priority = in.priority
  <1>1. in \in [freq : Int, volume : Nat, length : Int, priority : Int]
    BY NotesAssumption
  <1>2. Hight(c, in) \in 0..1 /\ Resets(c) \in 0..1
    BY DEF Hight, Resets
  <1>3. Owed(c, in) \in Nat
    BY <1>1, <1>2 DEF Owed
  <1>4. QED
    BY <1>1, <1>2, <1>3 DEF ParamsOf, DefaultParams, NoteParams, Low, Spent

LEMMA RenderedType ==
    ASSUME NEW p \in NoteParams
    PROVE  /\ Rendered(p) \in NoteParams
           /\ Rendered(p).priority = p.priority
  <1> DEFINE heard == p.heard + p.hight
             resets == p.resets + p.reset
  <1>1. heard \in Nat /\ resets \in Nat
    BY DEF NoteParams
  <1>2. Rendered(p) = [p EXCEPT !.heard = heard, !.resets = resets]
    BY DEF Rendered
  <1> HIDE DEF heard, resets
  <1>3. QED
    BY <1>1, <1>2 DEF NoteParams

LEMMA DecrementType ==
    ASSUME NEW p \in NoteParams
    PROVE  Decrement(p) \in NoteParams
  <1>1. Left(p) \in Int
    BY DEF Left, Spent, NoteParams
  <1> DEFINE hight == IF Left(p) > 0 THEN p.hight ELSE 0
             priority == IF Left(p) > 0 THEN p.priority ELSE Low
  <1>2. hight \in 0..1 /\ priority \in Int /\ 0 \in 0..1
    BY DEF NoteParams, Low
  <1>3. Decrement(p) = [p EXCEPT !.length = Left(p), !.reset = 0,
                                 !.hight = hight, !.priority = priority]
    BY DEF Decrement
  <1> HIDE DEF hight, priority
  <1>4. QED
    BY <1>1, <1>2, <1>3, Zenon DEF NoteParams

LEMMA DecrementLowers ==
    ASSUME NEW p \in NoteParams, p.priority >= Low
    PROVE  Decrement(p).priority >= Low /\ Decrement(p).priority <= p.priority
  BY DEF Decrement, NoteParams, Low

-----------------------------------------------------------------------------
(* Type correctness: every variable of AudioStreams keeps its type, whatever *)
(* notes the game plays and whenever the player quits (Audio.cpp:8-323).     *)

THEOREM TypeCorrect == Spec => []TypeOK
  <1>1. Init => TypeOK
    <2> SUFFICES ASSUME Init PROVE TypeOK
      OBVIOUS
    <2>1. at \in Streams
      BY StreamsAssumption DEF Init, Streams
    <2>2. /\ noteParams \in [Streams -> NoteParams]
          /\ minusLength \in [Streams -> NoteParams]
      BY DefaultParamsType DEF Init
    <2>3. pending \in SUBSET [stream : Streams, note : NoteParams]
      BY DEF Init
    <2>4. QED
      BY <2>1, <2>2, <2>3 DEF Init, TypeOK
  <1>2. TypeOK /\ [Next]_vars => TypeOK'
    <2> SUFFICES ASSUME TypeOK, [Next]_vars PROVE TypeOK'
      OBVIOUS
    <2> USE DEF TypeOK
    <2>1. CASE AudioInit
      BY <2>1 DEF AudioInit, threadVars
    <2>2. CASE Play
      BY <2>2, StreamsAssumption DEF Play, AllPlayed, Streams
    <2>3. CASE SetNoteStore
      <3>1. PICK call \in pending :
                noteParams' = [noteParams EXCEPT ![call.stream] = call.note]
        BY <2>3 DEF SetNoteStore
      <3>2. call.stream \in Streams /\ call.note \in NoteParams
        BY <3>1
      <3>3. QED
        BY <2>3, <3>1, <3>2 DEF SetNoteStore, mainVars, threadVars
    <2>4. CASE Stop
      BY <2>4 DEF Stop
    <2>5. CASE Join
      BY <2>5, StreamsAssumption DEF Join, Streams, threadVars
    <2>6. CASE Delete
      BY <2>6 DEF Delete, threadVars
    <2>7. CASE SetNote
      <3>1. PICK c \in Streams, in \in Notes : SetNoteCheck(c, in)
        BY <2>7 DEF SetNote
      <3>2. QED
        BY <3>1, ParamsOfType DEF SetNoteCheck, mainVars, threadVars
    <2>8. CASE AudioExit
      BY <2>8, StreamsAssumption DEF AudioExit, Streams, threadVars
    <2>9. ASSUME NEW c \in Streams, Thread(c) PROVE TypeOK'
      <3>1. CASE OnGetDataLoad(c)
        BY <3>1, RenderedType DEF OnGetDataLoad, mainVars
      <3>2. CASE OnGetDataDecrement(c)
        BY <3>2, DecrementType DEF OnGetDataDecrement, mainVars
      <3>3. CASE OnGetDataStore(c)
        BY <3>3, DefaultParamsType DEF OnGetDataStore, mainVars
      <3>4. CASE ThreadEnd(c)
        BY <3>4 DEF ThreadEnd, mainVars
      <3>5. QED
        BY <2>9, <3>1, <3>2, <3>3, <3>4 DEF Thread
    <2>10. CASE UNCHANGED vars
      BY <2>10 DEF vars
    <2>11. QED
      BY <2>1, <2>2, <2>3, <2>4, <2>5, <2>6, <2>7, <2>8, <2>9, <2>10
      DEF Next, MainStep, Terminated
  <1>3. QED
    BY <1>1, <1>2, PTL DEF Spec

-----------------------------------------------------------------------------
(* No priority inversion: between the priority test of SetNote and its store *)
(* (Audio.cpp:87-88,172-173,256-257) the audio thread may replace the        *)
(* parameters that were tested, and still the store never replaces a note of *)
(* a higher priority.                                                        *)

LEMMA PriorityStep == PriorityInv /\ TypeOK' /\ [Next]_vars => PriorityInv'
  <1> SUFFICES ASSUME PriorityInv, TypeOK', [Next]_vars
               PROVE  Ranked' /\ StaleNeverOutranks' /\ NoInversion'
    BY DEF PriorityInv
  <1> USE DEF PriorityInv, Ranked, StaleNeverOutranks, NoInversion
  <1>1. CASE AudioInit
    BY <1>1 DEF AudioInit, threadVars
  <1>2. CASE Play
    BY <1>2 DEF Play, TypeOK
  <1>3. CASE SetNoteStore
    <2>1. PICK call \in pending :
              noteParams' = [noteParams EXCEPT ![call.stream] = call.note]
      BY <1>3 DEF SetNoteStore
    <2>2. /\ call.stream \in Streams
          /\ call.note.priority >= noteParams[call.stream].priority
          /\ call.note.priority \in Int
      BY <2>1 DEF TypeOK, NoteParams
    <2>3. \A c \in Streams : /\ noteParams[c].priority \in Int
                             /\ minusLength[c].priority \in Int
                             /\ noteParams'[c].priority >= noteParams[c].priority
      BY <2>1, <2>2 DEF TypeOK, NoteParams
    <2>4. \A c \in Streams : noteParams'[c].priority \in Int
      BY DEF TypeOK, NoteParams
    <2>5. Ranked' /\ StaleNeverOutranks'
      BY <1>3, <2>3, <2>4 DEF SetNoteStore, threadVars, Low
    <2>6. NoInversion'
      BY <1>3 DEF SetNoteStore
    <2>7. QED
      BY <2>5, <2>6
  <1>4. CASE Stop
    BY <1>4 DEF Stop
  <1>5. CASE Join
    BY <1>5 DEF Join, threadVars
  <1>6. CASE Delete
    BY <1>6 DEF Delete, threadVars
  <1>7. CASE SetNote
    <2>1. PICK c \in Streams, in \in Notes : SetNoteCheck(c, in)
      BY <1>7 DEF SetNote
    <2>2. NoInversion'
      BY <2>1, ParamsOfType DEF SetNoteCheck, Accepts
    <2>3. QED
      BY <2>1, <2>2 DEF SetNoteCheck, threadVars
  <1>8. CASE AudioExit
    BY <1>8 DEF AudioExit, threadVars
  <1>9. ASSUME NEW c \in Streams, Thread(c)
        PROVE  Ranked' /\ StaleNeverOutranks' /\ NoInversion'
    <2>1. CASE OnGetDataLoad(c)
      <3>1. \A d \in Streams : noteParams'[d].priority = noteParams[d].priority
        BY <2>1, RenderedType DEF OnGetDataLoad, TypeOK
      <3>2. \A call \in pending : call.stream \in Streams
        BY DEF TypeOK
      <3>3. QED
        BY <2>1, <3>1, <3>2 DEF OnGetDataLoad, TypeOK
    <2>2. CASE OnGetDataDecrement(c)
      BY <2>2, DecrementLowers DEF OnGetDataDecrement, TypeOK
    <2>3. CASE OnGetDataStore(c)
      <3>1. \A d \in Streams :
                /\ noteParams[d].priority \in Int
                /\ noteParams'[d].priority \in Int
                /\ noteParams'[d].priority >= Low
                /\ noteParams'[d].priority <= noteParams[d].priority
        BY <2>3 DEF OnGetDataStore, TypeOK, NoteParams
      <3>2. \A call \in pending : call.stream \in Streams /\ call.note.priority \in Int
        BY DEF TypeOK, NoteParams
      <3>3. NoInversion'
        BY <2>3, <3>1, <3>2 DEF OnGetDataStore
      <3>4. StaleNeverOutranks'
        BY <2>3 DEF OnGetDataStore, TypeOK
      <3>5. QED
        BY <3>1, <3>3, <3>4
    <2>4. CASE ThreadEnd(c)
      BY <2>4 DEF ThreadEnd, TypeOK
    <2>5. QED
      BY <1>9, <2>1, <2>2, <2>3, <2>4 DEF Thread
  <1>10. CASE UNCHANGED vars
    BY <1>10 DEF vars
  <1>11. QED
    BY <1>1, <1>2, <1>3, <1>4, <1>5, <1>6, <1>7, <1>8, <1>9, <1>10
    DEF Next, MainStep, Terminated

THEOREM PrioritySafe == Spec => []NoInversion
  <1>1. Init /\ TypeOK => PriorityInv
    BY DEF Init, PriorityInv, Ranked, StaleNeverOutranks, NoInversion, DefaultParams, Low
  <1>2. PriorityInv => NoInversion
    BY DEF PriorityInv
  <1>3. QED
    BY <1>1, <1>2, TypeCorrect, PriorityStep, PTL DEF Spec

-----------------------------------------------------------------------------
(* Durations: what one load, one decrement and one store do to the balance.  *)

LEMMA DefaultAtRest ==
    ASSUME NEW c \in Streams
    PROVE  AtRest(c, DefaultParams(c))
  BY DEF DefaultParams, AtRest, Missed, Remaining, Low, Spent

LEMMA ParamsOfFresh ==
    ASSUME NEW c \in Streams, NEW in \in Notes
    PROVE  Fresh(c, ParamsOf(c, in))
  <1> DEFINE p == ParamsOf(c, in)
  <1>1. in.length \in Int
    BY NotesAssumption
  <1>2. Hight(c, in) \in 0..1 /\ Resets(c) \in 0..1 /\ (Resets(c) = 0 => Kind[c] # "noise")
    BY DEF Hight, Resets
  <1>3. /\ p.hight = Hight(c, in) /\ p.reset = Resets(c)
        /\ p.length = in.length /\ p.owed = Owed(c, in)
        /\ p.heard = 0 /\ p.resets = 0
    BY DEF ParamsOf, DefaultParams
  <1>4. Owed(c, in) \in Nat /\ Owed(c, in) = Remaining(p) /\ (p.owed > 0 => p.hight = 1)
    BY <1>1, <1>2, <1>3 DEF Owed, Remaining
  <1> HIDE DEF p
  <1>5. AtRest(c, p)
    BY <1>2, <1>3, <1>4 DEF AtRest, Missed
  <1>6. InCallback(c, p)
    BY <1>2, <1>3, <1>4 DEF InCallback
  <1>7. QED
    BY <1>5, <1>6 DEF Fresh, p

LEMMA RenderedInCallback ==
    ASSUME NEW c \in Streams, NEW p \in NoteParams, AtRest(c, p)
    PROVE  InCallback(c, Rendered(p))
  <1> DEFINE q == Rendered(p)
  <1>1. /\ q.hight = p.hight /\ q.reset = p.reset /\ q.owed = p.owed
        /\ q.length = p.length
        /\ q.heard = p.heard + p.hight /\ q.resets = p.resets + p.reset
    BY DEF Rendered, NoteParams
  <1>2. /\ p.heard \in Nat /\ p.owed \in Nat /\ p.resets \in Nat
        /\ p.length \in Int /\ p.hight \in 0..1 /\ p.reset \in 0..1
    BY DEF NoteParams
  <1>3. Remaining(q) = Remaining(p) /\ Remaining(p) \in Nat
        /\ (p.hight = 0 => Remaining(p) = 0)
    BY <1>1, <1>2 DEF Remaining
  <1> HIDE DEF q
  <1>4. QED
    BY <1>1, <1>2, <1>3 DEF AtRest, InCallback, Missed, q

LEMMA DecrementAtRest ==
    ASSUME NEW c \in Streams, NEW p \in NoteParams, InCallback(c, p)
    PROVE  AtRest(c, Decrement(p))
  <1> DEFINE q == Decrement(p)
  <1>1. /\ q.hight = (IF Left(p) > 0 THEN p.hight ELSE 0)
        /\ q.reset = 0 /\ q.owed = p.owed /\ q.length = Left(p)
        /\ q.heard = p.heard /\ q.resets = p.resets
    BY DEF Decrement, NoteParams
  <1>2. /\ p.heard \in Nat /\ p.owed \in Nat /\ p.resets \in Nat
        /\ p.length \in Int /\ p.hight \in 0..1
    BY DEF NoteParams
  <1>3. Remaining(q) = Remaining(p) - p.hight /\ Remaining(p) \in Nat
        /\ (p.hight = 0 => Remaining(p) = 0)
    BY <1>1, <1>2 DEF Remaining, Left, Spent
  <1> HIDE DEF q
  <1>4. QED
    BY <1>1, <1>2, <1>3 DEF AtRest, InCallback, Missed, q

\* Both halves of the invariant say what the two properties need.
LEMMA BalanceBounds ==
    ASSUME NEW c \in Streams, NEW p \in NoteParams, AtRest(c, p) \/ InCallback(c, p)
    PROVE  /\ p.heard <= p.owed
           /\ p.hight = 0 => p.heard >= p.owed - 1
           /\ p.resets <= 1
           /\ Kind[c] = "noise" /\ p.owed > 0 /\ p.heard = p.owed => p.resets = 1
  <1>1. /\ p.heard \in Nat /\ p.owed \in Nat /\ p.resets \in Nat
        /\ p.length \in Int /\ p.hight \in 0..1 /\ p.reset \in 0..1
    BY DEF NoteParams
  <1>2. /\ Remaining(p) \in Nat /\ Remaining(p) >= p.hight
        /\ (p.hight = 0 => Remaining(p) = 0)
    BY <1>1 DEF Remaining
  <1>3. QED
    BY <1>1, <1>2 DEF AtRest, InCallback, Missed

-----------------------------------------------------------------------------
(* Lifetime: the stream threads run only while the streams exist, because    *)
(* AudioExit joins every one of them before it deletes the object            *)
(* (Audio.cpp:313-323), and AudioInit starts them after it is made (:273).   *)

LEMMA LifetimeStep == LifetimeInv /\ TypeOK' /\ [Next]_vars => LifetimeInv'
  <1> SUFFICES ASSUME LifetimeInv, TypeOK', [Next]_vars PROVE LifetimeInv'
    OBVIOUS
  <1> USE DEF LifetimeInv, IsOff
  <1>1. CASE AudioInit
    BY <1>1 DEF AudioInit, threadVars
  <1>2. CASE Play
    BY <1>2 DEF Play, AllPlayed, TypeOK, Streams
  <1>3. CASE SetNoteStore
    BY <1>3 DEF SetNoteStore, mainVars, threadVars
  <1>4. CASE Stop
    BY <1>4 DEF Stop
  <1>5. CASE Join
    BY <1>5 DEF Join, Joined, threadVars, TypeOK, Streams
  <1>6. CASE Delete
    BY <1>6 DEF Delete, threadVars
  <1>7. CASE SetNote
    BY <1>7 DEF SetNote, SetNoteCheck, mainVars, threadVars
  <1>8. CASE AudioExit
    BY <1>8 DEF AudioExit, threadVars, TypeOK, Streams
  <1>9. ASSUME NEW c \in Streams, Thread(c) PROVE LifetimeInv'
    <2>1. ~IsOff(c) /\ UNCHANGED <<mainVars, pending>>
      BY <1>9 DEF Thread, OnGetDataLoad, OnGetDataDecrement, OnGetDataStore, ThreadEnd
    <2>2. \A d \in Streams : d # c => stream'[d] = stream[d]
      BY <1>9 DEF Thread, OnGetDataLoad, OnGetDataDecrement, OnGetDataStore, ThreadEnd,
                  TypeOK
    <2>3. QED
      BY <2>1, <2>2 DEF mainVars
  <1>10. CASE UNCHANGED vars
    BY <1>10 DEF vars
  <1>11. QED
    BY <1>1, <1>2, <1>3, <1>4, <1>5, <1>6, <1>7, <1>8, <1>9, <1>10
    DEF Next, MainStep, Terminated

LEMMA LifetimeCorrect == Spec => []LifetimeInv
  <1>1. Init /\ TypeOK => LifetimeInv
    BY DEF Init, LifetimeInv, IsOff
  <1>2. QED
    BY <1>1, TypeCorrect, LifetimeStep, PTL DEF Spec

THEOREM HeapIsSafe == Spec => []HeapSafe
  <1>1. LifetimeInv => HeapSafe
    BY DEF LifetimeInv, IsOff, HeapSafe, TypeOK
  <1>2. QED
    BY <1>1, LifetimeCorrect, PTL

-----------------------------------------------------------------------------
(* Durations, for whole steps.                                               *)

LEMMA DurationStep ==
    DurationInv /\ LifetimeInv /\ TypeOK' /\ [Next]_vars => DurationInv'
  <1> SUFFICES ASSUME DurationInv, LifetimeInv, TypeOK', [Next]_vars
               PROVE  DurationInv'
    OBVIOUS
  <1>0. TypeOK
    BY DEF DurationInv
  <1>1. CASE AudioInit
    BY <1>1 DEF AudioInit, threadVars, DurationInv
  <1>2. CASE Play
    <2>1. at \in Streams /\ stream[at] = "off"
      BY <1>0, <1>2 DEF Play, LifetimeInv, IsOff, TypeOK, Streams
    <2>2. AtRest(at, noteParams[at])
      BY <2>1 DEF DurationInv
    <2>3. \A c \in Streams : IF c = at THEN stream'[c] = "waiting"
                                       ELSE stream'[c] = stream[c]
      BY <1>0, <1>2 DEF Play, TypeOK
    <2>4. QED
      BY <1>2, <2>2, <2>3 DEF Play, DurationInv
  <1>3. CASE SetNoteStore
    <2>1. PICK call \in pending :
              noteParams' = [noteParams EXCEPT ![call.stream] = call.note]
      BY <1>3 DEF SetNoteStore
    <2>2. call.stream \in Streams /\ Fresh(call.stream, call.note)
      BY <1>0, <2>1 DEF DurationInv, TypeOK
    <2>3. \A c \in Streams :
              IF stream[c] \in {"off", "waiting"} THEN AtRest(c, noteParams'[c])
                                                  ELSE InCallback(c, noteParams'[c])
      BY <1>0, <2>1, <2>2 DEF DurationInv, TypeOK, Fresh
    <2>4. QED
      BY <1>3, <2>3 DEF SetNoteStore, threadVars, DurationInv
  <1>4. CASE Stop
    BY <1>4 DEF Stop, DurationInv
  <1>5. CASE Join
    BY <1>5 DEF Join, threadVars, DurationInv
  <1>6. CASE Delete
    BY <1>6 DEF Delete, threadVars, DurationInv
  <1>7. CASE SetNote
    <2>1. PICK c \in Streams, in \in Notes : SetNoteCheck(c, in)
      BY <1>7 DEF SetNote
    <2>2. \A call \in pending' : Fresh(call.stream, call.note)
      BY <2>1, ParamsOfFresh DEF SetNoteCheck
    <2>3. QED
      BY <2>1, <2>2 DEF SetNoteCheck, threadVars, DurationInv
  <1>8. CASE AudioExit
    BY <1>8 DEF AudioExit, threadVars, DurationInv
  <1>9. ASSUME NEW c \in Streams, Thread(c) PROVE DurationInv'
    <2>1. CASE OnGetDataLoad(c)
      <3>1. InCallback(c, Rendered(noteParams[c]))
        BY <1>0, <2>1, RenderedInCallback DEF OnGetDataLoad, DurationInv, TypeOK
      <3>2. QED
        BY <1>0, <2>1, <3>1 DEF OnGetDataLoad, DurationInv, TypeOK
    <2>2. CASE OnGetDataDecrement(c)
      <3>1. AtRest(c, Decrement(noteParams[c]))
        BY <1>0, <2>2, DecrementAtRest DEF OnGetDataDecrement, DurationInv, TypeOK
      <3>2. QED
        BY <1>0, <2>2, <3>1 DEF OnGetDataDecrement, DurationInv, TypeOK
    <2>3. CASE OnGetDataStore(c)
      <3>1. AtRest(c, minusLength[c])
        BY <2>3 DEF OnGetDataStore, DurationInv
      <3>2. QED
        BY <1>0, <2>3, <3>1 DEF OnGetDataStore, DurationInv, TypeOK
    <2>4. CASE ThreadEnd(c)
      BY <1>0, <2>4 DEF ThreadEnd, DurationInv, TypeOK
    <2>5. QED
      BY <1>9, <2>1, <2>2, <2>3, <2>4 DEF Thread
  <1>10. CASE UNCHANGED vars
    BY <1>10 DEF vars, DurationInv
  <1>11. QED
    BY <1>1, <1>2, <1>3, <1>4, <1>5, <1>6, <1>7, <1>8, <1>9, <1>10
    DEF Next, MainStep, Terminated

LEMMA DurationCorrect == Spec => []DurationInv
  <1>1. Init /\ TypeOK => DurationInv
    BY DefaultAtRest DEF Init, DurationInv
  <1>2. QED
    BY <1>1, TypeCorrect, LifetimeCorrect, DurationStep, PTL DEF Spec

\* A note that is not overwritten sounds for its length, or for one callback
\* less if it came during one, and never longer (Audio.cpp:50-57).
THEOREM DurationIsExact == Spec => []DurationExact
  <1>1. DurationInv => DurationExact
    BY BalanceBounds DEF DurationInv, DurationExact, TypeOK
  <1>2. QED
    BY <1>1, DurationCorrect, PTL

\* The noise register is set back at most once for a note, and is for every
\* note heard in full (Audio.cpp:204,224).
THEOREM ResetsOnce == Spec => []ResetOnce
  <1>1. DurationInv => ResetOnce
    BY BalanceBounds DEF DurationInv, ResetOnce, TypeOK
  <1>2. QED
    BY <1>1, DurationCorrect, PTL

-----------------------------------------------------------------------------
(* The samples of a stream: the square *)

Kinds == {"square", "triangle", "noise"}

Periods == [width : Nat, midWidth : Duties, made : Nat, high : Nat]

\* The parameters a callback renders from.
NoteInv ==
    /\ kind \in Kinds
    /\ note.width \in Nat
    /\ note.midWidth \in Duties

HighOf(p) == p.width \div p.midWidth

\* A period of the square: time and thisHighWidth count down from the width and
\* the high part of the note it was started with, whatever note is loaded now.
SquareInv ==
    kind = "square" =>
        /\ period \in Periods
        /\ time \in Int /\ thisHighWidth \in Int
        /\ period.made = 0 => time = 0
        /\ period.made > 0 =>
              /\ time = period.width - period.made
              /\ thisHighWidth = HighOf(period) - period.made
              /\ period.made = 1 \/ period.made <= period.width
              /\ period.high = IF period.made < HighOf(period) THEN period.made
                                                               ELSE HighOf(period)

-----------------------------------------------------------------------------
LEMMA HighFits ==
    ASSUME NEW w \in Nat, NEW d \in Duties
    PROVE  w \div d \in 0 .. w
<1>1. CASE d = 2
  BY <1>1
<1>2. CASE d = 4
  BY <1>2
<1>3. CASE d = 8
  BY <1>3
<1> QED
  BY <1>1, <1>2, <1>3 DEF Duties

LEMMA WidthIsNat ==
    ASSUME NEW k, NEW f \in Freqs
    PROVE  Width(k, f) \in Nat
<1>1. CASE f > 0
  <2>1. f \in Nat \ {0} /\ SampleRate \in Nat
    BY <1>1, WavesAssumption
  <2>2. SampleRate \div f \in Nat
    BY <2>1
  <2> QED
    BY <1>1, <2>2 DEF Width
<1>2. CASE ~(f > 0)
  BY <1>2, WavesAssumption DEF Width
<1> QED
  BY <1>1, <1>2

LEMMA NotesAreTyped ==
    ASSUME NEW k, NEW n \in NotesOf(k)
    PROVE  n.width \in Nat /\ n.midWidth \in Duties
<1>1. n.width \in {Width(k, f) : f \in Freqs} \cup {DefaultWidth}
  BY DEF NotesOf
<1>2. n.midWidth \in (IF k = "square" THEN Duties ELSE {2})
  BY DEF NotesOf
<1> QED
  BY <1>1, <1>2, WidthIsNat, WavesAssumption DEF Duties

-----------------------------------------------------------------------------
LEMMA SquareStart == WaveInit => NoteInv /\ SquareInv
<1> SUFFICES ASSUME WaveInit
             PROVE  NoteInv /\ SquareInv
  OBVIOUS
<1>1. NoteInv
  BY NotesAreTyped DEF WaveInit, NoteInv, Kinds
<1>2. period \in Periods /\ period.made = 0
  BY DEF WaveInit, Nothing, Periods, Duties
<1> QED
  BY <1>1, <1>2 DEF WaveInit, SquareInv

LEMMA NextNote == NoteInv /\ [WaveNext]_waveVars => NoteInv'
<1> SUFFICES ASSUME NoteInv, [WaveNext]_waveVars
             PROVE  NoteInv'
  OBVIOUS
<1>1. CASE OnGetData
  <2>1. note' \in NotesOf(kind) /\ kind' = kind
    BY <1>1 DEF OnGetData
  <2> QED
    BY <2>1, NotesAreTyped DEF NoteInv
<1>2. CASE Sample
  BY <1>2 DEF Sample, NoteInv
<1>3. CASE UNCHANGED waveVars
  BY <1>3 DEF waveVars, NoteInv
<1> QED
  BY <1>1, <1>2, <1>3 DEF WaveNext

\* A sample of the square starts a period or goes on with it.
LEMMA SampleSquare ==
    ASSUME NoteInv, SquareInv, SquareSample, kind = "square", kind' = kind
    PROVE  SquareInv'
<1> DEFINE w == note.width
           h == note.width \div note.midWidth
<1>1. w \in Nat /\ h \in Nat /\ note.midWidth \in Duties
  BY HighFits DEF NoteInv
<1>2. CASE SquareOver
  <2>1. period' = [width |-> w, midWidth |-> note.midWidth, made |-> 1,
                   high |-> IF h > 0 THEN 1 ELSE 0]
    <3>1. Counted(TRUE, IF h > 0 THEN 1 ELSE 0)
             = [width |-> w, midWidth |-> note.midWidth, made |-> 1,
                high |-> IF h > 0 THEN 1 ELSE 0]
      BY DEF Counted
    <3>2. SquareOver = TRUE
      BY <1>2 DEF SquareOver
    <3>3. period' = Counted(SquareOver, IF h > 0 THEN 1 ELSE 0)
      BY <1>2 DEF SquareSample
    <3> QED
      BY <3>1, <3>2, <3>3
  <2>2. time' = w - 1 /\ thisHighWidth' = h - 1
    BY <1>2 DEF SquareSample
  <2>3. period'.width = w /\ period'.made = 1 /\ HighOf(period)' = h
        /\ period'.high = IF h > 0 THEN 1 ELSE 0
    BY <2>1 DEF HighOf
  <2>4. period' \in Periods
    BY <1>1, <2>1 DEF Periods
  <2>5. period'.high = IF period'.made < h THEN period'.made ELSE h
    BY <1>1, <2>3
  <2> HIDE DEF w, h
  <2> QED
    BY <1>1, <2>2, <2>3, <2>4, <2>5 DEF SquareInv
<1>3. CASE ~SquareOver
  <2> DEFINE p == period
  <2>1. p \in Periods /\ time \in Int /\ thisHighWidth \in Int /\ ~(time <= 0)
    BY <1>3 DEF SquareInv, SquareOver
  <2>2. p.width \in Nat /\ p.midWidth \in Duties /\ p.made \in Nat /\ p.high \in Nat
    BY <2>1 DEF Periods
  <2>3. p.made > 0 /\ time = p.width - p.made /\ thisHighWidth = HighOf(p) - p.made
        /\ p.high = IF p.made < HighOf(p) THEN p.made ELSE HighOf(p)
    BY <2>1, <2>2 DEF SquareInv
  <2>4. HighOf(p) \in Nat
    BY <2>2, HighFits DEF HighOf
  <2>5. period' = [p EXCEPT !.made = p.made + 1,
                            !.high = p.high + (IF thisHighWidth > 0 THEN 1 ELSE 0)]
    <3>1. SquareOver = FALSE
      BY <1>3 DEF SquareOver
    <3>2. period' = Counted(SquareOver, IF thisHighWidth > 0 THEN 1 ELSE 0)
      BY <1>3 DEF SquareSample
    <3>3. period' = Counted(FALSE, IF thisHighWidth > 0 THEN 1 ELSE 0)
      BY <3>1, <3>2
    <3> QED
      BY <2>1, <3>3 DEF Counted, Periods
  <2>6. time' = time - 1 /\ thisHighWidth' = thisHighWidth - 1
    BY <1>3 DEF SquareSample
  <2>7. period' \in Periods
    <3>1. p.made + 1 \in Nat /\ p.high + (IF thisHighWidth > 0 THEN 1 ELSE 0) \in Nat
      BY <2>2
    <3>2. p \in Periods
      BY <2>1
    <3> HIDE DEF p
    <3> QED
      BY <2>5, <3>1, <3>2 DEF Periods
  <2>8. period'.width = p.width /\ period'.midWidth = p.midWidth /\ period'.made = p.made + 1
        /\ period'.high = p.high + (IF thisHighWidth > 0 THEN 1 ELSE 0)
    BY <2>1, <2>5 DEF Periods
  <2>9. HighOf(period)' = HighOf(p)
    BY <2>8 DEF HighOf
  <2> HIDE DEF p
  <2>10. period'.made <= period'.width
    BY <2>1, <2>2, <2>3, <2>8
  <2>11. period'.high = IF period'.made < HighOf(p) THEN period'.made ELSE HighOf(p)
    BY <2>1, <2>2, <2>3, <2>4, <2>8
  <2> QED
    BY <2>1, <2>2, <2>3, <2>4, <2>6, <2>7, <2>8, <2>9, <2>10, <2>11 DEF SquareInv
<1> QED
  BY <1>2, <1>3

LEMMA NextSquare == NoteInv /\ SquareInv /\ [WaveNext]_waveVars => SquareInv'
<1> SUFFICES ASSUME NoteInv, SquareInv, [WaveNext]_waveVars, kind = "square", kind' = kind
             PROVE  SquareInv'
  BY DEF WaveNext, OnGetData, Sample, waveVars, SquareInv
<1>1. CASE OnGetData
  BY <1>1 DEF OnGetData, SquareInv, HighOf
<1>2. CASE Sample
  <2>1. SquareSample
    BY <1>2 DEF Sample
  <2> QED
    BY <2>1, SampleSquare
<1>3. CASE UNCHANGED waveVars
  BY <1>3 DEF waveVars, SquareInv, HighOf
<1> QED
  BY <1>1, <1>2, <1>3 DEF WaveNext

LEMMA SquareImplies == SquareInv => PeriodExact
<1> SUFFICES ASSUME SquareInv, kind = "square", time <= 0, period.made > 0
             PROVE  /\ period.made = IF period.width = 0 THEN 1 ELSE period.width
                    /\ period.high = period.width \div period.midWidth
  BY DEF PeriodExact
<1>1. period \in Periods /\ time \in Int
  BY DEF SquareInv
<1>2. period.width \in Nat /\ period.midWidth \in Duties /\ period.made \in Nat
  BY <1>1 DEF Periods
<1>3. HighOf(period) \in 0 .. period.width
  BY <1>2, HighFits DEF HighOf
<1>4. /\ time = period.width - period.made
      /\ period.made = 1 \/ period.made <= period.width
      /\ period.high = IF period.made < HighOf(period) THEN period.made ELSE HighOf(period)
  BY DEF SquareInv
<1>5. period.made = IF period.width = 0 THEN 1 ELSE period.width
  BY <1>1, <1>2, <1>4
<1>6. period.high = HighOf(period)
  BY <1>2, <1>3, <1>4, <1>5
<1> QED
  BY <1>5, <1>6 DEF HighOf

\* A period of a square has the length and the duty of the note it was started
\* with, for every rate, length of buffers and sequence of notes: onGetData's
\* counters are members that survive both.
THEOREM PeriodsAreExact == WaveSpec => []PeriodExact
<1>1. WaveInit => NoteInv /\ SquareInv
  BY SquareStart
<1>2. NoteInv /\ SquareInv /\ [WaveNext]_waveVars => (NoteInv /\ SquareInv)'
  BY NextNote, NextSquare
<1>3. SquareInv => PeriodExact
  BY SquareImplies
<1> QED
  BY <1>1, <1>2, <1>3, PTL DEF WaveSpec

-----------------------------------------------------------------------------
(* The noise: how long a bit of the register lasts *)

\* The samples a bit lasts; a width of 0 is decremented through the whole range
\* of the unsigned counter.
Lasting(p) == IF p.width = 0 THEN Wrap ELSE p.width

NoiseInv ==
    /\ kind \in Kinds
    /\ kind = "noise" =>
        /\ note.width \in 0 .. (Wrap - 1)
        /\ period.width \in 0 .. (Wrap - 1)
        /\ period.made \in Nat
        /\ entsLeft \in 0 .. (Wrap - 1)
        /\ period.made = 0 => entsLeft = 0
        /\ period.made > 0 => entsLeft = Lasting(period) - period.made

LEMMA WrapsDown ==
    ASSUME NEW n \in 0 .. (Wrap - 1)
    PROVE  (n - 1) % Wrap = IF n = 0 THEN Wrap - 1 ELSE n - 1
<1>1. Wrap \in Nat \ {0}
  BY WavesAssumption
<1>2. CASE n = 0
  BY <1>1, <1>2
<1>3. CASE n # 0
  BY <1>1, <1>3
<1> QED
  BY <1>2, <1>3

LEMMA QuotientFits ==
    ASSUME NEW a \in Nat, NEW b \in Nat \ {0}
    PROVE  a \div b \in 0 .. a
  OBVIOUS

LEMMA WidthWraps ==
    ASSUME NEW k, NEW n \in NotesOf(k)
    PROVE  n.width \in 0 .. (Wrap - 1)
<1>1. n.width \in {Width(k, f) : f \in Freqs} \cup {DefaultWidth}
  BY DEF NotesOf
<1>2. ASSUME NEW f \in Freqs
      PROVE  Width(k, f) \in 0 .. (Wrap - 1)
  <2>1. CASE f > 0
    <3>1. SampleRate \div f \in 0 .. SampleRate
      BY <2>1, QuotientFits, WavesAssumption
    <3> QED
      BY <2>1, <3>1, WavesAssumption DEF Width
  <2>2. CASE ~(f > 0)
    BY <2>2, WavesAssumption DEF Width
  <2> QED
    BY <2>1, <2>2
<1> QED
  BY <1>1, <1>2, WavesAssumption

LEMMA SampleNoise ==
    ASSUME NoiseInv, NoiseSample, kind = "noise", kind' = kind, note' = note
    PROVE  NoiseInv'
<1> DEFINE turn == entsLeft = 0
           ents == IF turn THEN note.width ELSE entsLeft
<1>1. /\ Wrap \in Nat \ {0}
      /\ note.width \in 0 .. (Wrap - 1) /\ entsLeft \in 0 .. (Wrap - 1)
      /\ period.width \in 0 .. (Wrap - 1) /\ period.made \in Nat
  BY WavesAssumption DEF NoiseInv
<1>2. entsLeft' = IF ents = 0 THEN Wrap - 1 ELSE ents - 1
  <2>1. entsLeft' = (ents - 1) % Wrap
    BY DEF NoiseSample
  <2>2. ents \in 0 .. (Wrap - 1)
    BY <1>1
  <2> HIDE DEF ents
  <2> QED
    BY <2>1, <2>2, WrapsDown
<1>3. CASE turn
  <2>1. period'.width = note.width /\ period'.made = 1
    <3>1. period' = Counted(TRUE, noisePos')
      BY <1>3 DEF NoiseSample
    <3> QED
      BY <3>1 DEF Counted
  <2>2. entsLeft' = Lasting(period') - 1 /\ entsLeft' \in 0 .. (Wrap - 1)
    BY <1>1, <1>2, <1>3, <2>1 DEF Lasting
  <2> QED
    BY <1>1, <2>1, <2>2 DEF NoiseInv, Lasting
<1>4. CASE ~turn
  <2>1. period'.width = period.width /\ period'.made = period.made + 1
    <3>1. period' = Counted(FALSE, noisePos')
      BY <1>4 DEF NoiseSample
    <3> QED
      BY <1>1, <3>1 DEF Counted
  <2>2. period.made > 0 /\ entsLeft = Lasting(period) - period.made
    BY <1>1, <1>4 DEF NoiseInv
  <2>3. entsLeft' = entsLeft - 1 /\ entsLeft' \in 0 .. (Wrap - 1)
    BY <1>1, <1>2, <1>4
  <2>4. Lasting(period') = Lasting(period) /\ Lasting(period) \in Nat
    BY <1>1, <2>1 DEF Lasting
  <2> QED
    BY <1>1, <2>1, <2>2, <2>3, <2>4 DEF NoiseInv, Lasting
<1> QED
  BY <1>3, <1>4

LEMMA NextNoise == NoiseInv /\ [WaveNext]_waveVars => NoiseInv'
<1> SUFFICES ASSUME NoiseInv, [WaveNext]_waveVars
             PROVE  NoiseInv'
  OBVIOUS
<1>1. CASE OnGetData
  <2>1. note' \in NotesOf(kind) /\ kind' = kind /\ entsLeft' = entsLeft /\ period' = period
    BY <1>1 DEF OnGetData
  <2> QED
    BY <2>1, WidthWraps DEF NoiseInv, Lasting
<1>2. CASE Sample
  <2>1. kind' = kind /\ note' = note
    BY <1>2 DEF Sample
  <2>2. CASE kind = "noise"
    <3>1. NoiseSample
      BY <1>2, <2>2 DEF Sample
    <3> QED
      BY <2>1, <2>2, <3>1, SampleNoise
  <2> QED
    BY <2>1, <2>2 DEF NoiseInv
<1>3. CASE UNCHANGED waveVars
  BY <1>3 DEF waveVars, NoiseInv, Lasting
<1> QED
  BY <1>1, <1>2, <1>3 DEF WaveNext

\* The register is never empty.
RegisterInv ==
    /\ kind \in Kinds
    /\ kind = "noise" => registe \in 1 .. (2 * TopBit - 1)

LEMMA SampleRegister ==
    ASSUME registe \in 1 .. (2 * TopBit - 1), NoiseSample
    PROVE  registe' \in 1 .. (2 * TopBit - 1)
<1> DEFINE half == registe \div 2
<1>1. TopBit \in Nat /\ ShortBit \in 2 .. TopBit
  BY WavesAssumption
<1>2. half \in 0 .. (TopBit - 1) /\ (half = 0 => registe = 1)
  BY <1>1
<1>3. Feedback \in {0, 1}
  BY DEF Feedback
<1>4. registe = 1 => Feedback = 1
  <2> SUFFICES ASSUME registe = 1
               PROVE  Feedback = 1
    OBVIOUS
  <2>1. Bit(1) = 1 /\ Bit(2) = 0
    BY DEF Bit
  <2>2. Bit(ShortBit) = 0
    <3>1. 1 \div ShortBit = 0
      BY <1>1
    <3> QED
      BY <3>1 DEF Bit
  <2> QED
    BY <2>1, <2>2 DEF Feedback
<1>5. registe' = IF entsLeft = 0 THEN half + Feedback * TopBit ELSE registe
  BY DEF NoiseSample
<1> HIDE DEF half
<1>6. half + Feedback * TopBit \in 1 .. (2 * TopBit - 1)
  <2>1. CASE Feedback = 0
    BY <1>1, <1>2, <1>4, <2>1
  <2>2. CASE Feedback = 1
    BY <1>1, <1>2, <2>2
  <2> QED
    BY <1>3, <2>1, <2>2
<1> QED
  BY <1>5, <1>6

LEMMA NextRegister == RegisterInv /\ [WaveNext]_waveVars => RegisterInv'
<1> SUFFICES ASSUME RegisterInv, [WaveNext]_waveVars
             PROVE  RegisterInv'
  OBVIOUS
<1>1. CASE OnGetData
  <2>1. 1 \in 1 .. (2 * TopBit - 1)
    BY WavesAssumption
  <2> QED
    BY <1>1, <2>1 DEF OnGetData, RegisterInv
<1>2. CASE Sample
  <2>1. kind' = kind
    BY <1>2 DEF Sample
  <2>2. CASE kind = "noise"
    <3>1. NoiseSample
      BY <1>2, <2>2 DEF Sample
    <3>2. registe \in 1 .. (2 * TopBit - 1)
      BY <2>2 DEF RegisterInv
    <3>3. registe' \in 1 .. (2 * TopBit - 1)
      BY <3>1, <3>2, SampleRegister
    <3> QED
      BY <2>1, <3>3 DEF RegisterInv
  <2> QED
    BY <2>1, <2>2 DEF RegisterInv
<1>3. CASE UNCHANGED waveVars
  BY <1>3 DEF waveVars, RegisterInv
<1> QED
  BY <1>1, <1>2, <1>3 DEF WaveNext

\* The noise never falls silent of itself, since its register is never empty,
\* and a bit of it lasts as long as the note says that was played when it came,
\* or the whole range of the counter if that note was above the sample rate.
THEOREM NoiseKeepsTurning == WaveSpec => []NoiseTurns
<1>1. WaveInit => NoiseInv /\ RegisterInv
  <2> SUFFICES ASSUME WaveInit
               PROVE  NoiseInv /\ RegisterInv
    OBVIOUS
  <2>1. kind = "noise" => note.width \in 0 .. (Wrap - 1)
    BY WidthWraps DEF WaveInit
  <2>2. NoiseInv
    BY <2>1, WavesAssumption DEF WaveInit, Nothing, NoiseInv, Kinds
  <2>3. RegisterInv
    BY WavesAssumption DEF WaveInit, RegisterInv, Kinds
  <2> QED
    BY <2>2, <2>3
<1>2. NoiseInv /\ [WaveNext]_waveVars => NoiseInv'
  BY NextNoise
<1>3. RegisterInv /\ [WaveNext]_waveVars => RegisterInv'
  BY NextRegister
<1>4. NoiseInv /\ RegisterInv => NoiseTurns
  <2> SUFFICES ASSUME NoiseInv, RegisterInv, kind = "noise"
               PROVE  /\ registe \in 1 .. (2 * TopBit - 1)
                      /\ entsLeft = 0 /\ period.made > 0 =>
                            period.made = IF period.width = 0 THEN Wrap ELSE period.width
    BY DEF NoiseTurns
  <2> QED
    BY WavesAssumption DEF NoiseInv, RegisterInv, Lasting
<1> QED
  BY <1>1, <1>2, <1>3, <1>4, PTL DEF WaveSpec

-----------------------------------------------------------------------------
(* Arithmetic of the ramps *)

LEMMA FloorBounds ==
    ASSUME NEW a \in Int, NEW b \in Nat \ {0}
    PROVE  /\ a \div b \in Int
           /\ b * (a \div b) <= a
           /\ a < b * (a \div b) + b
  OBVIOUS

\* How the three ramps of a width divide it.
LEMMA WidthParts ==
    ASSUME NEW w \in Nat, w >= 8, NEW q, q = w \div 4, NEW h, h = w \div 2, NEW tq, tq = (w * 3) \div 4
    PROVE  /\ q \in Nat /\ h \in Nat /\ tq \in Nat
           /\ q >= 2 /\ q < tq /\ tq < w
           /\ h = 2 * q \/ h = 2 * q + 1
           /\ 3 * h - 2 * tq + 2 \in 1 .. 3
           /\ w - 1 - tq \in {q - 1, q}
  OBVIOUS

\* A factor can be cancelled from an inequality.
LEMMA Cancel ==
    ASSUME NEW b \in Nat \ {0}, NEW x \in Int, NEW y \in Int, b * x < b * y
    PROVE  x < y
  OBVIOUS

LEMMA Grows ==
    ASSUME NEW q \in Nat, NEW h \in Nat, 2 * q <= h, NEW n \in Nat
    PROVE  2 * (q * n) <= h * n
  OBVIOUS


\* What RampSmooth asks of two samples after each other.
Gentle(x, y, q) ==
    /\ 2 * (y - x - 1) * q <= 3 * Peak
    /\ 2 * (x - y - 1) * q <= 3 * Peak

LEMMA NoRise ==
    ASSUME NEW k \in Int, NEW q \in Nat, k <= 0
    PROVE  2 * k * q <= 0
  OBVIOUS

\* One step of the first or the last ramp, before it is rounded down to x and y.
LEMMA UpwardStep ==
    ASSUME NEW q \in Nat \ {0}, NEW n \in Int, NEW x \in Int, NEW y \in Int,
           q * x <= n, n < q * x + q,
           q * y <= n + Peak, n + Peak < q * y + q
    PROVE  Gentle(x, y, q)
<1>1. 2 * (y - x - 1) * q = 2 * (q * y) - 2 * (q * x) - 2 * q
  OBVIOUS
<1>2. 2 * (x - y - 1) * q = 2 * (q * x) - 2 * (q * y) - 2 * q
  OBVIOUS
<1>3. q * x \in Int /\ q * y \in Int /\ Peak \in Nat
  BY WavesAssumption
<1> DEFINE qx == q * x
           qy == q * y
           l  == 2 * (y - x - 1) * q
           r  == 2 * (x - y - 1) * q
<1>4. /\ qx \in Int /\ qy \in Int
      /\ qx <= n /\ n < qx + q /\ qy <= n + Peak /\ n + Peak < qy + q
      /\ l = 2 * qy - 2 * qx - 2 * q /\ r = 2 * qx - 2 * qy - 2 * q
  BY <1>1, <1>2, <1>3
<1> HIDE DEF qx, qy, l, r
<1>5. l <= 3 * Peak /\ r <= 3 * Peak
  BY <1>3, <1>4
<1> QED
  BY <1>5 DEF l, r, Gentle

\* One step of the second ramp, which falls by two peaks over a half.
LEMMA DownwardStep ==
    ASSUME NEW q \in Nat, NEW h \in Nat \ {0}, 2 * q <= h,
           NEW n \in Int, NEW x \in Int, NEW y \in Int,
           h * x <= n, n < h * x + h,
           h * y <= n - 2 * Peak, n - 2 * Peak < h * y + h
    PROVE  Gentle(x, y, q)
<1> DEFINE d == x - y
<1>1. h * d = h * x - h * y /\ h * x \in Int /\ h * y \in Int /\ Peak \in Nat /\ d \in Int
  BY WavesAssumption
<1>2. h * d < 2 * Peak + h /\ h * d > 2 * Peak - h
  <2> DEFINE hx == h * x
             hy == h * y
             hd == h * d
  <2>1. /\ hx \in Int /\ hy \in Int /\ hd = hx - hy
        /\ hx <= n /\ n < hx + h /\ hy <= n - 2 * Peak /\ n - 2 * Peak < hy + h
    BY <1>1
  <2> HIDE DEF hx, hy, hd
  <2>2. hd < 2 * Peak + h /\ hd > 2 * Peak - h
    BY <1>1, <2>1
  <2> QED
    BY <2>2 DEF hd
<1>3. d >= 0
  <2>1. h * (-1) < h * d
    BY <1>1, <1>2
  <2>2. -1 < d
    <3> HIDE DEF d
    <3> QED
      BY <1>1, <2>1, Cancel
  <2> QED
    BY <1>1, <2>2
<1>4. 2 * (-d - 1) * q <= 0
  BY <1>1, <1>3, NoRise
<1>5. 2 * (d - 1) * q <= 2 * Peak
  <2>1. CASE d = 0
    <3>1. 2 * (d - 1) * q <= 0
      BY <1>1, <2>1, NoRise
    <3> QED
      BY <1>1, <3>1
  <2>2. CASE d # 0
    <3> DEFINE k == d - 1
    <3>1. k \in Nat
      BY <1>1, <1>3, <2>2
    <3>2. h * k < 2 * Peak
      <4>1. h * k = h * d - h
        BY <1>1
      <4> QED
        BY <1>1, <1>2, <4>1
    <3> HIDE DEF k
    <3>3. 2 * (q * k) <= h * k
      BY <3>1, Grows
    <3>4. 2 * k * q = 2 * (q * k) /\ h * k \in Int /\ q * k \in Int
      BY <3>1
    <3>5. 2 * k * q <= 2 * Peak
      BY <1>1, <3>2, <3>3, <3>4
    <3> QED
      BY <3>5 DEF k
  <2> QED
    BY <2>1, <2>2
<1>6. -d - 1 = y - x - 1 /\ d - 1 = x - y - 1
  OBVIOUS
<1> QED
  BY <1>1, <1>4, <1>5, <1>6 DEF Gentle

\* The first sample of the second ramp, which may lie above the peak by one
\* part of a half.
LEMMA FirstJoint ==
    ASSUME NEW q \in Nat, q >= 2, NEW h \in {2 * q, 2 * q + 1}, NEW x \in Int, NEW y \in Int,
           q * x <= Peak * (q - 1), Peak * (q - 1) < q * x + q,
           h * y <= -(Peak * (2 * q - h)), -(Peak * (2 * q - h)) < h * y + h
    PROVE  Gentle(x, Peak + y, q)
<1>1. Peak \in Nat /\ Peak * (q - 1) = Peak * q - Peak /\ h \in Nat
  BY WavesAssumption
<1>2. y >= 0 /\ 2 * (q * y) <= Peak
  <2>1. CASE h = 2 * q
    <3>1. Peak * (2 * q - h) = 0
      BY <1>1, <2>1
    <3>2. h * y <= h * 0 /\ h * (-1) < h * y
      BY <1>1, <3>1
    <3>3. h * y < h * 1
      BY <1>1, <2>1, <3>2
    <3>4. y < 1 /\ -1 < y
      BY <1>1, <2>1, <3>2, <3>3, Cancel
    <3>5. y = 0
      BY <3>4
    <3> QED
      BY <1>1, <3>5
  <2>2. CASE h = 2 * q + 1
    <3>1. -(Peak * (2 * q - h)) = Peak
      BY <1>1, <2>2
    <3>2. h * (-1) < h * y
      BY <1>1, <3>1
    <3>3. -1 < y
      BY <1>1, <2>2, <3>2, Cancel
    <3>4. y \in Nat
      BY <3>3
    <3>5. 2 * (q * y) <= h * y
      BY <1>1, <2>2, <3>4, Grows
    <3>6. h * y <= Peak /\ h * y \in Int /\ q * y \in Int
      BY <1>1, <3>1
    <3> QED
      BY <1>1, <3>4, <3>5, <3>6
  <2> QED
    BY <2>1, <2>2
<1>3. 2 * ((Peak + y) - x - 1) * q = 2 * (Peak * q) + 2 * (q * y) - 2 * (q * x) - 2 * q
  BY <1>1
<1>4. 2 * (x - (Peak + y) - 1) * q = 2 * (q * x) - 2 * (Peak * q) - 2 * (q * y) - 2 * q
  BY <1>1
<1>5. q * y >= 0 /\ q * y \in Int
  BY <1>2
<1> DEFINE qx == q * x
           qy == q * y
           pq == Peak * q
           l  == 2 * ((Peak + y) - x - 1) * q
           r  == 2 * (x - (Peak + y) - 1) * q
<1>6. /\ qx \in Int /\ qy \in Int /\ pq \in Int /\ qy >= 0 /\ 2 * qy <= Peak
      /\ qx <= pq - Peak /\ pq - Peak < qx + q
      /\ l = 2 * pq + 2 * qy - 2 * qx - 2 * q /\ r = 2 * qx - 2 * pq - 2 * qy - 2 * q
  BY <1>1, <1>2, <1>3, <1>4, <1>5
<1> HIDE DEF qx, qy, pq, l, r
<1>7. l <= 3 * Peak /\ r <= 3 * Peak
  BY <1>1, <1>6
<1> QED
  BY <1>7 DEF l, r, Gentle

\* From the second ramp to the third, which starts at the bottom.
LEMMA SecondJoint ==
    ASSUME NEW q \in Nat, NEW h \in Nat \ {0}, 2 * q <= h, NEW e \in 1 .. 3, NEW y \in Int,
           h * y <= -(Peak * (2 * h - e)), -(Peak * (2 * h - e)) < h * y + h
    PROVE  Gentle(Peak + y, -Peak, q)
<1> DEFINE u == 2 * Peak + y
<1>1. /\ Peak \in Nat /\ u \in Int /\ h * y \in Int
      /\ h * u = 2 * (Peak * h) + h * y
      /\ Peak * (2 * h - e) = 2 * (Peak * h) - Peak * e
  BY WavesAssumption
<1>2. Peak * e \in Nat /\ Peak * e <= 3 * Peak
  <2>1. e = 1 \/ e = 2 \/ e = 3
    OBVIOUS
  <2> QED
    BY <1>1, <2>1
<1>3. h * u <= Peak * e /\ Peak * e < h * u + h
  <2> DEFINE hu == h * u
             hy == h * y
             ph == Peak * h
             pe == Peak * e
  <2>1. /\ hy \in Int /\ ph \in Int /\ pe \in Nat /\ hu = 2 * ph + hy
        /\ hy <= -(2 * ph - pe) /\ -(2 * ph - pe) < hy + h
    BY <1>1, <1>2
  <2> HIDE DEF hu, hy, ph, pe
  <2>2. hu <= pe /\ pe < hu + h
    BY <2>1
  <2> QED
    BY <2>2 DEF hu, pe
<1> HIDE DEF u
<1>4. u \in Nat
  <2>1. h * (-1) < h * u
    BY <1>1, <1>2, <1>3
  <2>2. -1 < u
    BY <1>1, <2>1, Cancel
  <2> QED
    BY <1>1, <2>2
<1>5. 2 * (q * u) <= 3 * Peak
  <2>1. 2 * (q * u) <= h * u
    BY <1>4, Grows
  <2> QED
    BY <1>1, <1>2, <1>3, <1>4, <2>1
<1>6. 2 * (u - 1) * q <= 3 * Peak
  <2>1. 2 * (u - 1) * q = 2 * (q * u) - 2 * q /\ q * u \in Int
    BY <1>4
  <2> QED
    BY <1>1, <1>5, <2>1
<1>7. 2 * (-u - 1) * q <= 3 * Peak
  <2>1. -u - 1 \in Int /\ -u - 1 <= 0
    BY <1>4
  <2>2. 2 * (-u - 1) * q <= 0
    BY <2>1, NoRise
  <2> QED
    BY <1>1, <1>4, <2>2
<1>8. u - 1 = (Peak + y) - (-Peak) - 1 /\ -u - 1 = -Peak - (Peak + y) - 1
  BY <1>1 DEF u
<1> QED
  BY <1>6, <1>7, <1>8 DEF Gentle

\* From the last ramp, which ends below 0, to the start of the next triangle.
LEMMA LastJoint ==
    ASSUME NEW q \in Nat, q >= 2, NEW k \in {q - 1, q}, NEW z \in Int,
           q * z <= Peak * k, Peak * k < q * z + q
    PROVE  Gentle(-Peak + z, 0, q)
<1>1. Peak \in Nat /\ (Peak * k = Peak * q \/ Peak * k = Peak * q - Peak)
  BY WavesAssumption
<1>2. 2 * (0 - (-Peak + z) - 1) * q = 2 * (Peak * q) - 2 * (q * z) - 2 * q
  BY <1>1
<1>3. 2 * ((-Peak + z) - 0 - 1) * q = 2 * (q * z) - 2 * (Peak * q) - 2 * q
  BY <1>1
<1> DEFINE qz == q * z
           pq == Peak * q
           pk == Peak * k
           l  == 2 * (0 - (-Peak + z) - 1) * q
           r  == 2 * ((-Peak + z) - 0 - 1) * q
<1>4. /\ qz \in Int /\ pq \in Int /\ pk \in Int /\ (pk = pq \/ pk = pq - Peak)
      /\ qz <= pk /\ pk < qz + q
      /\ l = 2 * pq - 2 * qz - 2 * q /\ r = 2 * qz - 2 * pq - 2 * q
  BY <1>1, <1>2, <1>3
<1> HIDE DEF qz, pq, pk, l, r
<1>5. l <= 3 * Peak /\ r <= 3 * Peak
  BY <1>1, <1>4
<1> QED
  BY <1>5 DEF l, r, Gentle

-----------------------------------------------------------------------------
(* The triangle: the sample at t of a width *)

Rising(q, t) == (Peak * t) \div q
Falling(h, t) == ((-Peak - Peak) * (2 * t - h)) \div (2 * h)

RampAt(w, t) ==
    IF t < w \div 4 THEN Rising(w \div 4, t)
    ELSE IF t < (w * 3) \div 4 THEN Peak + Falling(w \div 2, t)
    ELSE -Peak + Rising(w \div 4, t - (w * 3) \div 4)

LEMMA RisingBounds ==
    ASSUME NEW q \in Nat \ {0}, NEW t \in Nat
    PROVE  /\ Rising(q, t) \in Int
           /\ q * Rising(q, t) <= Peak * t
           /\ Peak * t < q * Rising(q, t) + q
<1>1. Peak * t \in Int
  BY WavesAssumption
<1> QED
  BY <1>1, FloorBounds DEF Rising

LEMMA FallingBounds ==
    ASSUME NEW h \in Nat \ {0}, NEW t \in Nat
    PROVE  /\ Falling(h, t) \in Int
           /\ h * Falling(h, t) <= -(Peak * (2 * t - h))
           /\ -(Peak * (2 * t - h)) < h * Falling(h, t) + h
<1> DEFINE n == (-Peak - Peak) * (2 * t - h)
           f == Falling(h, t)
<1>1. Peak \in Nat /\ n \in Int /\ 2 * h \in Nat \ {0} /\ Peak * (2 * t - h) \in Int
  BY WavesAssumption
<1>2. n = -2 * (Peak * (2 * t - h))
  BY <1>1
<1>3. f = n \div (2 * h)
  BY DEF Falling
<1>4. f \in Int /\ (2 * h) * f <= n /\ n < (2 * h) * f + 2 * h
  <2> HIDE DEF n, f
  <2> QED
    BY <1>1, <1>3, FloorBounds
<1>5. (2 * h) * f = 2 * (h * f) /\ h * f \in Int
  BY <1>4
<1> DEFINE hf == h * f
           p  == Peak * (2 * t - h)
<1>6. hf \in Int /\ p \in Int /\ 2 * hf <= -2 * p /\ -2 * p < 2 * hf + 2 * h
  BY <1>1, <1>2, <1>4, <1>5
<1> HIDE DEF hf, p
<1>7. hf <= -p /\ -p < hf + h
  BY <1>6
<1> QED
  BY <1>4, <1>7 DEF hf, p

LEMMA Fits16 ==
    ASSUME NEW x \in Int, -32768 <= x, x <= 32767
    PROVE  Int16(x) = x
<1> DEFINE y == x + 32768
<1>1. y \in Int /\ 0 <= y /\ y < 65536
  OBVIOUS
<1>2. y % 65536 = y
  <2> HIDE DEF y
  <2> QED
    BY <1>1
<1> QED
  BY <1>1, <1>2 DEF Int16

\* The samples of the first and the last ramp are within the peak.
LEMMA RisingFits ==
    ASSUME NEW q \in Nat \ {0}, NEW t \in 0 .. q
    PROVE  Rising(q, t) \in 0 .. Peak
<1> DEFINE x == Rising(q, t)
<1>1. x \in Int /\ q * x <= Peak * t /\ Peak * t < q * x + q /\ Peak \in Nat
  BY RisingBounds, WavesAssumption
<1>2. Peak * t >= 0 /\ Peak * t <= Peak * q
  BY <1>1
<1> HIDE DEF x
<1>3. q * (-1) < q * x
  BY <1>1, <1>2
<1>4. q * x < q * (Peak + 1)
  <2>1. q * (Peak + 1) = Peak * q + q /\ q * x \in Int /\ Peak * t \in Int /\ Peak * q \in Int
    BY <1>1
  <2> QED
    BY <1>1, <1>2, <2>1
<1>5. -1 < x /\ x < Peak + 1
  BY <1>1, <1>3, <1>4, Cancel
<1> QED
  BY <1>1, <1>5 DEF x

\* Those of the second lie between the bottom and, for an odd half, a part of
\* that half above the peak.
LEMMA FallingFits ==
    ASSUME NEW q \in Nat, q >= 2, NEW h \in {2 * q, 2 * q + 1}, NEW t \in Nat,
           q <= t, 2 * t <= 3 * h
    PROVE  /\ Falling(h, t) \in Int
           /\ Falling(h, t) >= -(2 * Peak)
           /\ 5 * Falling(h, t) <= Peak
<1> DEFINE x == Falling(h, t)
           p == Peak * (2 * t - h)
<1>1. /\ h \in Nat \ {0} /\ Peak \in Nat /\ x \in Int /\ p \in Int
      /\ h * x <= -p /\ -p < h * x + h
  BY FallingBounds, WavesAssumption
<1>2. 2 * t - h \in -1 .. (2 * h) /\ (h = 2 * q => 2 * t - h >= 0)
  BY <1>1
<1>3. p <= 2 * (Peak * h) /\ Peak * h \in Int
  <2>1. Peak * (2 * h) = 2 * (Peak * h) /\ Peak * h \in Int
    BY <1>1
  <2>2. Peak * (2 * t - h) <= Peak * (2 * h)
    <3> DEFINE a == 2 * t - h
               b == 2 * h
    <3>1. a \in Int /\ b \in Int /\ a <= b
      BY <1>1, <1>2
    <3> HIDE DEF a, b
    <3>2. Peak * a <= Peak * b
      BY <1>1, <3>1
    <3> QED
      BY <3>2 DEF a, b
  <2> QED
    BY <1>1, <1>2, <2>1, <2>2
<1>4. p >= -Peak /\ (h = 2 * q => p >= 0)
  <2>1. \A m \in Int : m >= 0 => Peak * m >= 0
    BY <1>1
  <2>2. Peak * (-1) = -Peak
    BY <1>1
  <2>3. 2 * t - h = -1 \/ 2 * t - h >= 0
    BY <1>2
  <2> QED
    BY <1>1, <1>2, <2>1, <2>2, <2>3
<1> HIDE DEF x, p
<1>5. x >= -(2 * Peak)
  <2>1. h * (-(2 * Peak) - 1) < h * x
    <3>1. h * (-(2 * Peak) - 1) = -(2 * (Peak * h)) - h /\ h * x \in Int
      BY <1>1
    <3> QED
      BY <1>1, <1>3, <3>1
  <2>2. -(2 * Peak) - 1 < x
    BY <1>1, <2>1, Cancel
  <2> QED
    BY <1>1, <2>2
<1>6. 5 * x <= Peak
  <2>1. CASE x <= 0
    BY <1>1, <2>1
  <2>2. CASE x > 0
    <3>1. h * x > 0
      BY <1>1, <2>2
    <3>2. h = 2 * q + 1
      BY <1>1, <1>4, <3>1
    <3>3. h >= 5
      BY <3>2
    <3>4. 5 * x <= h * x
      BY <1>1, <2>2, <3>3
    <3>5. h * x <= Peak /\ h * x \in Int
      BY <1>1, <1>4
    <3> QED
      BY <1>1, <3>4, <3>5
  <2> QED
    BY <1>1, <2>1, <2>2
<1> QED
  BY <1>1, <1>5, <1>6 DEF x

-----------------------------------------------------------------------------
\* The ramp that the stream renders is the exact one, from where the conversion
\* to 16 bits takes nothing away.
LEMMA RampIsExact ==
    ASSUME thisWidth \in Nat, thisWidth >= 8, time \in 0 .. (thisWidth - 1)
    PROVE  Ramp = RampAt(thisWidth, time)
<1> DEFINE q  == thisWidth \div 4
           h  == thisWidth \div 2
           tq == (thisWidth * 3) \div 4
<1>1. /\ q \in Nat /\ h \in Nat /\ tq \in Nat
      /\ q >= 2 /\ q < tq /\ tq < thisWidth
      /\ h = 2 * q \/ h = 2 * q + 1
      /\ 3 * h - 2 * tq + 2 \in 1 .. 3
      /\ thisWidth - 1 - tq \in {q - 1, q}
  BY WidthParts
<1>2. ~TriangleOver /\ time \in Nat
  BY DEF TriangleOver
<1>3. Peak \in Nat /\ 6 * Peak <= 5 * 32767
  BY WavesAssumption
<1>4. CASE time < q
  <2>1. Ramp = Lerp(0, Peak, time, q)
    BY <1>2, <1>4 DEF Ramp, Quarter
  <2>2. Rising(q, time) \in 0 .. Peak
    <3> HIDE DEF q
    <3> QED
      BY <1>1, <1>2, <1>4, RisingFits
  <2>3. Lerp(0, Peak, time, q) = Int16(Rising(q, time))
    <3>1. q # 0 /\ (Peak - 0) * time = Peak * time /\ Rising(q, time) \in Int
      BY <1>1, <1>3, <2>2
    <3> HIDE DEF q
    <3> QED
      BY <3>1 DEF Lerp, Rising
  <2>4. Int16(Rising(q, time)) = Rising(q, time)
    <3>1. Rising(q, time) \in Int /\ -32768 <= Rising(q, time) /\ Rising(q, time) <= 32767
      BY <1>3, <2>2
    <3> QED
      BY <3>1, Fits16
  <2> QED
    BY <1>4, <2>1, <2>3, <2>4 DEF RampAt
<1>5. CASE ~(time < q) /\ time < tq
  <2>1. Ramp = Lerp(Peak, -Peak, 2 * time - h, 2 * h)
    BY <1>2, <1>5 DEF Ramp, Quarter, ThreeQuarters
  <2> DEFINE x == Falling(h, time)
  <2>2. x \in Int /\ x >= -(2 * Peak) /\ 5 * x <= Peak
    <3>1. q <= time /\ 2 * time <= 3 * h /\ h \in {2 * q, 2 * q + 1}
      BY <1>1, <1>2, <1>5
    <3> HIDE DEF q, h
    <3> QED
      BY <1>1, <1>2, <3>1, FallingFits
  <2>3. Lerp(Peak, -Peak, 2 * time - h, 2 * h) = Int16(Peak + x)
    <3>1. 2 * h # 0
      BY <1>1
    <3> HIDE DEF h
    <3> QED
      BY <3>1 DEF Lerp, Falling
  <2>4. Int16(Peak + x) = Peak + x
    <3> HIDE DEF x
    <3>1. Peak + x \in Int /\ -32768 <= Peak + x /\ Peak + x <= 32767
      BY <1>3, <2>2
    <3> QED
      BY <3>1, Fits16
  <2> QED
    BY <1>5, <2>1, <2>3, <2>4 DEF RampAt
<1>6. CASE ~(time < q) /\ ~(time < tq)
  <2> DEFINE k == time - tq
             x == Rising(q, k)
  <2>1. Ramp = Lerp(-Peak, 0, k, q)
    BY <1>2, <1>6 DEF Ramp, Quarter, ThreeQuarters
  <2>2. x \in 0 .. Peak
    <3>1. k \in 0 .. q
      BY <1>1, <1>2, <1>6
    <3> HIDE DEF k, q
    <3> QED
      BY <1>1, <3>1, RisingFits
  <2>3. Lerp(-Peak, 0, k, q) = Int16(-Peak + x)
    <3>1. q # 0 /\ 0 - (-Peak) = Peak
      BY <1>1, <1>3
    <3> HIDE DEF k, q
    <3> QED
      BY <3>1 DEF Lerp, Rising
  <2>4. Int16(-Peak + x) = -Peak + x
    <3> HIDE DEF x
    <3>1. -Peak + x \in Int /\ -32768 <= -Peak + x /\ -Peak + x <= 32767
      BY <1>3, <2>2
    <3> QED
      BY <3>1, Fits16
  <2> QED
    BY <1>6, <2>1, <2>3, <2>4 DEF RampAt
<1> QED
  BY <1>4, <1>5, <1>6

\* One sample of a triangle after another.
LEMMA RampSteps ==
    ASSUME NEW w \in Nat, w >= 8, NEW t \in Nat, t + 1 < w
    PROVE  Gentle(RampAt(w, t), RampAt(w, t + 1), w \div 4)
<1> DEFINE q  == w \div 4
           h  == w \div 2
           tq == (w * 3) \div 4
<1>1. /\ q \in Nat /\ h \in Nat /\ tq \in Nat
      /\ q >= 2 /\ q < tq /\ tq < w
      /\ h = 2 * q \/ h = 2 * q + 1
      /\ 3 * h - 2 * tq + 2 \in 1 .. 3
      /\ w - 1 - tq \in {q - 1, q}
  BY WidthParts
<1>2. \A s \in Int :
         RampAt(w, s) = IF s < q THEN Rising(q, s)
                        ELSE IF s < tq THEN Peak + Falling(h, s)
                        ELSE -Peak + Rising(q, s - tq)
  BY DEF RampAt
<1>3. Peak \in Nat /\ q \in Nat \ {0} /\ h \in Nat \ {0} /\ 2 * q <= h /\ h \in {2 * q, 2 * q + 1}
  BY <1>1, WavesAssumption
<1> SUFFICES Gentle(RampAt(w, t), RampAt(w, t + 1), q)
  OBVIOUS
<1> HIDE DEF q, h, tq
<1>4. ASSUME NEW s \in Nat
      PROVE  Gentle(Rising(q, s), Rising(q, s + 1), q)
  <2>1. Peak * (s + 1) = Peak * s + Peak /\ Peak * s \in Int
    BY <1>3
  <2>2. /\ Rising(q, s) \in Int
        /\ q * Rising(q, s) <= Peak * s
        /\ Peak * s < q * Rising(q, s) + q
    BY <1>3, RisingBounds
  <2>3. /\ Rising(q, s + 1) \in Int
        /\ q * Rising(q, s + 1) <= Peak * s + Peak
        /\ Peak * s + Peak < q * Rising(q, s + 1) + q
    <3>1. s + 1 \in Nat
      OBVIOUS
    <3> QED
      BY <1>3, <2>1, <3>1, RisingBounds
  <2> QED
    BY <1>3, <2>1, <2>2, <2>3, UpwardStep
<1>5. CASE t + 1 < q
  <2>1. t < q /\ t \in Int /\ t + 1 \in Int
    BY <1>1, <1>5
  <2>2. RampAt(w, t) = Rising(q, t) /\ RampAt(w, t + 1) = Rising(q, t + 1)
    BY <1>2, <1>5, <2>1
  <2> QED
    BY <1>4, <2>2
<1>6. CASE t + 1 = q
  <2>1. /\ Rising(q, t) \in Int
        /\ q * Rising(q, t) <= Peak * (q - 1)
        /\ Peak * (q - 1) < q * Rising(q, t) + q
    <3>1. t = q - 1
      BY <1>1, <1>6
    <3> QED
      BY <1>3, <3>1, RisingBounds
  <2>2. /\ Falling(h, q) \in Int
        /\ h * Falling(h, q) <= -(Peak * (2 * q - h))
        /\ -(Peak * (2 * q - h)) < h * Falling(h, q) + h
    BY <1>3, FallingBounds
  <2>3. Gentle(Rising(q, t), Peak + Falling(h, q), q)
    BY <1>1, <1>3, <2>1, <2>2, FirstJoint
  <2> QED
    BY <1>1, <1>2, <1>6, <2>3
<1>7. CASE q < t + 1 /\ t + 1 < tq
  <2> DEFINE n == -(Peak * (2 * t - h))
             x == Falling(h, t)
             y == Falling(h, t + 1)
  <2>1. n \in Int /\ -(Peak * (2 * (t + 1) - h)) = n - 2 * Peak
    BY <1>1, <1>3
  <2>2. x \in Int /\ h * x <= n /\ n < h * x + h
    BY <1>3, FallingBounds
  <2>3. y \in Int /\ h * y <= n - 2 * Peak /\ n - 2 * Peak < h * y + h
    <3>1. t + 1 \in Nat
      OBVIOUS
    <3> HIDE DEF n
    <3> QED
      BY <1>3, <2>1, <3>1, FallingBounds
  <2>4. RampAt(w, t) = Peak + x /\ RampAt(w, t + 1) = Peak + y
    BY <1>1, <1>2, <1>7
  <2> HIDE DEF n, x, y
  <2>5. Gentle(x, y, q)
    BY <1>3, <2>1, <2>2, <2>3, DownwardStep
  <2>6. (Peak + y) - (Peak + x) - 1 = y - x - 1 /\ (Peak + x) - (Peak + y) - 1 = x - y - 1
    BY <1>3, <2>2, <2>3
  <2> QED
    BY <2>4, <2>5, <2>6 DEF Gentle
<1>8. CASE t + 1 = tq
  <2> DEFINE e == 3 * h - 2 * tq + 2
             y == Falling(h, t)
  <2>1. e \in 1 .. 3 /\ 2 * t - h = 2 * h - e
    BY <1>1, <1>8
  <2>2. y \in Int /\ h * y <= -(Peak * (2 * h - e)) /\ -(Peak * (2 * h - e)) < h * y + h
    <3> HIDE DEF e
    <3> QED
      BY <1>3, <2>1, FallingBounds
  <2>3. RampAt(w, t) = Peak + y
    BY <1>1, <1>2, <1>8
  <2>4. RampAt(w, t + 1) = -Peak + Rising(q, 0)
    BY <1>1, <1>2, <1>8
  <2>5. Rising(q, 0) = 0
    BY <1>3 DEF Rising
  <2>6. RampAt(w, t + 1) = -Peak
    BY <1>3, <2>4, <2>5
  <2> HIDE DEF e, y
  <2> QED
    BY <1>3, <2>1, <2>2, <2>3, <2>6, SecondJoint
<1>9. CASE tq < t + 1
  <2> DEFINE x == Rising(q, t - tq)
             y == Rising(q, (t - tq) + 1)
  <2>1. t - tq \in Nat /\ (t + 1) - tq = (t - tq) + 1
    BY <1>1, <1>9
  <2>2. RampAt(w, t) = -Peak + x /\ RampAt(w, t + 1) = -Peak + y
    BY <1>1, <1>2, <1>9, <2>1
  <2>3. x \in Int /\ y \in Int
    <3>1. (t - tq) + 1 \in Nat
      BY <2>1
    <3> QED
      BY <1>3, <2>1, <3>1, RisingBounds
  <2>4. Gentle(x, y, q)
    BY <1>4, <2>1
  <2> HIDE DEF x, y
  <2>5. (-Peak + y) - (-Peak + x) - 1 = y - x - 1 /\ (-Peak + x) - (-Peak + y) - 1 = x - y - 1
    BY <1>3, <2>3
  <2> QED
    BY <2>2, <2>4, <2>5 DEF Gentle
<1> QED
  BY <1>1, <1>5, <1>6, <1>7, <1>8, <1>9

\* A triangle begins with 0, and 0 follows its end.
LEMMA RampEnds ==
    ASSUME NEW w \in Nat, w >= 8
    PROVE  RampAt(w, 0) = 0 /\ Gentle(RampAt(w, w - 1), 0, w \div 4)
<1> DEFINE q  == w \div 4
           tq == (w * 3) \div 4
           k  == w - 1 - tq
<1>1. q \in Nat \ {0} /\ q >= 2 /\ q < tq /\ tq < w /\ tq \in Nat /\ k \in {q - 1, q}
  BY WidthParts
<1>2. RampAt(w, 0) = Rising(q, 0) /\ RampAt(w, w - 1) = -Peak + Rising(q, k)
  BY <1>1 DEF RampAt
<1> HIDE DEF q, tq, k
<1>3. Rising(q, 0) = 0
  BY <1>1, WavesAssumption DEF Rising
<1>4. k \in Nat
  BY <1>1
<1>5. Gentle(-Peak + Rising(q, k), 0, q)
  BY <1>1, <1>4, RisingBounds, LastJoint
<1> QED
  BY <1>2, <1>3, <1>5 DEF q

\* The last sample of a triangle was the one of its ramp before time, or 0
\* where there is none: between two triangles, and when the counter of a mute
\* stream has started anew.
RampInv ==
    /\ kind \in Kinds
    /\ kind = "triangle" =>
        /\ note.width \in 0 .. (Wrap - 1)
        /\ time \in 0 .. (Wrap - 1)
        /\ thisWidth \in 0 .. (Wrap - 1)
        /\ thisWidth >= 8 =>
              \/ sample = 0 /\ (time = 0 \/ time >= thisWidth)
              \/ /\ time \in 1 .. thisWidth
                 /\ sample = RampAt(thisWidth, time - 1)

LEMMA SampleTriangle ==
    ASSUME RampInv, TriangleSample, kind = "triangle", kind' = kind, note' = note
    PROVE  RampInv'
<1>1. /\ Wrap \in Nat \ {0}
      /\ note.width \in 0 .. (Wrap - 1)
      /\ time \in 0 .. (Wrap - 1) /\ thisWidth \in 0 .. (Wrap - 1)
  BY WavesAssumption DEF RampInv
<1>2. CASE TriangleOver /\ ~note.mute
  <2>1. thisWidth' = note.width /\ time' = 1
    BY <1>2 DEF TriangleSample
  <2>2. sample' = 0
    BY <1>2 DEF TriangleSample, Ramp
  <2>3. note.width >= 8 => RampAt(note.width, 0) = 0
    BY <1>1, RampEnds
  <2>4. 1 \in 0 .. (Wrap - 1)
    BY <1>1, WavesAssumption
  <2> QED
    BY <1>1, <2>1, <2>2, <2>3, <2>4 DEF RampInv
<1>3. CASE TriangleOver /\ note.mute
  <2>1. thisWidth' = thisWidth /\ time' = (time + 1) % Wrap
    BY <1>3 DEF TriangleSample
  <2>2. sample' = 0
    BY <1>3 DEF TriangleSample, Ramp
  <2>3. time' = 0 \/ time' = time + 1
    BY <1>1, <2>1
  <2>4. time' \in 0 .. (Wrap - 1)
    BY <1>1, <2>1
  <2>5. thisWidth <= time
    BY <1>3 DEF TriangleOver
  <2> QED
    BY <1>1, <2>1, <2>2, <2>3, <2>4, <2>5 DEF RampInv
<1>4. CASE ~TriangleOver
  <2>1. thisWidth' = thisWidth /\ time' = (time + 1) % Wrap /\ sample' = Ramp
    BY <1>4 DEF TriangleSample
  <2>2. time < thisWidth
    BY <1>1, <1>4 DEF TriangleOver
  <2>3. time' = time + 1
    BY <1>1, <2>1, <2>2
  <2>4. thisWidth >= 8 => Ramp = RampAt(thisWidth, time)
    BY <1>1, <2>2, RampIsExact
  <2>5. time' \in 1 .. thisWidth /\ time' - 1 = time /\ time' \in 0 .. (Wrap - 1)
    BY <1>1, <2>2, <2>3
  <2> QED
    BY <1>1, <2>1, <2>4, <2>5 DEF RampInv
<1> QED
  BY <1>2, <1>3, <1>4

LEMMA NextRamp == RampInv /\ [WaveNext]_waveVars => RampInv'
<1> SUFFICES ASSUME RampInv, [WaveNext]_waveVars
             PROVE  RampInv'
  OBVIOUS
<1>1. CASE OnGetData
  <2>1. note' \in NotesOf(kind)
        /\ UNCHANGED <<kind, time, thisWidth, sample>>
    BY <1>1 DEF OnGetData
  <2> QED
    BY <2>1, WidthWraps DEF RampInv
<1>2. CASE Sample
  <2>1. kind' = kind /\ note' = note
    BY <1>2 DEF Sample
  <2>2. CASE kind = "triangle"
    <3>1. TriangleSample
      BY <1>2, <2>2 DEF Sample
    <3> QED
      BY <2>1, <2>2, <3>1, SampleTriangle
  <2> QED
    BY <2>1, <2>2 DEF RampInv
<1>3. CASE UNCHANGED waveVars
  BY <1>3 DEF waveVars, RampInv
<1> QED
  BY <1>1, <1>2, <1>3 DEF WaveNext

LEMMA RampIsInt ==
    ASSUME NEW w \in Nat, w >= 8, NEW t \in 0 .. (w - 1)
    PROVE  RampAt(w, t) \in Int
<1> DEFINE q  == w \div 4
           h  == w \div 2
           tq == (w * 3) \div 4
<1>1. q \in Nat \ {0} /\ h \in Nat \ {0} /\ tq \in Nat /\ Peak \in Nat
  BY WidthParts, WavesAssumption
<1>2. RampAt(w, t) = IF t < q THEN Rising(q, t)
                     ELSE IF t < tq THEN Peak + Falling(h, t)
                     ELSE -Peak + Rising(q, t - tq)
  BY DEF RampAt
<1> HIDE DEF q, h, tq
<1>3. Rising(q, t) \in Int /\ Falling(h, t) \in Int
  BY <1>1, RisingBounds, FallingBounds
<1>4. ~(t < tq) => Rising(q, t - tq) \in Int
  <2> SUFFICES ASSUME ~(t < tq)
               PROVE  Rising(q, t - tq) \in Int
    OBVIOUS
  <2>1. t - tq \in Nat
    BY <1>1
  <2> QED
    BY <1>1, <2>1, RisingBounds
<1> QED
  BY <1>1, <1>2, <1>3, <1>4

LEMMA GentleIsSmooth ==
    ASSUME NEW q, sample \in Int, sample' \in Int, q = Quarter, Gentle(sample, sample', q)
    PROVE  2 * (Jump - 1) * Quarter <= 3 * Peak
<1>1. CASE sample' >= sample
  BY <1>1 DEF Jump, Gentle
<1>2. CASE ~(sample' >= sample)
  BY <1>2 DEF Jump, Gentle
<1> QED
  BY <1>1, <1>2

LEMMA SampleIsInt ==
    ASSUME RampInv, kind = "triangle", thisWidth >= 8
    PROVE  sample \in Int
<1>1. CASE sample = 0
  BY <1>1
<1>2. CASE time \in 1 .. thisWidth /\ sample = RampAt(thisWidth, time - 1)
  <2>1. thisWidth \in Nat /\ time - 1 \in 0 .. (thisWidth - 1)
    BY <1>2, WavesAssumption DEF RampInv
  <2> QED
    BY <1>2, <2>1, RampIsInt
<1> QED
  BY <1>1, <1>2 DEF RampInv

\* One sample of the stream is one step of the ramp, its end or silence.
LEMMA TriangleIsGentle ==
    ASSUME RampInv, TriangleSample, kind = "triangle", thisWidth >= 8
    PROVE  Gentle(sample, sample', Quarter) /\ sample \in Int /\ sample' \in Int
<1> DEFINE w == thisWidth
           q == w \div 4
<1>1. /\ w \in Nat /\ w >= 8 /\ time \in Nat /\ q \in Nat /\ Peak \in Nat
      /\ \/ sample = 0 /\ (time = 0 \/ time >= w)
         \/ time \in 1 .. w /\ sample = RampAt(w, time - 1)
  BY WavesAssumption DEF RampInv
<1>2. q = Quarter
  BY DEF Quarter
<1>3. Gentle(0, 0, q)
  BY <1>1, NoRise DEF Gentle
<1>4. ASSUME NEW t \in 0 .. (w - 1)
      PROVE  RampAt(w, t) \in Int
  BY <1>1, <1>4, RampIsInt
<1>5. CASE time >= w
  <2>1. sample' = 0
    BY <1>1, <1>5 DEF TriangleSample, Ramp, TriangleOver
  <2>2. CASE sample = 0
    BY <1>2, <1>3, <2>1, <2>2
  <2>3. CASE time \in 1 .. w /\ sample = RampAt(w, time - 1)
    <3>1. time = w /\ w - 1 \in 0 .. (w - 1)
      BY <1>1, <1>5, <2>3
    <3>2. sample \in Int
      BY <1>4, <2>3, <3>1
    <3>3. Gentle(sample, 0, q)
      BY <1>1, <2>3, <3>1, RampEnds
    <3> QED
      BY <1>2, <2>1, <3>2, <3>3
  <2> QED
    BY <1>1, <2>2, <2>3
<1>6. CASE time < w
  <2>1. sample' = RampAt(w, time) /\ sample' \in Int
    <3>1. time \in 0 .. (w - 1)
      BY <1>1, <1>6
    <3>2. Ramp = RampAt(w, time)
      BY <1>1, <3>1, RampIsExact
    <3> QED
      BY <1>4, <3>1, <3>2 DEF TriangleSample
  <2>2. CASE time = 0
    <3>1. sample = 0
      BY <1>1, <2>2
    <3>2. sample' = 0
      BY <1>1, <2>1, <2>2, RampEnds
    <3> QED
      BY <1>2, <1>3, <3>1, <3>2
  <2>3. CASE time # 0
    <3> DEFINE t == time - 1
    <3>1. t \in Nat /\ t + 1 = time /\ t + 1 < w /\ t \in 0 .. (w - 1)
      BY <1>1, <1>6, <2>3
    <3>2. sample = RampAt(w, t)
      BY <1>1, <1>6, <2>3
    <3> HIDE DEF t
    <3>3. Gentle(RampAt(w, t), RampAt(w, t + 1), q)
      BY <1>1, <3>1, RampSteps
    <3>4. sample \in Int
      BY <1>4, <3>1, <3>2
    <3> QED
      BY <1>2, <2>1, <3>1, <3>2, <3>3, <3>4
  <2> QED
    BY <2>2, <2>3
<1> QED
  BY <1>1, <1>5, <1>6

\* The triangle never clicks, for every sample rate and sequence of notes of at
\* least 8 samples: the sample that follows another is at most one and a half
\* steps of the ramp away, the rounding of both aside.
THEOREM RampIsSmooth == WaveSpec => RampSmooth
<1>1. WaveInit => RampInv
  <2> SUFFICES ASSUME WaveInit
               PROVE  RampInv
    OBVIOUS
  <2>1. kind = "triangle" => note.width \in 0 .. (Wrap - 1)
    BY WidthWraps DEF WaveInit
  <2> QED
    BY <2>1, WavesAssumption DEF WaveInit, RampInv, Kinds
<1>2. RampInv /\ [WaveNext]_waveVars => RampInv'
  BY NextRamp
<1>3. RampInv /\ [WaveNext]_waveVars =>
         [kind = "triangle" /\ thisWidth >= 8 /\ thisWidth' >= 8 =>
             2 * (Jump - 1) * Quarter <= 3 * Peak]_waveVars
  <2> SUFFICES ASSUME RampInv, WaveNext, kind = "triangle", thisWidth >= 8
               PROVE  2 * (Jump - 1) * Quarter <= 3 * Peak
    OBVIOUS
  <2>1. CASE OnGetData
    <3>1. sample' = sample
      BY <2>1 DEF OnGetData
    <3>2. sample \in Int
      BY SampleIsInt
    <3>3. Quarter \in Nat /\ Peak \in Nat
      BY WavesAssumption DEF RampInv, Quarter
    <3>4. Gentle(sample, sample', Quarter)
      <4>1. sample - sample - 1 = -1
        BY <3>2
      <4>2. 2 * (-1) * Quarter <= 0
        BY <3>3, NoRise
      <4> QED
        BY <3>1, <3>3, <4>1, <4>2 DEF Gentle
    <3> QED
      BY <3>1, <3>2, <3>4, GentleIsSmooth
  <2>2. CASE Sample
    <3>1. TriangleSample
      BY <2>2 DEF Sample
    <3> QED
      BY <3>1, TriangleIsGentle, GentleIsSmooth
  <2> QED
    BY <2>1, <2>2 DEF WaveNext
<1> QED
  BY <1>1, <1>2, <1>3, PTL DEF WaveSpec, RampSmooth
=============================================================================
