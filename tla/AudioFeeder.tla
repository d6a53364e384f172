----------------------------- MODULE AudioFeeder -----------------------------
(***************************************************************************)
(* src/one/Loaders/AudioLoader.cpp: the tracks read from the Sfx directory *)
(* and the four slots that play them.  Slot 0 plays the music, slots 1..3  *)
(* sound effects; every second frame UpdateAudioFeeder advances the slots  *)
(* and hands the samples that are due to the streams of AudioStreams.      *)
(*                                                                         *)
(* Of a sample the model keeps its position and channel; the note itself   *)
(* is passed on unread.  Everything here runs on the main thread.          *)
(***************************************************************************)
EXTENDS SfxFile

CONSTANTS
    Files,  \* the files DirScan finds; names may repeat in subdirectories
    None    \* data of a slot that plays nothing (nullptr)

\* A file is that of SfxFile, with its name.
ASSUME FilesAssumption ==
    \A f \in Files : /\ f.size \in Int
                     /\ f.records \in Seq([position : Int, channel : Int])
                     /\ f.name # None

Low == 0
Medium == 10
High == 20

Slots == 0..3
SfxSlots == 1..3

VARIABLES
    unread,      \* the files LoadAudio has not come to yet
    loadedAudio, \* the tracks by name
    tickCounter,
    slots,       \* nowPlayingSlots
    sent         \* the AudioSet*Note calls of the last UpdateAudioFeeder

vars == <<unread, loadedAudio, tickCounter, slots, sent>>

-----------------------------------------------------------------------------
(* LoadFile *)

\* Rejected files and repeated names leave what is loaded as it was.
LoadFile(f) ==
    /\ f \in unread
    /\ unread' = unread \ {f}
    /\ loadedAudio' =
          IF Valid(f) /\ f.name \notin DOMAIN loadedAudio
          THEN [n \in DOMAIN loadedAudio \cup {f.name} |->
                    IF n = f.name THEN Samples(f) ELSE loadedAudio[n]]
          ELSE loadedAudio
    /\ UNCHANGED <<tickCounter, slots, sent>>

-----------------------------------------------------------------------------
(* The slots *)

Rest == [data |-> None, nextNote |-> 1, time |-> 0, priority |-> Low]

Begin(slot, n, p) ==
    [slot EXCEPT !.data = n, !.nextNote = 1, !.time = 0, !.priority = p]

PlayBGM(n) ==
    /\ unread = {}
    /\ n \in DOMAIN loadedAudio
    /\ slots[0].data # n
    /\ slots' = [slots EXCEPT ![0] = Begin(@, n, Low)]
    /\ UNCHANGED <<unread, loadedAudio, tickCounter, sent>>

\* Mutant: only the first slot that is free enough is taken.
TakesFirst(s, p) ==
    /\ slots[s].priority < p
    /\ \A t \in SfxSlots : t < s => slots[t].priority >= p

Takes(s, p) == slots[s].priority < p

\* The loop over the slots has no break: every slot that p outranks takes n.
PlaySFX(n, p) ==
    /\ unread = {}
    /\ n \in DOMAIN loadedAudio
    /\ slots' = [s \in Slots |-> IF s \in SfxSlots /\ Takes(s, p)
                                 THEN Begin(slots[s], n, p) ELSE slots[s]]
    /\ UNCHANGED <<unread, loadedAudio, tickCounter, sent>>

\* Mutant: the whole track is sent at once.
NotDueAtAll(track, i, t) == Len(track) + 1

\* Mutant: a sample is sent only after its time.
NotDueLate(track, i, t) ==
    CHOOSE j \in i..(Len(track) + 1) :
        /\ j <= Len(track) => track[j].position >= t
        /\ \A k \in i..(j - 1) : track[k].position < t

\* Mutant: a sample is sent a tick before its time.
NotDueEarly(track, i, t) ==
    CHOOSE j \in i..(Len(track) + 1) :
        /\ j <= Len(track) => track[j].position > t + 1
        /\ \A k \in i..(j - 1) : track[k].position <= t + 1

\* Where the while loop leaves nextNote at time t: at the first sample from i
\* on that is not due, or past the last one.
NotDue(track, i, t) ==
    CHOOSE j \in i..(Len(track) + 1) :
        /\ j <= Len(track) => track[j].position > t
        /\ \A k \in i..(j - 1) : track[k].position <= t

Cursor(slot) == NotDue(loadedAudio[slot.data], slot.nextNote, slot.time + 1)

Ended(slot) == Cursor(slot) > Len(loadedAudio[slot.data])

\* Mutant: a slot that has ended keeps its priority.
AdvanceKeepsPriority(slot) ==
    IF slot.data = None THEN slot
    ELSE [slot EXCEPT !.data = IF Ended(slot) THEN None ELSE @,
                      !.nextNote = Cursor(slot), !.time = @ + 1]

Advance(slot) ==
    IF slot.data = None THEN slot
    ELSE [data |-> IF Ended(slot) THEN None ELSE slot.data,
          nextNote |-> Cursor(slot),
          time |-> slot.time + 1,
          priority |-> IF Ended(slot) THEN Low ELSE slot.priority]

\* The sample of a second square channel goes to the first square stream.
Route(channel) == IF channel = "Square2" THEN "Square1" ELSE channel

\* The calls for slot s.  The note they pass is named by the slot and the sample.
Due(s) ==
    LET slot == slots[s]
    IN  IF slot.data = None THEN <<>>
        ELSE [i \in 1..(Cursor(slot) - slot.nextNote) |->
                 [stream |-> Route(loadedAudio[slot.data][slot.nextNote + i - 1].channel),
                  priority |-> slot.priority, slot |-> s, sample |-> slot.nextNote + i - 1]]

UpdateAudioFeeder ==
    /\ unread = {}
    /\ tickCounter' = ~tickCounter
    /\ IF tickCounter
       THEN /\ slots' = [s \in Slots |-> Advance(slots[s])]
            /\ sent' = Due(0) \o Due(1) \o Due(2) \o Due(3)
       ELSE UNCHANGED slots /\ sent' = <<>>
    /\ UNCHANGED <<unread, loadedAudio>>

-----------------------------------------------------------------------------
Init ==
    /\ unread = Files
    /\ loadedAudio = [n \in {} |-> <<>>]
    /\ tickCounter = FALSE
    /\ slots = [s \in Slots |-> Rest]
    /\ sent = <<>>

Names == {f.name : f \in Files}

Next ==
    \/ \E f \in Files : LoadFile(f)
    \/ \E n \in Names : PlayBGM(n)
    \/ \E n \in Names, p \in {Medium, High} : PlaySFX(n, p)
    \/ UpdateAudioFeeder

Spec == Init /\ [][Next]_vars

\* The frame loop of main.cpp calls UpdateAudioFeeder in every iteration.
FairSpec ==
    /\ Spec
    /\ WF_vars(\E f \in Files : LoadFile(f))
    /\ WF_vars(UpdateAudioFeeder)

-----------------------------------------------------------------------------
Sample == [position : Int, channel : {"Square1", "Square2", "Triangle", "Noise"}]

TypeOK ==
    /\ unread \subseteq Files
    /\ DOMAIN loadedAudio \subseteq Names
    /\ \A n \in DOMAIN loadedAudio : loadedAudio[n] \in Seq(Sample)
    /\ tickCounter \in BOOLEAN
    /\ slots \in [Slots -> [data : DOMAIN loadedAudio \cup {None}, nextNote : Nat \ {0},
                            time : Nat, priority : {Low, Medium, High}]]
    /\ \A s \in Slots : slots[s].data # None =>
          slots[s].nextNote \in 1..(Len(loadedAudio[slots[s].data]) + 1)
    /\ sent \in Seq([stream : {"Square1", "Triangle", "Noise"},
                     priority : {Low, Medium, High}, slot : Slots, sample : Nat])

\* The three effect slots always hold the same effect at the same sample: the
\* pool (AudioLoader.cpp:27,149) plays one effect at a time.
Lockstep == \A s, t \in SfxSlots : slots[s] = slots[t]

Sorted(track) ==
    \A i, j \in DOMAIN track : i < j => track[i].position <= track[j].position

\* AudioLoader.cpp:44-49 means to refuse a file whose samples are out of order.
LoadedSorted == \A n \in DOMAIN loadedAudio : Sorted(loadedAudio[n])

\* Every tick sends the samples of its time: of no track one whose time has not
\* come, the tick that ends the track included, and of a sorted track exactly those
\* between the tick before and this one (the first tick sends all up to it), so
\* that none is late, left out or sent in two ticks.
SentOnTime ==
    [][\A s \in Slots : UpdateAudioFeeder /\ tickCounter /\ slots[s].data # None =>
          LET track == loadedAudio[slots[s].data]
              t == slots[s].time
              now == {sent'[i].sample : i \in {i \in DOMAIN sent' : sent'[i].slot = s}}
          IN  /\ \A n \in now : track[n].position <= t + 1
              /\ Sorted(track) =>
                    now = {n \in DOMAIN track :
                              track[n].position <= t + 1 /\ (t = 0 \/ track[n].position > t)}]_vars

\* One call sends music before effects, and all effects with one priority: so
\* SetNote, which lets equals and betters replace, ends with the note that
\* matters most on every stream.
SendsRise ==
    \A i, j \in DOMAIN sent : i < j => sent[i].priority <= sent[j].priority

\* The effect slots become free again, however many effects are asked for.
SfxEnds == slots[1].priority # Low ~> slots[1].priority = Low

\* The slots as one player; "split" if they should ever differ.
Player(f(_)) == IF Lockstep THEN f(slots[1]) ELSE "split"

DataOf(slot) == slot.data
RankOf(slot) == slot.priority
LeftOf(slot) ==
    IF slot.data = None THEN 0 ELSE Len(loadedAudio[slot.data]) + 1 - slot.nextNote

OnePlayer == INSTANCE SfxPlayer
    WITH Idle <- None, Ranks <- {Medium, High},
         library <- [n \in DOMAIN loadedAudio |-> Len(loadedAudio[n])],
         track <- Player(DataOf), rank <- Player(RankOf), left <- Player(LeftOf)

\* The slots 1..3, taken together, behave as one player of effects.
PlaysOneEffect == OnePlayer!Spec
=============================================================================
