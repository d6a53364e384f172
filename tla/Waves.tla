-------------------------------- MODULE Waves --------------------------------
(***************************************************************************)
(* src/one/Core/Audio.cpp: the samples that the onGetData of the three     *)
(* wave classes make.  A callback loads the parameters of its note once    *)
(* (AudioStreams models how they get there) and fills a buffer from them   *)
(* and from members that go on from buffer to buffer.  Samples are in      *)
(* units of the square's volume, of the triangle's hight, of the noise's   *)
(* 10000.                                                                  *)
(***************************************************************************)
EXTENDS Integers

CONSTANTS
    SampleRate, \* 44100
    BufferLen,  \* samples of a buffer, 735
    Freqs,      \* the frequencies of notes, any integers
    DefaultWidth, \* of parameters that have none, 100
    Peak,       \* of the triangle, 25000
    TopBit,     \* of the noise register, 0x4000
    ShortBit,   \* the bit of the register that the short mode reads, 0x0040
    Wrap        \* 2^32, where the unsigned counters start anew

ASSUME WavesAssumption ==
    /\ SampleRate \in Nat \ {0}
    /\ BufferLen \in Nat \ {0}
    /\ Freqs \subseteq Int
    /\ DefaultWidth \in Nat
    /\ Peak \in Nat /\ 6 * Peak <= 5 * 32767
    /\ TopBit \in Nat
    /\ ShortBit \in 2..TopBit
    /\ Wrap \in Nat
    /\ DefaultWidth < Wrap /\ SampleRate < Wrap

VARIABLES
    kind,          \* the class of the stream
    note,          \* the parameters of the callback that runs
    i,             \* the samples it has made
    sample,        \* the last one
    time,          \* of a square or triangle
    thisHighWidth, \* of a square
    thisWidth,     \* of a triangle
    entsLeft, registe, noisePos, \* of a noise
    period         \* history: what the period or register bit was made of so far

waveVars == <<kind, note, i, sample, time, thisHighWidth, thisWidth,
              entsLeft, registe, noisePos, period>>

-----------------------------------------------------------------------------
(* The parameters SetNote makes, and what onGetData leaves of them *)

\* Only a square has width 0 for a rest; the others keep the default and are mute.
Width(k, freq) ==
    IF freq > 0 THEN SampleRate \div freq ELSE IF k = "square" THEN 0 ELSE DefaultWidth

\* enum Duty::Type: what the width is divided by.
Duties == {2, 4, 8}

NotesOf(k) ==
    [width : {Width(k, f) : f \in Freqs} \cup {DefaultWidth},
     midWidth : IF k = "square" THEN Duties ELSE {2},
     mute : IF k = "square" THEN {FALSE} ELSE BOOLEAN,
     shortMode : IF k = "noise" THEN BOOLEAN ELSE {FALSE},
     resetRegister : IF k = "noise" THEN BOOLEAN ELSE {FALSE}]

Nothing == [width |-> 0, midWidth |-> 2, made |-> 0, high |-> 0]

WaveInit ==
    /\ kind \in {"square", "triangle", "noise"}
    /\ note \in NotesOf(kind)
    /\ i = BufferLen
    /\ sample = 0
    /\ time = IF kind = "triangle" THEN DefaultWidth ELSE 0
    /\ thisHighWidth = 0
    /\ thisWidth = DefaultWidth
    /\ entsLeft = 0
    /\ registe = 1
    /\ noisePos = 0
    /\ period = Nothing

\* The head of onGetData.  noisePos is a local variable there.
OnGetData ==
    /\ i = BufferLen
    /\ i' = 0
    /\ note' \in NotesOf(kind)
    /\ noisePos' = 0
    /\ registe' = IF note'.resetRegister THEN 1 ELSE registe
    /\ UNCHANGED <<kind, sample, time, thisHighWidth, thisWidth, entsLeft, period>>

\* One more sample belongs to the period, which "new" starts.
Counted(new, high) ==
    IF new THEN [width |-> note.width, midWidth |-> note.midWidth, made |-> 1, high |-> high]
           ELSE [period EXCEPT !.made = @ + 1, !.high = @ + high]

-----------------------------------------------------------------------------
(* SquareWave *)

\* Mutant: the period is over one sample later.
SquareOverLate == time < 0

SquareOver == time <= 0

SquareSample ==
    LET high == IF SquareOver THEN note.width \div note.midWidth ELSE thisHighWidth
    IN  /\ sample' = IF high > 0 THEN 1 ELSE -1
        /\ time' = (IF SquareOver THEN note.width ELSE time) - 1
        /\ thisHighWidth' = high - 1
        /\ period' = Counted(SquareOver, IF high > 0 THEN 1 ELSE 0)
        /\ UNCHANGED <<thisWidth, entsLeft, registe, noisePos>>

-----------------------------------------------------------------------------
(* TriangleWave *)

\* int16_t of a number that fits into 32 bits.
Int16(x) == ((x + 32768) % 65536) - 32768

\* Lerp at num/den, rounding aside.  0/0 is no number, and the conversion of none yields 0.
Lerp(a, b, num, den) == IF den = 0 THEN 0 ELSE Int16(a + ((b - a) * num) \div den)

Quarter == thisWidth \div 4
ThreeQuarters == (thisWidth * 3) \div 4

\* Mutant: a note that has ended is cut off at once.
TriangleOverAtOnce == thisWidth <= time \/ note.mute

TriangleOver == thisWidth <= time

Ramp ==
    CASE TriangleOver -> 0
      [] OTHER ->
         IF time < Quarter THEN Lerp(0, Peak, time, Quarter)
         ELSE IF time < ThreeQuarters
              THEN LET half == thisWidth \div 2
                   IN  Lerp(Peak, -Peak, 2 * time - half, 2 * half)
         ELSE Lerp(-Peak, 0, time - ThreeQuarters, Quarter)

TriangleSample ==
    /\ sample' = Ramp
    /\ IF TriangleOver /\ ~note.mute
       THEN thisWidth' = note.width /\ time' = 1
       ELSE thisWidth' = thisWidth /\ time' = (time + 1) % Wrap
    /\ UNCHANGED <<thisHighWidth, entsLeft, registe, noisePos, period>>

-----------------------------------------------------------------------------
(* NoiseWave *)

\* Of the register under a mask that is one bit.
Bit(mask) == (registe \div mask) % 2

\* Mutant: both modes read bits that the shift has emptied.
FeedbackShifted == IF Bit(2) = Bit(4) THEN 0 ELSE 1

Feedback == IF Bit(1) = Bit(IF note.shortMode THEN ShortBit ELSE 2) THEN 0 ELSE 1

\* The register turns when the counter meets 0, which is decremented afterwards
\* like any other number.
NoiseSample ==
    LET turn == entsLeft = 0
        ents == IF turn THEN note.width ELSE entsLeft
    IN  /\ noisePos' = IF turn THEN Feedback ELSE noisePos
        /\ registe' = IF turn THEN registe \div 2 + Feedback * TopBit ELSE registe
        /\ entsLeft' = (ents - 1) % Wrap
        /\ sample' = IF note.mute THEN 0 ELSE noisePos'
        /\ period' = Counted(turn, noisePos')
        /\ UNCHANGED <<time, thisHighWidth, thisWidth>>

-----------------------------------------------------------------------------
Sample ==
    /\ i < BufferLen
    /\ i' = i + 1
    /\ \/ kind = "square" /\ SquareSample
       \/ kind = "triangle" /\ TriangleSample
       \/ kind = "noise" /\ NoiseSample
    /\ UNCHANGED <<kind, note>>

WaveNext == OnGetData \/ Sample

WaveSpec == WaveInit /\ [][WaveNext]_waveVars

-----------------------------------------------------------------------------
\* Whatever notes replace each other while it is made, and however many buffers
\* it is spread over, a period of the square has the length and the duty of the
\* note it was started with; width 0 (a rest, or more than SampleRate Hz) makes
\* periods of one low sample, so a constant.
PeriodExact ==
    kind = "square" /\ time <= 0 /\ period.made > 0 =>
        /\ period.made = IF period.width = 0 THEN 1 ELSE period.width
        /\ period.high = period.width \div period.midWidth

\* The register is never empty, from where no feedback leads out, and a bit of
\* it lasts as long as the note says that was played when it came.  If that was
\* above SampleRate Hz, the bit lasts Wrap samples (27 hours), whatever notes
\* come after it: entsLeft is the only state SetNote does not renew.
NoiseTurns ==
    kind = "noise" =>
        /\ registe \in 1..(2 * TopBit - 1)
        /\ entsLeft = 0 /\ period.made > 0 =>
              period.made = IF period.width = 0 THEN Wrap ELSE period.width

Jump == IF sample' >= sample THEN sample' - sample ELSE sample - sample'

\* A triangle never clicks: notes that begin, end or replace each other at any
\* sample leave the ramp without a jump of more than one and a half steps, one
\* unit for rounding aside.  Of widths below 8 this is not true: at 6 and 7 the
\* second ramp starts above the range of 16 bits, and from 1 to 3 the last
\* divides by 0.
RampSmooth ==
    [][kind = "triangle" /\ thisWidth >= 8 /\ thisWidth' >= 8 =>
          2 * (Jump - 1) * Quarter <= 3 * Peak]_waveVars
=============================================================================
