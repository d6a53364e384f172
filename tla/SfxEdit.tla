------------------------------- MODULE SfxEdit -------------------------------
(***************************************************************************)
(* src/one/Editors/SFXEdit.cpp: the notes of the sound editor, what is     *)
(* selected of them, its clipboard, its sliders and its playback.  An      *)
(* action is one event of the main loop, or its OnUpdate.  The four        *)
(* channels repeat the same code.                                          *)
(*                                                                         *)
(* A position is ten pixels wide and a unit of length five, so a point is  *)
(* given in units: the note at pos covers 2*pos .. 2*pos+length-1.  mode   *)
(* stands for everything of a note that is chosen by a Cycle.  Where the   *)
(* mouse is, and whether Alt is held, is an input of each event.           *)
(***************************************************************************)
EXTENDS SfxFile, SequencesExt

CONSTANTS
    Channels,      \* those of 1 .. 4 in this instance
    Offered,       \* the values of a channel's Cycle in their order; none for the triangle
    Default,       \* the note a double click makes on a channel, at position 0
    Freqs,         \* what sliders are moved to
    Files,         \* the files of other origin that Load is given
    ScreenWidth,   \* the positions the window shows
    Margin,        \* the units of the window left of the notes, 32
    SliderUnits,   \* those a slider's number covers, counted from the notes, 7 .. 26
    MaxPosition, MaxLength, MaxInputs  \* bounds: of notes, of events but OnUpdate

\* A note of a channel; in the code's map its position is the key.
Note == [pos : Int, length : Int, freq : Int, mode : Int]

ASSUME ChannelsAssumption == Channels \subseteq DOMAIN ChannelOf

ASSUME OfferedAssumption == Offered \in [Channels -> Seq(Int)]

ASSUME DefaultAssumption == Default \in [Channels -> Note]

ASSUME FreqsAssumption == Freqs \subseteq Int

\* What a file holds are numbers; how many there are is not said.
ASSUME FilesAssumption ==
    \A f \in Files :
        /\ f.size \in Int
        /\ f.records \in Seq([position : Int, length : Int, channel : Int, freq : Int, mode : Int])

ASSUME WindowAssumption == Margin \in Nat /\ SliderUnits \subseteq 1 .. Margin

ASSUME BoundsAssumption ==
    ScreenWidth \in Nat /\ MaxPosition \in Nat /\ MaxLength \in Nat /\ MaxInputs \in Nat

VARIABLES
    notes,           \* of each channel: the map, as the set of its notes
    select,          \* of each channel: the selected notes, which are not in notes
    refresh, active, \* of each channel: the sliders must be set; react to the mouse
    widget,          \* of each channel: what the sliders show
    clipBoard,       \* of each channel: the notes copied from it
    currentPos, screenPos, playingStatus, tickCounter, playingStartPos,
    front,           \* what a drag moves: "notes", or "other": a slider or nothing
    selectionOnEdge,
    inputs,
    \* history
    turned,          \* of each channel: the user has moved its sliders since OnUpdate
    pasted,          \* of each channel: a note selected may have come by Paste
    sent,            \* the channels and positions played since PlayStop
    edited           \* positions may have changed since PlayStop

session == <<currentPos, playingStatus, tickCounter, playingStartPos, sent>>
mouse == <<front, selectionOnEdge>>
vars == <<notes, select, refresh, active, widget, clipBoard, session, screenPos, mouse, inputs,
          turned, pasted, edited>>

AtLeast(n, limit) == IF n < limit THEN limit ELSE n

Largest(S) == CHOOSE n \in S : \A m \in S : m <= n

Input == inputs < MaxInputs /\ inputs' = inputs + 1

\* The width of a note in positions, by C's division.
Half(length) == IF length < 0 THEN -((-length) \div 2) ELSE length \div 2

Everything(c) == notes[c] \cup ToSet(select[c])

-----------------------------------------------------------------------------
(* OnUpdate *)

\* Mutant: only what is not selected counts.
EndOfNotes == Largest({0} \cup UNION {{n.pos + Half(n.length) : n \in notes[c]} : c \in Channels})

\* The last note of the map and every selected one are played to their ends.
End ==
    Largest({0} \cup UNION {
        {n.pos + Half(n.length) : n \in {n \in notes[c] : \A m \in notes[c] : m.pos <= n.pos}
                                         \cup ToSet(select[c])} : c \in Channels})

Scrolled(pos, screen) ==
    LET left == IF pos < screen THEN AtLeast(pos - ScreenWidth \div 4, 0) ELSE screen
    IN  IF left + ScreenWidth < pos THEN pos - ScreenWidth + ScreenWidth \div 4 ELSE left

Tick ==
    LET plays == playingStatus /\ tickCounter
        ends == plays /\ End < currentPos
    IN  /\ playingStatus' = (playingStatus /\ ~ends)
        /\ currentPos' = IF ends THEN playingStartPos ELSE IF plays THEN currentPos + 1 ELSE currentPos
        /\ screenPos' = Scrolled(currentPos', screenPos)
        /\ sent' = IF plays
                   THEN sent \cup {<<c, currentPos>> :
                            c \in {c \in Channels : \E n \in Everything(c) : n.pos = currentPos}}
                   ELSE sent

Single(c) == Len(select[c]) = 1

HasCycle(c) == Offered[c] # <<>>

\* The sliders when a note is shown; SetCurrent ignores a value it does not offer.
Showing(c, n) ==
    [freq |-> n.freq, mode |-> IF n.mode \in ToSet(Offered[c]) THEN n.mode ELSE widget[c].mode]

Written(c, n) ==
    [n EXCEPT !.freq = widget[c].freq, !.mode = IF HasCycle(c) THEN widget[c].mode ELSE @]

\* Mutant: the sliders are written before they are refreshed.
WritesBackAlways(c) == Single(c)

WritesBack(c) == Single(c) /\ ~refresh[c]

OnUpdate ==
    /\ Tick
    /\ tickCounter' = ~tickCounter
    /\ select' = [c \in Channels |->
                    IF WritesBack(c) THEN <<Written(c, select[c][1])>> ELSE select[c]]
    /\ widget' = [c \in Channels |->
                    IF Single(c) /\ refresh[c] THEN Showing(c, select[c][1]) ELSE widget[c]]
    /\ active' = [c \in Channels |-> Single(c) /\ (active[c] \/ refresh[c])]
    /\ refresh' = [c \in Channels |-> refresh[c] /\ ~Single(c)]
    /\ turned' = [c \in Channels |-> FALSE]
    /\ UNCHANGED <<notes, clipBoard, playingStartPos, mouse, inputs, pasted, edited>>

-----------------------------------------------------------------------------
(* The mouse on the notes *)

\* Mutant: emplace without the assignment that follows it.
KeptUnder(under, sel) ==
    under \cup {n \in ToSet(sel) : \A m \in under : m.pos # n.pos}

\* The map after the selected notes were put back into it, the last of two at
\* one position staying.
Flattened(under, sel) ==
    {n \in under : \A i \in DOMAIN sel : sel[i].pos # n.pos}
    \cup {sel[i] : i \in {i \in DOMAIN sel : \A j \in DOMAIN sel : j > i => sel[j].pos # sel[i].pos}}

Hit(n, point) == 2 * n.pos <= point /\ point < 2 * n.pos + n.length

AtEnd(n, point) == point = 2 * n.pos + n.length - 1

\* The notes of the map that a click can reach: from the first one on the
\* screen back to one that ended before it, and on to the screen's right edge.
Reachable(c) ==
    {n \in notes[c] :
        /\ n.pos < screenPos + ScreenWidth
        /\ \E first \in notes[c] :
              /\ first.pos >= screenPos
              /\ \A m \in notes[c] : m.pos >= screenPos => first.pos <= m.pos
              /\ \A m \in notes[c] :
                    n.pos < m.pos /\ m.pos <= first.pos => screenPos < m.pos + Half(m.length)}

\* The selected note under a point, 0 for none.
SelectedAt(c, point) == SelectInSeq(select[c], LAMBDA n : Hit(n, point))

\* Mutant: a note is pushed back only if it was not selected.
SavedAnew(taken, hits) ==
    IF hits = {} THEN <<>> ELSE <<CHOOSE n \in hits : \A m \in hits : m.pos <= n.pos>>

\* What CLICKNOTES has in save at its end, <<>> if nothing: -1 stands for no
\* position, so a note there is lost.
Saved(taken, hits) ==
    LET save == IF hits = {} THEN taken
                ELSE <<CHOOSE n \in hits : \A m \in hits : m.pos <= n.pos>>
    IN  IF \E n \in ToSet(save) : n.pos = -1 THEN <<>> ELSE save

\* CLICKNOTES.  late: the point is among the last two pixels of its unit.
ClickNotes(c, point, late, alt) ==
    LET i == SelectedAt(c, point)
        taken == IF i = 0 THEN <<>> ELSE <<select[c][i]>>
        left == IF i = 0 THEN select[c] ELSE RemoveAt(select[c], i)
        hits == IF i # 0 /\ select[c][i].pos # -1 THEN {} ELSE {n \in Reachable(c) : Hit(n, point)}
    IN  /\ notes' = [notes EXCEPT ![c] = IF alt THEN @ \ hits ELSE Flattened(@ \ hits, left)]
        /\ select' = [select EXCEPT ![c] = (IF alt THEN left ELSE <<>>) \o Saved(taken, hits)]
        /\ refresh' = [refresh EXCEPT ![c] = @ \/ hits # {}]
        /\ pasted' = [pasted EXCEPT ![c] = @ /\ hits = {} /\ select'[c] # <<>>]
        /\ selectionOnEdge' =
              (selectionOnEdge \/ (late /\ \E n \in hits \cup ToSet(taken) : AtEnd(n, point)))
        /\ front' = "notes"

\* CREATEDELETE; left of the notes it does nothing.
CreateDelete(c, point) ==
    LET i == SelectedAt(c, point)
    IN  /\ point >= 2 * screenPos
        /\ \/ /\ i # 0
              /\ select' = [select EXCEPT ![c] = RemoveAt(@, i)]
              /\ UNCHANGED <<refresh, pasted>>
           \/ /\ i = 0 /\ point \div 2 <= MaxPosition
              /\ select' = [select EXCEPT ![c] = Append(@, [Default[c] EXCEPT !.pos = point \div 2])]
              /\ refresh' = [refresh EXCEPT ![c] = TRUE]
              /\ pasted' = [pasted EXCEPT ![c] = FALSE]
        /\ edited' = TRUE
        /\ front' = "notes"
        /\ UNCHANGED <<notes, selectionOnEdge>>

\* From the left edge of the window to its right one.
Points == 2 * screenPos - Margin .. 2 * (screenPos + ScreenWidth) - 1

Press ==
    /\ Input
    /\ \E c \in Channels, point \in Points, late, alt \in BOOLEAN : ClickNotes(c, point, late, alt)
    /\ UNCHANGED <<active, widget, clipBoard, session, screenPos, turned, edited>>

DoublePress ==
    /\ Input
    /\ \E c \in Channels, point \in Points : CreateDelete(c, point)
    /\ UNCHANGED <<active, widget, clipBoard, session, screenPos, turned>>

\* A press on neither, or a second one left of the notes.
PressNothing ==
    /\ Input
    /\ front' = "notes"
    /\ UNCHANGED <<notes, select, refresh, active, widget, clipBoard, session, screenPos,
                   selectionOnEdge, turned, pasted, edited>>

Moved(n, by) == [n EXCEPT !.pos = AtLeast(@ + by, 0)]

Stretched(n, by) == [n EXCEPT !.length = AtLeast(@ + by, 1)]

\* The channel is the one the mouse is on now, not the one of the press.
Drag ==
    /\ Input
    /\ front = "notes"
    /\ \E c \in Channels, by \in {-1, 1} :
          /\ by = 1 => \A n \in ToSet(select[c]) : n.pos < MaxPosition /\ n.length < MaxLength
          /\ select' = [select EXCEPT ![c] = [i \in DOMAIN @ |->
                        IF selectionOnEdge THEN Stretched(@[i], by) ELSE Moved(@[i], by)]]
    /\ edited' = TRUE
    /\ UNCHANGED <<notes, refresh, active, widget, clipBoard, session, screenPos, mouse, turned, pasted>>

\* OnUnClick; also when the window loses the focus.
Release ==
    /\ Input
    /\ front' = "other" /\ selectionOnEdge' = FALSE
    /\ UNCHANGED <<notes, select, refresh, active, widget, clipBoard, session, screenPos,
                   turned, pasted, edited>>

-----------------------------------------------------------------------------
(* The sliders *)

Turn(c, value) ==
    /\ active[c]
    /\ widget' = [widget EXCEPT ![c] = value]
    /\ turned' = [turned EXCEPT ![c] = TRUE]

\* A press on a slider, or a drag after it.
Slide ==
    /\ Input
    /\ \E c \in Channels, f \in Freqs : Turn(c, [widget[c] EXCEPT !.freq = f])
    /\ front' = "other"
    /\ UNCHANGED <<notes, select, refresh, active, clipBoard, session, screenPos,
                   selectionOnEdge, pasted, edited>>

Following(c, mode) ==
    LET i == CHOOSE i \in DOMAIN Offered[c] : Offered[c][i] = mode
    IN  Offered[c][IF i = Len(Offered[c]) THEN 1 ELSE i + 1]

CycleClick ==
    /\ Input
    /\ \E c \in Channels : HasCycle(c) /\ Turn(c, [widget[c] EXCEPT !.mode = Following(c, @)])
    /\ front' = "other"
    /\ UNCHANGED <<notes, select, refresh, active, clipBoard, session, screenPos,
                   selectionOnEdge, pasted, edited>>

\* A frequency is typed.  Slider::Click returns false after it, so that OnClick
\* goes on with the press on the slider as with one on the notes of its channel.
TypeFreq ==
    /\ Input
    /\ \E c \in Channels, f \in Freqs, u \in SliderUnits, late, alt \in BOOLEAN :
          /\ Turn(c, [widget[c] EXCEPT !.freq = f])
          /\ ClickNotes(c, 2 * screenPos - u, late, alt)
    /\ UNCHANGED <<active, clipBoard, session, screenPos, edited>>

-----------------------------------------------------------------------------
(* The buttons, which act when they are released *)

ButtonReleased == Input /\ front' = "other" /\ selectionOnEdge' = FALSE

FlattenAll == notes' = [c \in Channels |-> Flattened(notes[c], select[c])]

NoneSelected == [c \in Channels |-> <<>>]

Records ==
    UNION {{[position |-> n.pos, length |-> n.length, channel |-> c, freq |-> n.freq, mode |-> n.mode] :
               n \in Flattened(notes[c], select[c])} : c \in Channels}

\* The file Save writes: at each position, from 0, the notes of the channels in
\* order, each channel with those it has up to there.
Earlier(a, b) ==
    LET i == AtLeast(a.position, 0)  j == AtLeast(b.position, 0)
    IN  \/ i < j
        \/ i = j /\ a.channel < b.channel
        \/ i = j /\ a.channel = b.channel /\ a.position < b.position

Encoding ==
    LET all == Records
    IN  [size |-> Cardinality(all),
         records |-> [i \in 1 .. Cardinality(all) |->
                        CHOOSE r \in all : Cardinality({q \in all : Earlier(q, r)}) = i - 1]]

\* The file becomes Encoding, and nothing keeps it here: see Load.
Save ==
    /\ ButtonReleased
    /\ FlattenAll /\ select' = NoneSelected
    /\ UNCHANGED <<refresh, active, widget, clipBoard, session, screenPos, turned, pasted, edited>>

\* Load refuses a file by the tests of the console's LoadFile.
Loads(f) == Valid(f)

\* The notes of a channel; of two at one position the first.
NotesOf(f, c) ==
    {[pos |-> f.records[i].position, length |-> f.records[i].length, freq |-> f.records[i].freq,
      mode |-> f.records[i].mode] :
        i \in {i \in 1 .. f.size :
                  /\ f.records[i].channel = c
                  /\ \A j \in 1 .. i - 1 : f.records[j].channel = c =>
                        f.records[j].position # f.records[i].position}}

\* The file may be one of Files or the one just saved; one that is refused
\* changes nothing.
Load ==
    /\ ButtonReleased
    /\ \E f \in Files \cup (IF select = NoneSelected THEN {Encoding} ELSE {}) :
          \/ /\ Loads(f)
             /\ notes' = [c \in Channels |-> NotesOf(f, c)]
             /\ select' = NoneSelected
             /\ currentPos' = 0 /\ screenPos' = 0 /\ playingStatus' = FALSE
          \/ /\ ~Loads(f)
             /\ UNCHANGED <<notes, select, currentPos, screenPos, playingStatus>>
    /\ UNCHANGED <<refresh, active, widget, clipBoard, tickCounter, playingStartPos, sent,
                   turned, pasted, edited>>

Seek ==
    /\ ButtonReleased
    /\ ~playingStatus
    /\ currentPos' \in 0 .. MaxPosition
    /\ UNCHANGED <<notes, select, refresh, active, widget, clipBoard, screenPos, playingStatus,
                   tickCounter, playingStartPos, sent, turned, pasted, edited>>

PlayStop ==
    /\ ButtonReleased
    /\ \/ /\ playingStatus
          /\ currentPos' = playingStartPos
          /\ UNCHANGED playingStartPos
       \/ /\ ~playingStatus
          /\ playingStartPos' = currentPos
          /\ UNCHANGED currentPos
    /\ playingStatus' = ~playingStatus
    /\ sent' = {} /\ edited' = FALSE
    /\ UNCHANGED <<notes, select, refresh, active, widget, clipBoard, screenPos, tickCounter,
                   turned, pasted>>

First(c) == CHOOSE p \in {n.pos : n \in ToSet(select[c])} : \A n \in ToSet(select[c]) : p <= n.pos

\* The selected notes, each channel's counted from its first.
Clip ==
    [c \in Channels |-> [i \in DOMAIN select[c] |-> [select[c][i] EXCEPT !.pos = @ - First(c)]]]

Copy ==
    /\ ButtonReleased
    /\ clipBoard' = IF select = NoneSelected THEN clipBoard ELSE Clip
    /\ UNCHANGED <<notes, select, refresh, active, widget, session, screenPos, turned, pasted, edited>>

Pasted(c) == [i \in DOMAIN clipBoard[c] |-> [clipBoard[c][i] EXCEPT !.pos = @ + currentPos]]

\* refresh is left as it is.
Paste ==
    /\ ButtonReleased
    /\ FlattenAll
    /\ select' = [c \in Channels |-> Pasted(c)]
    /\ pasted' = [c \in Channels |-> Pasted(c) # <<>>]
    /\ edited' = TRUE
    /\ UNCHANGED <<refresh, active, widget, clipBoard, session, screenPos, turned>>

-----------------------------------------------------------------------------
Init ==
    /\ notes = [c \in Channels |-> {}] /\ select = NoneSelected
    /\ refresh = [c \in Channels |-> FALSE] /\ active = refresh
    /\ widget = [c \in Channels |->
                    [freq |-> Default[c].freq, mode |-> IF HasCycle(c) THEN Offered[c][1] ELSE 0]]
    /\ clipBoard = NoneSelected
    /\ currentPos = 0 /\ screenPos = 0 /\ playingStatus = FALSE /\ tickCounter = FALSE
    /\ playingStartPos = 0
    /\ front = "other" /\ selectionOnEdge = FALSE
    /\ inputs = 0
    /\ turned = refresh /\ pasted = refresh /\ sent = {} /\ edited = FALSE

Next ==
    \/ OnUpdate
    \/ Press \/ DoublePress \/ PressNothing \/ Drag \/ Release
    \/ Slide \/ CycleClick \/ TypeFreq
    \/ Save \/ Load \/ Seek \/ PlayStop \/ Copy \/ Paste

Spec == Init /\ [][Next]_vars

-----------------------------------------------------------------------------
\* What a Cycle does not offer it cannot keep.
Kept(c, n, m) ==
    IF HasCycle(c) /\ n.mode \notin ToSet(Offered[c]) THEN m = [n EXCEPT !.mode = m.mode] ELSE m = n

\* OnUpdate rewrites a selected note only if the user has moved its sliders: for
\* everything else the sliders show the note, or are about to.  Paste is the
\* exception the code makes.
UpdateKeeps ==
    [][ \A c \in Channels :
          /\ Len(select'[c]) = Len(select[c]) /\ ~turned[c] /\ ~pasted[c]
          /\ \E i \in DOMAIN select[c] : ~Kept(c, select[c][i], select'[c][i])
          => ~OnUpdate ]_vars

\* No other note of the channel lies at its position or covers a part of it.
Alone(c, n) ==
    /\ n.pos # -1
    /\ \A i, j \in DOMAIN select[c] : select[c][i] = n /\ select[c][j] = n => i = j
    /\ n \notin notes[c] \/ n \notin ToSet(select[c])
    /\ \A m \in Everything(c) \ {n} :
          m.pos # n.pos /\ (2 * m.pos + m.length <= 2 * n.pos \/ 2 * n.pos + n.length <= 2 * m.pos)

\* However notes go back and forth between the map and the selection, a note
\* that lies alone stays where and what it is, until it is deleted, dragged or
\* written by its sliders, or another file is loaded; clicks, saving and pasting
\* do not lose it.
NothingLost ==
    [][ (\E c \in Channels : \E n \in Everything(c) :
            n \notin notes'[c] \cup ToSet(select'[c]) /\ Alone(c, n))
        => DoublePress \/ Drag \/ OnUpdate \/ Load ]_vars

\* Which of the selected notes lie at a position.
SelectedOn(c, p) == {i \in DOMAIN select[c] : select[c][i].pos = p}

\* What OnUpdate plays at a position: the first note selected there, else the
\* map's.
Played(c, p) ==
    IF SelectedOn(c, p) = {} THEN {n \in notes[c] : n.pos = p}
    ELSE {select[c][i] : i \in {i \in SelectedOn(c, p) : \A j \in SelectedOn(c, p) : i <= j}}

\* What counts at a position: the last note selected there, else the map's.
Latest(c, p) ==
    IF SelectedOn(c, p) = {} THEN {n \in notes[c] : n.pos = p}
    ELSE {select[c][Largest(SelectedOn(c, p))]}

\* Saved at any moment, with anything selected, the file is taken by editor and
\* console; it has its records in the order of time but for those before 0; and
\* at every position the editor reads back the one note that counts there.  That
\* is what was played, but where several notes are selected at one position:
\* there OnUpdate plays the first and Save keeps the last.
SaveReadsBack ==
    LET f == Encoding
    IN  /\ Loads(f) /\ Valid(f)
        /\ \A i, j \in 1 .. f.size :
              i < j => f.records[i].position <= AtLeast(f.records[j].position, 0)
        /\ \A c \in Channels : \A p \in {n.pos : n \in Everything(c) \cup NotesOf(f, c)} :
              LET back == {n \in NotesOf(f, c) : n.pos = p}
              IN  /\ back = Latest(c, p)
                  /\ back # Played(c, p) => Cardinality(SelectedOn(c, p)) > 1

\* Playback that ends by itself has played at every position that has a note,
\* from where it began, be the notes selected or not and whenever they became so,
\* unless a file has brought one of a length below 0, behind which it stops too
\* early.
PlaysAll ==
    [][ ( /\ playingStatus /\ ~playingStatus' /\ ~edited /\ OnUpdate
          /\ \A c \in Channels : \A n \in Everything(c) : n.length >= 0 )
        => \A c \in Channels : \A n \in Everything(c) :
              n.pos >= playingStartPos => <<c, n.pos>> \in sent ]_vars
=============================================================================
