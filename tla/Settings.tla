------------------------------- MODULE Settings -------------------------------
(***************************************************************************)
(* src/one/main.cpp, LoadGlobals and SaveGlobals: the settings the game    *)
(* reads from Settings.ini when it starts, lets scripts change, and writes *)
(* back when it ends.  The file is the sequence of its tokens, which is    *)
(* all that operator>> sees of it; a file that is not there reads like an  *)
(* empty one.  LoadCommand is one round of the reading loop.               *)
(***************************************************************************)
EXTENDS Integers, Sequences, SequencesExt

\* What operator>> gives where nothing is left to read.
NoWord == ""

CONSTANTS
    Buttons,     \* the names of the buttons, in the order they are saved
    Keys,        \* the keys that have a name
    Unknown,     \* the key code of all others
    NameOf,      \* InputMapper's k2S; s2K is its inverse
    Numerals,    \* words that begin with a number
    TooBig,      \* words that begin with a number no float can hold
    ValueOf,     \* what operator>> makes of such a word: the number, or the largest float
    RestOf,      \* the end of a word that operator>> leaves after the number
    Written,     \* the text operator<< makes of a float, to six digits
    Settable,    \* the volumes scripts set
    DefaultKeys, \* keyBinding as it is compiled in
    EditedFiles, \* what the player may make of the file
    Debris       \* what may stand in it from the name of an unnamed key on

ASSUME NamesAssumption ==
    /\ NameOf \in [Keys -> STRING]
    /\ \A k, l \in Keys : NameOf[k] = NameOf[l] => k = l
    /\ \A k \in Keys : NameOf[k] # NoWord
    /\ Unknown \notin Keys

ASSUME ButtonsAssumption ==
    /\ Buttons \in Seq(STRING)
    /\ \A i, j \in DOMAIN Buttons : Buttons[i] = Buttons[j] => i = j
    /\ \A i \in DOMAIN Buttons : Buttons[i] # NoWord
    /\ DefaultKeys \in [ToSet(Buttons) -> Keys]

Volumes == {ValueOf[t] : t \in Numerals \cup TooBig} \cup Settable \cup {0, 100}

\* What is written of a volume reads as a number, with nothing after it.  The
\* volumes scripts set are whole numbers, which six digits give exactly.
ASSUME NumbersAssumption ==
    /\ NoWord \notin Numerals \cup TooBig
    /\ Numerals \cap TooBig = {}
    /\ Settable \subseteq 0 .. 100
    /\ \A v \in Volumes : Written[v] \in Numerals /\ RestOf[Written[v]] = NoWord
    /\ \A v \in Settable : ValueOf[Written[v]] = v

ASSUME DebrisAssumption == Debris \subseteq Seq(STRING)

VARIABLES
    phase,    \* "off", "load", "loaded", "run", "save"
    settings, \* the globals
    pos,      \* the token LoadGlobals reads next
    rest,     \* what a number has left of that token, if anything
    failed,   \* its stream has failed
    file,     \* Settings.ini
    text,     \* what SaveGlobals has written but not flushed
    \* history
    saved,    \* the settings the file was written from, if it is whole
    origin    \* what the file is: "save", "cut", "garbled" or "edit"

memory == <<settings, pos, rest, failed>>
vars == <<phase, memory, file, text, saved, origin>>

Default == [fullScreen |-> FALSE, aspect |-> "x11", volume |-> 100, key |-> DefaultKeys]

-----------------------------------------------------------------------------
(* LoadGlobals *)

Token(i) ==
    IF failed \/ i \notin DOMAIN file THEN NoWord
    ELSE IF i = pos /\ rest # NoWord THEN rest ELSE file[i]

Aspects == {"x11", "x34", "xany"}

AspectText == [x11 |-> "1x1", x34 |-> "3x4", xany |-> "Any"]

\* Mutant: the aspect is looked for under the name the options screen shows.
AspectOfScreen(t, old) ==
    IF \E a \in Aspects : [AspectText EXCEPT !.x34 = "4x3"][a] = t
    THEN CHOOSE a \in Aspects : [AspectText EXCEPT !.x34 = "4x3"][a] = t ELSE old

AspectOf(t, old) ==
    IF \E a \in Aspects : AspectText[a] = t THEN CHOOSE a \in Aspects : AspectText[a] = t ELSE old

ReadFullScreen ==
    /\ settings' = [settings EXCEPT !.fullScreen = @ \/ Token(pos + 1) \in {"true", "1"}]
    /\ pos' = pos + 2
    /\ rest' = NoWord
    /\ UNCHANGED <<phase, failed>>

ReadAspect ==
    /\ settings' = [settings EXCEPT !.aspect = AspectOf(Token(pos + 1), @)]
    /\ pos' = pos + 2
    /\ rest' = NoWord
    /\ UNCHANGED <<phase, failed>>

\* A number is read as far as it goes, and what follows it in its word is the
\* next word.  One that no float can hold gives the largest float and fails the
\* stream; what is no number fails it too, and gives 0 or leaves the volume, as
\* the library has it; at the end of the file the volume stays.
ReadVolume ==
    LET t == Token(pos + 1)
    IN  /\ IF t \in Numerals /\ RestOf[t] # NoWord
           THEN pos' = pos + 1 /\ rest' = RestOf[t]
           ELSE pos' = pos + 2 /\ rest' = NoWord
        /\ failed' = (t \notin Numerals)
        /\ \/ /\ t \in Numerals \cup TooBig
              /\ settings' = [settings EXCEPT !.volume = ValueOf[t]]
           \/ t \notin Numerals \cup TooBig /\ UNCHANGED settings
           \/ t \notin Numerals \cup TooBig /\ t # NoWord /\ settings' = [settings EXCEPT !.volume = 0]
        /\ UNCHANGED phase

KeysNamed(t) == {k \in Keys : NameOf[k] = t}

\* Mutant: a key that has no name keeps the button without a key.
BindsUnchecked(b, t) == b \in ToSet(Buttons)

Binds(b, t) == b \in ToSet(Buttons) /\ KeysNamed(t) # {}

\* Mutant: what throws gives up the settings read so far.
ReadKeyBindOrNothing ==
    LET b == Token(pos + 1)
        t == Token(pos + 2)
    IN  /\ IF Binds(b, t)
           THEN /\ settings' = [settings EXCEPT !.key[b] = CHOOSE k \in KeysNamed(t) : TRUE]
                /\ UNCHANGED phase
           ELSE phase' = "loaded" /\ settings' = Default
        /\ pos' = pos + 3
        /\ rest' = NoWord
        /\ UNCHANGED failed

\* An unknown button or key throws, which ends the reading.
ReadKeyBind ==
    LET b == Token(pos + 1)
        t == Token(pos + 2)
    IN  /\ IF Binds(b, t)
           THEN /\ settings' = [settings EXCEPT !.key[b] =
                        IF KeysNamed(t) = {} THEN Unknown ELSE CHOOSE k \in KeysNamed(t) : TRUE]
                /\ UNCHANGED phase
           ELSE phase' = "loaded" /\ UNCHANGED settings
        /\ pos' = pos + 3
        /\ rest' = NoWord
        /\ UNCHANGED failed

\* Mutant: what is no command is skipped until the end of the file.
SkipCommand ==
    /\ phase' = IF pos \in DOMAIN file THEN "load" ELSE "loaded"
    /\ pos' = IF failed THEN pos ELSE pos + 1
    /\ rest' = NoWord
    /\ UNCHANGED <<settings, failed>>

\* Anything that is no command, the empty token of an exhausted or failed
\* stream included, ends the loop.
LastCommand ==
    /\ phase' = "loaded"
    /\ UNCHANGED memory

LoadCommand ==
    /\ phase = "load"
    /\ CASE Token(pos) = "FullScreen" -> ReadFullScreen
         [] Token(pos) = "AspectRatio" -> ReadAspect
         [] Token(pos) = "KeyBind" -> ReadKeyBind
         [] Token(pos) = "Volume" -> ReadVolume
         [] OTHER -> LastCommand
    /\ UNCHANGED <<file, text, saved, origin>>

-----------------------------------------------------------------------------
(* The program's life *)

\* The process ends and its memory with it.
Gone == phase' = "off" /\ settings' = Default /\ pos' = 1 /\ rest' = NoWord /\ failed' = FALSE

Begin ==
    /\ phase = "off"
    /\ phase' = "load"
    /\ UNCHANGED <<memory, file, text, saved, origin>>

\* CreateWindow gives up a full screen that has no valid mode.
WindowInit ==
    /\ phase = "loaded"
    /\ phase' = "run"
    /\ \E valid \in BOOLEAN : settings' = [settings EXCEPT !.fullScreen = @ /\ valid]
    /\ UNCHANGED <<pos, rest, failed, file, text, saved, origin>>

\* What scripts set.  SQSetVolume takes a whole number and keeps it between 0
\* and 100, and a press can bind any key, one without a name included.
Change ==
    /\ phase = "run"
    /\ \/ \E v \in BOOLEAN : settings' = [settings EXCEPT !.fullScreen = v]
       \/ \E a \in Aspects : settings' = [settings EXCEPT !.aspect = a]
       \/ \E v \in Settable : settings' = [settings EXCEPT !.volume = v]
       \/ \E b \in ToSet(Buttons), k \in Keys \cup {Unknown} :
              settings' = [settings EXCEPT !.key[b] = k]
    /\ UNCHANGED <<phase, pos, rest, failed, file, text, saved, origin>>

SayingOptions(s) ==
    <<"FullScreen", IF s.fullScreen THEN "true" ELSE "false",
      "AspectRatio", AspectText[s.aspect], "Volume", Written[s.volume]>>

\* Three tokens for each button; a key without a name has nothing to say here.
SayingKeys(s) ==
    LET name(k) == IF k \in Keys THEN NameOf[k] ELSE NoWord
        button(t) == Buttons[(t - 1) \div 3 + 1]
    IN  [t \in 1 .. 3 * Len(Buttons) |->
            CASE t % 3 = 1 -> "KeyBind"
              [] t % 3 = 2 -> button(t)
              [] OTHER -> name(s.key[button(t)])]

Saying(s) == SayingOptions(s) \o SayingKeys(s)

\* Opening the file for writing empties it; it may also fail to open.
OpenForSave ==
    /\ phase = "run"
    /\ \/ /\ phase' = "save"
          /\ file' = <<>>
          /\ text' = Saying(settings)
          /\ saved' = Default
          /\ origin' = "cut"
          /\ UNCHANGED memory
       \/ Gone /\ UNCHANGED <<file, text, saved, origin>>

Named(s) == \A b \in ToSet(Buttons) : s.key[b] \in Keys

\* The text is shorter than the stream's buffer, so close() writes it at once.
CloseSaved ==
    /\ phase = "save"
    /\ Named(settings)
    /\ file' = text
    /\ text' = <<>>
    /\ saved' = settings
    /\ origin' = "save"
    /\ Gone

FirstUnnamed(s, k) ==
    /\ s.key[Buttons[k]] \notin Keys
    /\ \A j \in 1 .. k - 1 : s.key[Buttons[j]] \in Keys

\* For a key without a name the loop follows an iterator past the end, which is
\* undefined.  Where the process comes to write the file at all, what was said
\* before that name is there and anything may follow: a text and the bindings
\* after it, a text that reads as commands, or nothing, when the stream goes bad
\* or the process dies.
CloseUnnamed ==
    /\ phase = "save"
    /\ \E k \in DOMAIN Buttons, d \in Debris :
          FirstUnnamed(settings, k) /\ file' = SubSeq(text, 1, 3 * k + 5) \o d
    /\ text' = <<>>
    /\ saved' = settings
    /\ origin' = "garbled"
    /\ Gone

\* The process may end at any point, SaveGlobals included: a dereference of
\* that iterator may crash it, and then the file has been emptied and is not
\* written.
Die ==
    /\ phase # "off"
    /\ text' = <<>>
    /\ Gone
    /\ UNCHANGED <<file, saved, origin>>

Edit ==
    /\ phase = "off"
    /\ file' \in EditedFiles
    /\ saved' = Default
    /\ origin' = "edit"
    /\ UNCHANGED <<phase, memory, text>>

Init ==
    /\ phase = "off"
    /\ settings = Default
    /\ pos = 1
    /\ rest = NoWord
    /\ failed = FALSE
    /\ file = <<>>
    /\ text = <<>>
    /\ saved = Default
    /\ origin = "cut"

Next ==
    \/ Begin \/ LoadCommand \/ WindowInit \/ Change
    \/ OpenForSave \/ CloseSaved \/ CloseUnnamed \/ Die \/ Edit

Spec == Init /\ [][Next]_vars

FairSpec == Spec /\ WF_vars(LoadCommand)

-----------------------------------------------------------------------------
\* What six digits make of a volume.
Shown(s) == [s EXCEPT !.volume = ValueOf[Written[@]]]

\* What a complete save wrote is what the next start reads, setting by setting,
\* the volume to six digits; a save that was cut off between the opening and the
\* flush, by a key without a name too, leaves the defaults, never a mixture.
RoundTrip ==
    phase = "loaded" =>
        /\ origin = "save" => settings = Shown(saved)
        /\ origin = "cut" => settings = Default

Ends(t, word) == t = word \/ (t \in Numerals /\ RestOf[t] = word)

\* The file gives these words one after the other, at token "from" or later; the
\* first of them may stand right behind a number.
Follows(from, words) ==
    \E i \in DOMAIN file :
        /\ i >= from
        /\ Ends(file[i], words[1])
        /\ i + Len(words) - 1 \in DOMAIN file
        /\ \A j \in DOMAIN words \ {1} : file[i + j - 1] = words[j]

\* What a volume may come out as.
VolumesOf(t) == IF t \in Numerals \cup TooBig THEN {ValueOf[t]} ELSE {0}

\* Each setting is the one of "base" or what the file gives from token "from" on.
Given(base, from) ==
    /\ \A b \in ToSet(Buttons) :
          \/ settings.key[b] = base.key[b]
          \/ settings.key[b] \in Keys /\ Follows(from, <<"KeyBind", b, NameOf[settings.key[b]]>>)
    /\ \/ settings.fullScreen = base.fullScreen
       \/ settings.fullScreen /\ \E t \in {"true", "1"} : Follows(from, <<"FullScreen", t>>)
    /\ \/ settings.aspect = base.aspect
       \/ Follows(from, <<"AspectRatio", AspectText[settings.aspect]>>)
    /\ \/ settings.volume = base.volume
       \/ \E t \in ToSet(file) :
              settings.volume \in VolumesOf(t) /\ Follows(from, <<"Volume", t>>)

\* The settings as far as they are written before button k.
Before(k) ==
    [Shown(saved) EXCEPT !.key = [b \in ToSet(Buttons) |->
        IF \E j \in 1 .. k - 1 : Buttons[j] = b THEN saved.key[b] ELSE DefaultKeys[b]]]

\* When the settings that were saved have a key without a name and the file was
\* written all the same, every setting written before that key is what it was
\* and every other one has its default, but for what the debris from that key
\* on says itself.
LossIsBounded ==
    phase = "loaded" /\ origin = "garbled" =>
        \E k \in DOMAIN Buttons : FirstUnnamed(saved, k) /\ Given(Before(k), 3 * k + 4)

\* Whatever the file holds, each setting has its default or a value the file
\* gives right after the setting's name: the number its word begins with or the
\* largest float for a volume, 0 for one that is no number.
NothingInvented == phase = "loaded" => Given(Default, 1)

\* Reading ends on every file: a stream that fails before its end (a volume that
\* is no number) does not keep the loop on eof() running.
LoadEnds == phase = "load" ~> phase # "load"
=============================================================================
