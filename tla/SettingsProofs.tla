---------------------------- MODULE SettingsProofs ----------------------------
(* Theorems about Settings, for any number of buttons and keys, any numbers   *)
(* and any files a player may have made.                                      *)
EXTENDS Settings, SequenceTheorems, TLAPS

N == Len(Buttons)

Globals ==
    [fullScreen : BOOLEAN, aspect : Aspects, volume : Volumes,
     key : [ToSet(Buttons) -> Keys \cup {Unknown}]]

Origins == {"save", "garbled", "cut", "edit"}

TypeInv ==
    /\ phase \in {"off", "load", "loaded", "run", "save"}
    /\ settings \in Globals /\ saved \in Globals
    /\ pos \in Nat \ {0} /\ failed \in BOOLEAN
    /\ origin \in Origins
    /\ phase = "off" => settings = Default /\ pos = 1 /\ rest = NoWord /\ failed = FALSE

\* What a number has left is the end of the word the reading stands at.
RestInv == phase = "load" /\ rest # NoWord => pos \in DOMAIN file /\ Ends(file[pos], rest)

\* What the file holds, by how it came about.
FileInv ==
    /\ origin = "save" => file = Saying(saved) /\ Named(saved)
    /\ origin = "garbled" =>
          \E k \in 1 .. N, d \in Debris :
              FirstUnnamed(saved, k) /\ file = SubSeq(Saying(saved), 1, 3 * k + 5) \o d
    /\ origin = "cut" => file = <<>>
    /\ phase = "save" => text = Saying(settings)

\* The volume that was saved, as it is read.
Volume == ValueOf[Written[saved.volume]]

\* Settings of which only options were read.
Options(f, a, v) == [fullScreen |-> f, aspect |-> a, volume |-> v, key |-> DefaultKeys]

\* The saved settings as far as they were read: all options and k buttons.
Mixed(k) ==
    [fullScreen |-> saved.fullScreen, aspect |-> saved.aspect, volume |-> Volume,
     key |-> [b \in ToSet(Buttons) |->
                 IF \E j \in 1 .. k : Buttons[j] = b THEN saved.key[b] ELSE DefaultKeys[b]]]

\* The first k buttons are saved with keys that have names.
NamedTo(k) == \A j \in 1 .. k : saved.key[Buttons[j]] \in Keys

\* The reading of a written file stands between two of its commands.
Between(k) == pos = 7 + 3 * k /\ settings = Mixed(k) /\ NamedTo(k)

\* Nothing but what was saved has been read.
Within ==
    /\ failed = FALSE /\ rest = NoWord
    /\ \/ pos = 1 /\ settings = Default
       \/ pos = 3 /\ settings = Options(saved.fullScreen, Default.aspect, Default.volume)
       \/ pos = 5 /\ settings = Options(saved.fullScreen, saved.aspect, Default.volume)
       \/ \E k \in 0 .. N : Between(k)

\* The reading has come to what follows the key without a name.
Beyond ==
    \E k \in 1 .. N : FirstUnnamed(saved, k) /\ pos >= 3 * k + 4 /\ Given(Before(k), 3 * k + 4)

LoadInv ==
    phase = "load" =>
        /\ origin = "save" => Within
        /\ origin = "garbled" => Within \/ Beyond

LoadedInv ==
    phase = "loaded" =>
        /\ origin = "save" => settings = Shown(saved)
        /\ origin = "garbled" => \E k \in 1 .. N : FirstUnnamed(saved, k) /\ Given(Before(k), 3 * k + 4)

CutInv == phase \in {"load", "loaded"} /\ origin = "cut" => settings = Default

-----------------------------------------------------------------------------
(* What is written *)

LEMMA ButtonFacts ==
    /\ N \in Nat /\ DOMAIN Buttons = 1 .. N
    /\ \A i \in 1 .. N : Buttons[i] \in ToSet(Buttons)
    /\ \A i, j \in 1 .. N : Buttons[i] = Buttons[j] => i = j
<1>1. Buttons \in Seq(STRING)
  BY ButtonsAssumption
<1>2. N \in Nat /\ DOMAIN Buttons = 1 .. N
  BY <1>1, LenProperties DEF N
<1> QED
  BY <1>2, ButtonsAssumption DEF ToSet

LEMMA DefaultTyped == Default \in Globals
<1>1. DefaultKeys \in [ToSet(Buttons) -> Keys \cup {Unknown}]
  BY ButtonsAssumption
<1>2. 100 \in Volumes
  BY DEF Volumes
<1> QED
  BY <1>1, <1>2 DEF Default, Globals, Aspects

Name(s, i) == IF s.key[Buttons[i]] \in Keys THEN NameOf[s.key[Buttons[i]]] ELSE NoWord

LEMMA SayingTokens ==
    ASSUME NEW s \in Globals
    PROVE  /\ DOMAIN Saying(s) = 1 .. (6 + 3 * N)
           /\ Saying(s)[1] = "FullScreen"
           /\ Saying(s)[2] = IF s.fullScreen THEN "true" ELSE "false"
           /\ Saying(s)[3] = "AspectRatio" /\ Saying(s)[4] = AspectText[s.aspect]
           /\ Saying(s)[5] = "Volume" /\ Saying(s)[6] = Written[s.volume]
           /\ \A i \in 1 .. N :
                 /\ Saying(s)[3 * i + 4] = "KeyBind"
                 /\ Saying(s)[3 * i + 5] = Buttons[i]
                 /\ Saying(s)[3 * i + 6] = Name(s, i)
<1> DEFINE o == SayingOptions(s)
           f == SayingKeys(s)
           B(t) == Buttons[(t - 1) \div 3 + 1]
           T(t) == CASE t % 3 = 1 -> "KeyBind"
                     [] t % 3 = 2 -> B(t)
                     [] OTHER -> IF s.key[B(t)] \in Keys THEN NameOf[s.key[B(t)]] ELSE NoWord
           All == {o[i] : i \in 1 .. 6} \cup {f[t] : t \in 1 .. (3 * N)}
<1>1. N \in Nat
  BY ButtonFacts
<1>2. f = [t \in 1 .. (3 * N) |-> T(t)]
  BY DEF SayingKeys, N
<1>3. f \in Seq(All) /\ Len(f) = 3 * N
  <2>1. 3 * N \in Nat
    BY <1>1
  <2>2. f \in [1 .. (3 * N) -> All]
    BY <1>2
  <2> HIDE DEF f, All
  <2> QED
    BY <2>1, <2>2
<1>4. o \in Seq(All) /\ Len(o) = 6
  <2>1. \A i \in 1 .. 6 : o[i] \in All
    OBVIOUS
  <2>2. o \in Seq(All) /\ Len(o) = 6
    BY <2>1 DEF SayingOptions
  <2> QED
    BY <2>2
<1>5. Saying(s) = o \o f
  BY DEF Saying
<1> HIDE DEF All, f, T
<1>6. /\ Len(o \o f) = 6 + 3 * N
      /\ \A i \in 1 .. (6 + 3 * N) : (o \o f)[i] = IF i <= 6 THEN o[i] ELSE f[i - 6]
      /\ DOMAIN (o \o f) = 1 .. (6 + 3 * N)
  <2> HIDE DEF o
  <2>1. o \o f \in Seq(All) /\ Len(o \o f) = Len(o) + Len(f)
        /\ \A i \in 1 .. Len(o) + Len(f) : (o \o f)[i] = IF i <= Len(o) THEN o[i] ELSE f[i - Len(o)]
    BY <1>3, <1>4, ConcatProperties
  <2> QED
    BY <1>3, <1>4, <2>1, LenProperties
<1>7. \A i \in 1 .. 6 : Saying(s)[i] = o[i]
  <2> HIDE DEF o
  <2> QED
    BY <1>1, <1>5, <1>6
<1>8. \A t \in 1 .. (3 * N) : Saying(s)[t + 6] = T(t)
  <2> SUFFICES ASSUME NEW t \in 1 .. (3 * N)
               PROVE  Saying(s)[t + 6] = T(t)
    OBVIOUS
  <2>1. t + 6 \in 1 .. (6 + 3 * N) /\ ~(t + 6 <= 6) /\ (t + 6) - 6 = t
    BY <1>1
  <2> HIDE DEF o
  <2>2. (o \o f)[t + 6] = f[t]
    BY <1>6, <2>1
  <2> QED
    BY <1>2, <1>5, <2>2
<1>9. ASSUME NEW i \in 1 .. N
      PROVE  /\ Saying(s)[3 * i + 4] = "KeyBind"
             /\ Saying(s)[3 * i + 5] = Buttons[i]
             /\ Saying(s)[3 * i + 6] = Name(s, i)
  <2> DEFINE a == 3 * i - 2
             b == 3 * i - 1
             c == 3 * i
  <2>1. /\ a \in 1 .. (3 * N) /\ a + 6 = 3 * i + 4 /\ a % 3 = 1
        /\ b \in 1 .. (3 * N) /\ b + 6 = 3 * i + 5 /\ b % 3 = 2 /\ (b - 1) \div 3 + 1 = i
        /\ c \in 1 .. (3 * N) /\ c + 6 = 3 * i + 6 /\ c % 3 = 0 /\ (c - 1) \div 3 + 1 = i
    BY <1>1
  <2> HIDE DEF a, b, c
  <2>2. Saying(s)[a + 6] = "KeyBind"
    BY <1>8, <2>1 DEF T
  <2>3. Saying(s)[b + 6] = Buttons[i]
    BY <1>8, <2>1 DEF T
  <2>4. Saying(s)[c + 6] = Name(s, i)
    BY <1>8, <2>1 DEF T, Name
  <2> QED
    BY <2>1, <2>2, <2>3, <2>4
<1>10. /\ o[1] = "FullScreen" /\ o[2] = IF s.fullScreen THEN "true" ELSE "false"
       /\ o[3] = "AspectRatio" /\ o[4] = AspectText[s.aspect]
       /\ o[5] = "Volume" /\ o[6] = Written[s.volume]
  BY DEF SayingOptions
<1> HIDE DEF o
<1>11. DOMAIN Saying(s) = 1 .. (6 + 3 * N)
  BY <1>5, <1>6
<1> QED
  BY <1>7, <1>9, <1>10, <1>11

LEMMA AspectReads ==
    ASSUME NEW a \in Aspects, NEW old
    PROVE  AspectOf(AspectText[a], old) = a
<1>1. \A b \in Aspects : AspectText[b] = AspectText[a] => b = a
  BY DEF Aspects, AspectText
<1> QED
  BY <1>1 DEF AspectOf

LEMMA AspectTyped ==
    ASSUME NEW t, NEW old \in Aspects
    PROVE  AspectOf(t, old) \in Aspects
  BY DEF AspectOf

LEMMA KeyReads ==
    ASSUME NEW k \in Keys
    PROVE  KeysNamed(NameOf[k]) = {k}
  BY NamesAssumption DEF KeysNamed

LEMMA WithKey ==
    ASSUME NEW f, NEW a, NEW v, NEW m, NEW b, NEW k
    PROVE  [[fullScreen |-> f, aspect |-> a, volume |-> v, key |-> m] EXCEPT !.key[b] = k]
               = [fullScreen |-> f, aspect |-> a, volume |-> v, key |-> [m EXCEPT ![b] = k]]
  OBVIOUS

\* A button more is read.
LEMMA MixedGrows ==
    ASSUME saved \in Globals, NEW k \in 0 .. N, k < N
    PROVE  Mixed(k + 1) =
               [fullScreen |-> saved.fullScreen, aspect |-> saved.aspect, volume |-> Volume,
                key |-> [Mixed(k).key EXCEPT ![Buttons[k + 1]] = saved.key[Buttons[k + 1]]]]
<1> DEFINE b == Buttons[k + 1]
           ka == Mixed(k).key
           kb == Mixed(k + 1).key
<1>1. k \in Nat /\ k + 1 \in 1 .. N /\ b \in ToSet(Buttons)
  BY ButtonFacts
<1>2. \A c \in ToSet(Buttons) :
         (\E j \in 1 .. (k + 1) : Buttons[j] = c) <=> (\E j \in 1 .. k : Buttons[j] = c) \/ b = c
  <2> SUFFICES ASSUME NEW c \in ToSet(Buttons)
               PROVE  (\E j \in 1 .. (k + 1) : Buttons[j] = c)
                          <=> (\E j \in 1 .. k : Buttons[j] = c) \/ b = c
    OBVIOUS
  <2>1. 1 .. (k + 1) = (1 .. k) \cup {k + 1}
    BY <1>1
  <2> QED
    BY <2>1
<1>3. \A c \in ToSet(Buttons) : kb[c] = IF c = b THEN saved.key[b] ELSE ka[c]
  BY <1>2 DEF Mixed
<1>4. kb = [ka EXCEPT ![b] = saved.key[b]]
  <2>1. kb = [c \in ToSet(Buttons) |-> kb[c]] /\ ka = [c \in ToSet(Buttons) |-> ka[c]]
    BY DEF Mixed
  <2> DEFINE v == saved.key[b]
             with == [c \in ToSet(Buttons) |-> IF c = b THEN v ELSE ka[c]]
  <2>2. b \in ToSet(Buttons)
    BY <1>1
  <2> HIDE DEF ka, kb, b, v
  <2>3. kb = with
    BY <1>3, <2>1 DEF v
  <2>4. [ka EXCEPT ![b] = v] = with
    BY <2>1, <2>2
  <2> QED
    BY <2>3, <2>4 DEF v
<1>5. Mixed(k + 1) = [fullScreen |-> saved.fullScreen, aspect |-> saved.aspect,
                      volume |-> Volume, key |-> kb]
  BY DEF Mixed
<1> HIDE DEF kb
<1> QED
  BY <1>4, <1>5

LEMMA MixedNone ==
    Mixed(0) = Options(saved.fullScreen, saved.aspect, Volume)
<1>1. [b \in ToSet(Buttons) |-> IF \E j \in 1 .. 0 : Buttons[j] = b THEN saved.key[b]
                                                              ELSE DefaultKeys[b]] = DefaultKeys
  <2>1. \A b \in ToSet(Buttons) : ~ \E j \in 1 .. 0 : Buttons[j] = b
    OBVIOUS
  <2>2. DefaultKeys = [b \in ToSet(Buttons) |-> DefaultKeys[b]]
    BY ButtonsAssumption
  <2> QED
    BY <2>1, <2>2
<1> QED
  BY <1>1 DEF Mixed, Options

LEMMA MixedAll ==
    ASSUME saved \in Globals
    PROVE  Mixed(N) = Shown(saved)
<1>1. \A b \in ToSet(Buttons) : \E j \in 1 .. N : Buttons[j] = b
  BY ButtonFacts DEF ToSet
<1>2. saved.key \in [ToSet(Buttons) -> Keys \cup {Unknown}]
  BY DEF Globals
<1>3. [b \in ToSet(Buttons) |-> IF \E j \in 1 .. N : Buttons[j] = b THEN saved.key[b]
                                                              ELSE DefaultKeys[b]] = saved.key
  BY <1>1, <1>2
<1>4. Shown(saved) = [fullScreen |-> saved.fullScreen, aspect |-> saved.aspect,
                      volume |-> Volume, key |-> saved.key]
  BY DEF Globals, Shown, Volume
<1> QED
  BY <1>3, <1>4 DEF Mixed

LEMMA MixedBefore ==
    ASSUME saved \in Globals, NEW k \in 1 .. N
    PROVE  Before(k) = Mixed(k - 1)
<1> DEFINE m == [b \in ToSet(Buttons) |-> IF \E j \in 1 .. k - 1 : Buttons[j] = b
                                          THEN saved.key[b] ELSE DefaultKeys[b]]
<1>1. Before(k) = [Shown(saved) EXCEPT !.key = m]
  BY DEF Before
<1>2. Mixed(k - 1) = [fullScreen |-> saved.fullScreen, aspect |-> saved.aspect,
                      volume |-> Volume, key |-> m]
  BY DEF Mixed
<1>3. Shown(saved) = [fullScreen |-> saved.fullScreen, aspect |-> saved.aspect,
                      volume |-> Volume, key |-> saved.key]
  BY DEF Globals, Shown, Volume
<1> HIDE DEF m
<1> QED
  BY <1>1, <1>2, <1>3

-----------------------------------------------------------------------------
(* Types *)

LEMMA LoadCases ==
    ASSUME LoadCommand
    PROVE  /\ phase = "load" /\ UNCHANGED <<file, text, saved, origin>>
           /\ \/ Token(pos) = "FullScreen" /\ ReadFullScreen
              \/ Token(pos) = "AspectRatio" /\ ReadAspect
              \/ Token(pos) = "KeyBind" /\ ReadKeyBind
              \/ Token(pos) = "Volume" /\ ReadVolume
              \/ /\ Token(pos) \notin {"FullScreen", "AspectRatio", "KeyBind", "Volume"}
                 /\ LastCommand
  BY DEF LoadCommand

LEMMA NumeralVolume ==
    /\ \A t \in Numerals \cup TooBig : ValueOf[t] \in Volumes
    /\ \A v \in Settable : v \in Volumes
    /\ 0 \in Volumes /\ 100 \in Volumes
  BY DEF Volumes

LEMMA WrittenVolume ==
    ASSUME saved \in Globals
    PROVE  /\ Written[saved.volume] \in Numerals /\ RestOf[Written[saved.volume]] = NoWord
           /\ Volume = ValueOf[Written[saved.volume]]
  BY NumbersAssumption DEF Volume, Globals

\* The key a press or a line of the file binds.
LEMMA BoundGlobals ==
    ASSUME settings \in Globals, NEW b \in ToSet(Buttons), NEW k \in Keys \cup {Unknown}
    PROVE  [settings EXCEPT !.key[b] = k] \in Globals
  BY DEF Globals

LEMMA LoadTypes ==
    ASSUME TypeInv, LoadCommand
    PROVE  TypeInv'
<1>1. /\ phase = "load" /\ UNCHANGED <<file, text, saved, origin>>
      /\ settings \in Globals /\ pos \in Nat \ {0} /\ failed \in BOOLEAN
      /\ saved \in Globals /\ origin \in Origins
  BY LoadCases DEF TypeInv
<1>2. CASE ReadFullScreen
  <2>1. [settings EXCEPT !.fullScreen = @ \/ Token(pos + 1) \in {"true", "1"}] \in Globals
    BY <1>1 DEF Globals
  <2> QED
    BY <1>1, <1>2, <2>1 DEF ReadFullScreen, TypeInv
<1>3. CASE ReadAspect
  <2>1. AspectOf(Token(pos + 1), settings.aspect) \in Aspects
    BY <1>1, AspectTyped DEF Globals
  <2>2. [settings EXCEPT !.aspect = AspectOf(Token(pos + 1), @)] \in Globals
    BY <1>1, <2>1 DEF Globals
  <2> QED
    BY <1>1, <1>3, <2>2 DEF ReadAspect, TypeInv
<1>4. CASE ReadKeyBind
  <2> DEFINE b == Token(pos + 1)
             t == Token(pos + 2)
             k == IF KeysNamed(t) = {} THEN Unknown ELSE CHOOSE x \in KeysNamed(t) : TRUE
  <2>1. k \in Keys \cup {Unknown}
    BY DEF KeysNamed
  <2>2. \/ b \in ToSet(Buttons) /\ settings' = [settings EXCEPT !.key[b] = k] /\ phase' = phase
        \/ settings' = settings /\ phase' = "loaded"
    BY <1>4 DEF ReadKeyBind, Binds
  <2>3. settings' \in Globals
    <3> HIDE DEF b, k
    <3> QED
      BY <1>1, <2>1, <2>2, BoundGlobals
  <2>4. pos' = pos + 3 /\ failed' = failed
    BY <1>4 DEF ReadKeyBind
  <2>5. phase' \in {"load", "loaded"}
    BY <1>1, <2>2
  <2> QED
    BY <1>1, <2>3, <2>4, <2>5 DEF TypeInv
<1>5. CASE ReadVolume
  <2>1. settings' = settings \/ \E v \in Volumes : settings' = [settings EXCEPT !.volume = v]
    BY <1>5, NumeralVolume DEF ReadVolume
  <2>2. settings' \in Globals
    BY <1>1, <2>1 DEF Globals
  <2>3. pos' \in {pos + 1, pos + 2} /\ failed' \in BOOLEAN /\ phase' = phase
    BY <1>1, <1>5 DEF ReadVolume
  <2> QED
    BY <1>1, <2>2, <2>3 DEF TypeInv
<1>6. CASE LastCommand
  BY <1>1, <1>6 DEF LastCommand, TypeInv, memory
<1> QED
  BY <1>2, <1>3, <1>4, <1>5, <1>6, LoadCases

LEMMA ChangeTypes ==
    ASSUME settings \in Globals, Change
    PROVE  settings' \in Globals
<1>1. CASE \E v \in BOOLEAN : settings' = [settings EXCEPT !.fullScreen = v]
  BY <1>1 DEF Globals
<1>2. CASE \E a \in Aspects : settings' = [settings EXCEPT !.aspect = a]
  BY <1>2 DEF Globals
<1>3. CASE \E v \in Settable : settings' = [settings EXCEPT !.volume = v]
  <2>1. PICK v \in Volumes : settings' = [settings EXCEPT !.volume = v]
    BY <1>3, NumeralVolume
  <2> QED
    BY <2>1 DEF Globals
<1>4. CASE \E b \in ToSet(Buttons), k \in Keys \cup {Unknown} :
              settings' = [settings EXCEPT !.key[b] = k]
  BY <1>4, BoundGlobals
<1> QED
  BY <1>1, <1>2, <1>3, <1>4 DEF Change

\* A process that has ended left its memory as the next one finds it.
LEMMA GoneTypes ==
    ASSUME Gone, saved' \in Globals, origin' \in Origins
    PROVE  TypeInv'
<1>1. phase' = "off" /\ settings' = Default /\ pos' = 1 /\ rest' = NoWord /\ failed' = FALSE
  BY DEF Gone
<1>2. settings' \in Globals
  BY <1>1, DefaultTyped
<1>3. phase' \in {"off", "load", "loaded", "run", "save"}
  BY <1>1
<1>4. pos' \in Nat \ {0}
  BY <1>1
<1>5. failed' \in BOOLEAN
  BY <1>1
<1> QED
  BY <1>1, <1>2, <1>3, <1>4, <1>5 DEF TypeInv

LEMMA NextTypes == TypeInv /\ [Next]_vars => TypeInv'
<1> SUFFICES ASSUME TypeInv, [Next]_vars
             PROVE  TypeInv'
  OBVIOUS
<1>1. CASE Begin
  BY <1>1 DEF Begin, TypeInv, memory
<1>2. CASE LoadCommand
  BY <1>2, LoadTypes
<1>3. CASE WindowInit
  <2>1. PICK valid \in BOOLEAN : settings' = [settings EXCEPT !.fullScreen = @ /\ valid]
    BY <1>3 DEF WindowInit
  <2>2. settings' \in Globals
    BY <2>1 DEF TypeInv, Globals
  <2> QED
    BY <1>3, <2>2 DEF WindowInit, TypeInv
<1>4. CASE Change
  <2>1. settings' \in Globals
    BY <1>4, ChangeTypes DEF TypeInv
  <2> QED
    BY <1>4, <2>1 DEF Change, TypeInv
<1>5. CASE OpenForSave
  <2>1. CASE phase' = "save" /\ saved' = Default /\ origin' = "cut" /\ UNCHANGED memory
    BY <2>1, DefaultTyped DEF TypeInv, memory, Origins
  <2>2. CASE Gone /\ UNCHANGED <<file, text, saved, origin>>
    BY <2>2, GoneTypes DEF TypeInv
  <2> QED
    BY <1>5, <2>1, <2>2 DEF OpenForSave
<1>6. CASE CloseSaved
  <2>1. saved' = settings /\ origin' \in Origins /\ Gone
    BY <1>6 DEF CloseSaved, Origins
  <2> QED
    BY <2>1, GoneTypes DEF TypeInv
<1>10. CASE CloseUnnamed
  <2>1. saved' = settings /\ origin' \in Origins /\ Gone
    BY <1>10 DEF CloseUnnamed, Origins
  <2> QED
    BY <2>1, GoneTypes DEF TypeInv
<1>7. CASE Die
  <2>1. Gone /\ saved' = saved /\ origin' = origin
    BY <1>7 DEF Die
  <2> QED
    BY <2>1, GoneTypes DEF TypeInv
<1>8. CASE Edit
  BY <1>8, DefaultTyped DEF Edit, TypeInv, memory, Origins
<1>9. CASE UNCHANGED vars
  BY <1>9 DEF vars, memory, TypeInv
<1> QED
  BY <1>1, <1>2, <1>3, <1>4, <1>5, <1>6, <1>7, <1>8, <1>9, <1>10 DEF Next

LEMMA NextFile == TypeInv /\ FileInv /\ [Next]_vars => FileInv'
<1> SUFFICES ASSUME TypeInv, FileInv, [Next]_vars
             PROVE  FileInv'
  OBVIOUS
<1>a. ASSUME UNCHANGED <<file, saved, origin>>, phase' = "save" => text' = Saying(settings')
      PROVE  FileInv'
  <2>1. ASSUME NEW k PROVE FirstUnnamed(saved, k)' = FirstUnnamed(saved, k)
    BY <1>a DEF FirstUnnamed
  <2>2. Named(saved)' = Named(saved) /\ Saying(saved)' = Saying(saved)
    BY <1>a DEF Named, Saying, SayingOptions, SayingKeys
  <2>3. Saying(settings)' = Saying(settings')
    BY DEF Saying, SayingOptions, SayingKeys
  <2> QED
    BY <1>a, <2>1, <2>2, <2>3 DEF FileInv
<1>1. CASE Begin
  BY <1>1, <1>a DEF Begin
<1>2. CASE LoadCommand
  <2>1. phase' \in {"load", "loaded"} /\ UNCHANGED <<file, text, saved, origin>>
    BY <1>2, LoadCases DEF ReadFullScreen, ReadAspect, ReadKeyBind, ReadVolume, LastCommand
  <2> QED
    BY <1>a, <2>1
<1>3. CASE WindowInit
  BY <1>3, <1>a DEF WindowInit
<1>4. CASE Change
  BY <1>4, <1>a DEF Change
<1>5. CASE OpenForSave
  <2>1. CASE /\ phase' = "save" /\ file' = <<>> /\ text' = Saying(settings)
             /\ origin' = "cut" /\ UNCHANGED memory
    <3>1. settings' = settings
      BY <2>1 DEF memory
    <3>2. Saying(settings)' = Saying(settings)
      BY <3>1 DEF Saying, SayingOptions, SayingKeys
    <3> QED
      BY <2>1, <3>2 DEF FileInv
  <2>2. CASE Gone /\ UNCHANGED <<file, text, saved, origin>>
    BY <1>a, <2>2 DEF Gone
  <2> QED
    BY <1>5, <2>1, <2>2 DEF OpenForSave
<1>6. CASE CloseSaved
  <2>1. /\ phase' = "off" /\ file' = Saying(settings) /\ saved' = settings
        /\ origin' = "save" /\ Named(settings)
    BY <1>6 DEF CloseSaved, Gone, FileInv
  <2>2. Named(saved)' = Named(settings) /\ Saying(saved)' = Saying(settings)
    BY <2>1 DEF Named, Saying, SayingOptions, SayingKeys
  <2> QED
    BY <2>1, <2>2 DEF FileInv
<1>7. CASE CloseUnnamed
  <2>1. PICK k \in DOMAIN Buttons, d \in Debris :
           FirstUnnamed(settings, k) /\ file' = SubSeq(text, 1, 3 * k + 5) \o d
    BY <1>7 DEF CloseUnnamed
  <2>2. /\ phase' = "off" /\ saved' = settings /\ origin' = "garbled" /\ text = Saying(settings)
    BY <1>7 DEF CloseUnnamed, Gone, FileInv
  <2>3. Saying(saved)' = Saying(settings)
    BY <2>2 DEF Saying, SayingOptions, SayingKeys
  <2>4. FirstUnnamed(saved, k)'
    BY <2>1, <2>2 DEF FirstUnnamed
  <2>5. k \in 1 .. N
    BY ButtonFacts
  <2>6. file' = SubSeq(Saying(saved)', 1, 3 * k + 5) \o d
    BY <2>1, <2>2, <2>3
  <2> QED
    BY <2>2, <2>4, <2>5, <2>6 DEF FileInv
<1>8. CASE Die
  BY <1>8, <1>a DEF Die, Gone
<1>9. CASE Edit
  BY <1>9 DEF Edit, FileInv
<1>10. CASE UNCHANGED vars
  <2>1. UNCHANGED <<phase, settings, file, text, saved, origin>>
    BY <1>10 DEF vars, memory
  <2>2. phase' = "save" => text' = Saying(settings')
    BY <2>1 DEF FileInv
  <2> QED
    BY <1>a, <2>1, <2>2
<1> QED
  BY <1>1, <1>2, <1>3, <1>4, <1>5, <1>6, <1>7, <1>8, <1>9, <1>10 DEF Next

LEMMA NextRest == TypeInv /\ RestInv /\ [Next]_vars => RestInv'
<1> SUFFICES ASSUME TypeInv, RestInv, [Next]_vars
             PROVE  RestInv'
  OBVIOUS
<1>1. CASE LoadCommand
  <2>1. UNCHANGED file /\ pos \in Nat
    BY <1>1, LoadCases DEF TypeInv
  <2>2. CASE ReadVolume
    <3>1. CASE rest' = NoWord
      BY <3>1 DEF RestInv
    <3>2. CASE rest' # NoWord
      <4>1. Token(pos + 1) \in Numerals /\ pos' = pos + 1 /\ rest' = RestOf[Token(pos + 1)]
        BY <2>2, <3>2 DEF ReadVolume
      <4>2. pos + 1 \in DOMAIN file /\ file[pos + 1] = Token(pos + 1)
        <5>1. Token(pos + 1) # NoWord /\ pos + 1 # pos
          BY <2>1, <4>1, NumbersAssumption
        <5> QED
          BY <5>1 DEF Token
      <4> QED
        BY <2>1, <4>1, <4>2 DEF RestInv, Ends
    <3> QED
      BY <3>1, <3>2
  <2>3. CASE ReadFullScreen \/ ReadAspect \/ ReadKeyBind
    BY <2>3 DEF ReadFullScreen, ReadAspect, ReadKeyBind, RestInv
  <2>4. CASE LastCommand
    BY <2>4 DEF LastCommand, RestInv
  <2> QED
    BY <1>1, <2>2, <2>3, <2>4, LoadCases
<1>2. CASE Begin
  BY <1>2 DEF Begin, TypeInv, RestInv, memory
<1>3. CASE UNCHANGED vars
  <2>1. UNCHANGED <<phase, pos, rest, file>>
    BY <1>3 DEF vars, memory
  <2> QED
    BY <2>1 DEF RestInv, Ends
<1>4. CASE ~Begin /\ ~LoadCommand /\ Next
  <2>1. phase' \in {"off", "run", "save"}
    BY <1>4 DEF Next, WindowInit, Change, OpenForSave, CloseSaved, CloseUnnamed, Die, Edit, Gone
  <2> QED
    BY <2>1 DEF RestInv
<1> QED
  BY <1>1, <1>2, <1>3, <1>4

-----------------------------------------------------------------------------
(* Reading any file *)

KeyGiven(base, from, b) ==
    \/ settings.key[b] = base.key[b]
    \/ settings.key[b] \in Keys /\ Follows(from, <<"KeyBind", b, NameOf[settings.key[b]]>>)

FullScreenGiven(base, from) ==
    \/ settings.fullScreen = base.fullScreen
    \/ settings.fullScreen /\ \E t \in {"true", "1"} : Follows(from, <<"FullScreen", t>>)

AspectGiven(base, from) ==
    \/ settings.aspect = base.aspect
    \/ Follows(from, <<"AspectRatio", AspectText[settings.aspect]>>)

VolumeGiven(base, from) ==
    \/ settings.volume = base.volume
    \/ \E t \in ToSet(file) :
          settings.volume \in VolumesOf(t) /\ Follows(from, <<"Volume", t>>)

LEMMA GivenParts ==
    ASSUME NEW base, NEW from
    PROVE  Given(base, from) <=>
               /\ \A b \in ToSet(Buttons) : KeyGiven(base, from, b)
               /\ FullScreenGiven(base, from) /\ AspectGiven(base, from) /\ VolumeGiven(base, from)
  BY DEF Given, KeyGiven, FullScreenGiven, AspectGiven, VolumeGiven

LEMMA BaseGiven ==
    ASSUME NEW base, NEW from, settings = base
    PROVE  Given(base, from)
  BY DEF Given

\* The end of a file and of a stream gives no command, button or key.
LEMMA NoWordFacts ==
    /\ NoWord # "FullScreen" /\ NoWord # "AspectRatio" /\ NoWord # "KeyBind" /\ NoWord # "Volume"
    /\ NoWord # "true" /\ NoWord # "1"
    /\ NoWord # "1x1" /\ NoWord # "3x4" /\ NoWord # "Any"
  BY Zenon DEF NoWord

LEMMA TokenIsThere ==
    ASSUME RestInv, phase = "load", NEW i, Token(i) # NoWord
    PROVE  i \in DOMAIN file /\ Ends(file[i], Token(i)) /\ (i # pos => file[i] = Token(i))
<1>1. ~failed /\ i \in DOMAIN file /\ Token(i) = IF i = pos /\ rest # NoWord THEN rest ELSE file[i]
  BY DEF Token
<1>2. CASE i = pos /\ rest # NoWord
  BY <1>1, <1>2 DEF RestInv
<1>3. CASE ~(i = pos /\ rest # NoWord)
  BY <1>1, <1>3 DEF Ends
<1> QED
  BY <1>2, <1>3

LEMMA PairFollows ==
    ASSUME NEW p \in Nat, NEW from \in Nat, p >= from, NEW a, NEW b,
           p \in DOMAIN file, p + 1 \in DOMAIN file, Ends(file[p], a), file[p + 1] = b
    PROVE  Follows(from, <<a, b>>)
<1> DEFINE w == <<a, b>>
<1>1. Len(w) = 2 /\ DOMAIN w = 1 .. 2 /\ w[1] = a /\ w[2] = b
  OBVIOUS
<1> HIDE DEF w
<1>2. ASSUME NEW j \in DOMAIN w \ {1}
      PROVE  file[p + j - 1] = w[j]
  <2>1. j = 2 /\ p + 2 - 1 = p + 1
    BY <1>1
  <2> QED
    BY <1>1, <2>1
<1>3. p + Len(w) - 1 \in DOMAIN file
  <2>1. p + 2 - 1 = p + 1
    OBVIOUS
  <2> QED
    BY <1>1, <2>1
<1>4. Ends(file[p], w[1])
  BY <1>1
<1>5. Follows(from, w)
  BY <1>2, <1>3, <1>4 DEF Follows
<1> QED
  BY <1>5 DEF w

LEMMA TripleFollows ==
    ASSUME NEW p \in Nat, NEW from \in Nat, p >= from, NEW a, NEW b, NEW c,
           p \in DOMAIN file, p + 1 \in DOMAIN file, p + 2 \in DOMAIN file,
           Ends(file[p], a), file[p + 1] = b, file[p + 2] = c
    PROVE  Follows(from, <<a, b, c>>)
<1> DEFINE w == <<a, b, c>>
<1>1. Len(w) = 3 /\ DOMAIN w = 1 .. 3 /\ w[1] = a /\ w[2] = b /\ w[3] = c
  OBVIOUS
<1> HIDE DEF w
<1>2. ASSUME NEW j \in DOMAIN w \ {1}
      PROVE  file[p + j - 1] = w[j]
  <2>1. j = 2 \/ j = 3
    BY <1>1
  <2>2. p + 2 - 1 = p + 1 /\ p + 3 - 1 = p + 2
    OBVIOUS
  <2> QED
    BY <1>1, <2>1, <2>2
<1>3. p + Len(w) - 1 \in DOMAIN file
  <2>1. p + 3 - 1 = p + 2
    OBVIOUS
  <2> QED
    BY <1>1, <2>1
<1>4. Ends(file[p], w[1])
  BY <1>1
<1>5. Follows(from, w)
  BY <1>2, <1>3, <1>4 DEF Follows
<1> QED
  BY <1>5 DEF w

LEMMA FollowsPair ==
    ASSUME RestInv, phase = "load", pos \in Nat, NEW from \in Nat, pos >= from,
           Token(pos) # NoWord, Token(pos + 1) # NoWord
    PROVE  Follows(from, <<Token(pos), Token(pos + 1)>>) /\ Token(pos + 1) \in ToSet(file)
<1>1. pos + 1 # pos
  OBVIOUS
<1>2. pos \in DOMAIN file /\ pos + 1 \in DOMAIN file
      /\ Ends(file[pos], Token(pos)) /\ file[pos + 1] = Token(pos + 1)
  BY <1>1, TokenIsThere
<1>3. Token(pos + 1) \in ToSet(file)
  BY <1>2 DEF ToSet
<1> QED
  BY <1>2, <1>3, PairFollows

LEMMA FollowsTriple ==
    ASSUME RestInv, phase = "load", pos \in Nat, NEW from \in Nat, pos >= from,
           Token(pos) # NoWord, Token(pos + 1) # NoWord, Token(pos + 2) # NoWord
    PROVE  Follows(from, <<Token(pos), Token(pos + 1), Token(pos + 2)>>)
<1>1. pos + 1 # pos /\ pos + 2 # pos
  OBVIOUS
<1>2. pos \in DOMAIN file /\ pos + 1 \in DOMAIN file /\ pos + 2 \in DOMAIN file
      /\ Ends(file[pos], Token(pos)) /\ file[pos + 1] = Token(pos + 1) /\ file[pos + 2] = Token(pos + 2)
  BY <1>1, TokenIsThere
<1> QED
  BY <1>2, TripleFollows

\* Each command gives what it sets, and leaves the rest.
LEMMA LoadGives ==
    ASSUME NEW base, NEW from \in Nat, TypeInv, RestInv, Given(base, from), pos >= from, LoadCommand
    PROVE  Given(base, from)' /\ pos' >= from
<1>1. /\ pos \in Nat /\ settings \in Globals /\ phase = "load"
      /\ UNCHANGED <<file, text, saved, origin>>
  BY LoadCases DEF TypeInv
<1>2. ASSUME NEW w PROVE Follows(from, w)' = Follows(from, w)
  BY <1>1 DEF Follows, Ends
<1>3. /\ \A b \in ToSet(Buttons) : KeyGiven(base, from, b)
      /\ FullScreenGiven(base, from) /\ AspectGiven(base, from) /\ VolumeGiven(base, from)
  BY GivenParts
<1>a. pos' >= from
  BY <1>1, LoadCases DEF ReadFullScreen, ReadAspect, ReadKeyBind, ReadVolume, LastCommand, memory
<1>b. ASSUME \A b \in ToSet(Buttons) : KeyGiven(base, from, b)', FullScreenGiven(base, from)',
             AspectGiven(base, from)', VolumeGiven(base, from)'
      PROVE  Given(base, from)' /\ pos' >= from
  BY <1>a, <1>b DEF Given, KeyGiven, FullScreenGiven, AspectGiven, VolumeGiven
<1>4. settings'.fullScreen = settings.fullScreen => FullScreenGiven(base, from)'
  BY <1>2, <1>3 DEF FullScreenGiven
<1>5. settings'.aspect = settings.aspect => AspectGiven(base, from)'
  BY <1>2, <1>3 DEF AspectGiven
<1>6. settings'.volume = settings.volume => VolumeGiven(base, from)'
  <2>1. ToSet(file)' = ToSet(file)
    BY <1>1 DEF ToSet
  <2> QED
    BY <1>2, <1>3, <2>1 DEF VolumeGiven
<1>7. ASSUME NEW b \in ToSet(Buttons), settings'.key[b] = settings.key[b]
      PROVE  KeyGiven(base, from, b)'
  BY <1>2, <1>3, <1>7 DEF KeyGiven
<1>8. CASE Token(pos) = "FullScreen" /\ ReadFullScreen
  <2> DEFINE on == settings.fullScreen \/ Token(pos + 1) \in {"true", "1"}
  <2>1. settings' = [settings EXCEPT !.fullScreen = on]
    BY <1>8 DEF ReadFullScreen
  <2>2. settings'.fullScreen = on /\ settings'.aspect = settings.aspect
        /\ settings'.volume = settings.volume /\ settings'.key = settings.key
    <3> HIDE DEF on
    <3> QED
      BY <1>1, <2>1 DEF Globals
  <2>3. FullScreenGiven(base, from)'
    <3>1. CASE Token(pos + 1) \in {"true", "1"}
      <4>1. Follows(from, <<"FullScreen", Token(pos + 1)>>)
        BY <1>1, <1>8, <3>1, NoWordFacts, FollowsPair
      <4>2. settings'.fullScreen
        BY <2>2, <3>1
      <4>3. PICK t \in {"true", "1"} : t = Token(pos + 1)
        BY <3>1
      <4>4. Follows(from, <<"FullScreen", t>>)'
        BY <1>2, <4>1, <4>3
      <4> QED
        BY <4>2, <4>4 DEF FullScreenGiven
    <3>2. CASE Token(pos + 1) \notin {"true", "1"}
      <4>1. settings.fullScreen \in BOOLEAN
        BY <1>1 DEF Globals
      <4>2. settings'.fullScreen = settings.fullScreen
        <5>1. on = settings.fullScreen
          BY <3>2, <4>1
        <5> QED
          BY <2>2, <5>1
      <4> QED
        BY <1>4, <4>2
    <3> QED
      BY <3>1, <3>2
  <2> QED
    BY <1>5, <1>6, <1>7, <2>2, <2>3, <1>b
<1>9. CASE Token(pos) = "AspectRatio" /\ ReadAspect
  <2> DEFINE a == AspectOf(Token(pos + 1), settings.aspect)
  <2>1. settings' = [settings EXCEPT !.aspect = a]
    BY <1>9 DEF ReadAspect
  <2>2. settings'.aspect = a /\ settings'.fullScreen = settings.fullScreen
        /\ settings'.volume = settings.volume /\ settings'.key = settings.key
    <3> HIDE DEF a
    <3> QED
      BY <1>1, <2>1 DEF Globals
  <2>3. AspectGiven(base, from)'
    <3>1. CASE \E x \in Aspects : AspectText[x] = Token(pos + 1)
      <4>1. a \in Aspects /\ AspectText[a] = Token(pos + 1)
        BY <3>1 DEF AspectOf
      <4>2. Token(pos + 1) # NoWord
        <5>1. \A x \in Aspects : AspectText[x] # NoWord
          <6>1. AspectText["x11"] = "1x1" /\ AspectText["x34"] = "3x4" /\ AspectText["xany"] = "Any"
            BY DEF AspectText
          <6> QED
            BY <6>1, NoWordFacts DEF Aspects
        <5> QED
          BY <3>1, <5>1
      <4>3. Follows(from, <<"AspectRatio", Token(pos + 1)>>)
        BY <1>1, <1>9, <4>2, NoWordFacts, FollowsPair
      <4> QED
        BY <1>2, <2>2, <4>1, <4>3 DEF AspectGiven
    <3>2. CASE ~ \E x \in Aspects : AspectText[x] = Token(pos + 1)
      <4>1. a = settings.aspect
        BY <3>2 DEF AspectOf
      <4> QED
        BY <1>5, <2>2, <4>1
    <3> QED
      BY <3>1, <3>2
  <2> QED
    BY <1>4, <1>6, <1>7, <2>2, <2>3, <1>b
<1>10. CASE Token(pos) = "KeyBind" /\ ReadKeyBind
  <2> DEFINE b == Token(pos + 1)
             t == Token(pos + 2)
  <2>1. CASE ~Binds(b, t)
    <3>1. settings' = settings
      BY <1>10, <2>1 DEF ReadKeyBind
    <3> QED
      BY <1>4, <1>5, <1>6, <1>7, <3>1, <1>b
  <2>2. CASE Binds(b, t)
    <3>1. b \in ToSet(Buttons) /\ KeysNamed(t) # {}
      BY <2>2 DEF Binds
    <3>2. PICK k \in KeysNamed(t) : settings' = [settings EXCEPT !.key[b] = k]
      <4>1. (IF KeysNamed(t) = {} THEN Unknown ELSE CHOOSE x \in KeysNamed(t) : TRUE) \in KeysNamed(t)
        BY <3>1
      <4> QED
        BY <1>10, <2>2, <4>1 DEF ReadKeyBind
    <3>3. k \in Keys /\ NameOf[k] = t
      BY <3>2 DEF KeysNamed
    <3>4. b # NoWord /\ t # NoWord
      BY <3>1, <3>3, ButtonsAssumption, NamesAssumption DEF ToSet
    <3>5. Follows(from, <<"KeyBind", b, t>>)
      BY <1>1, <1>10, <3>4, NoWordFacts, FollowsTriple
    <3>6. settings'.fullScreen = settings.fullScreen /\ settings'.aspect = settings.aspect
          /\ settings'.volume = settings.volume
          /\ \A c \in ToSet(Buttons) : settings'.key[c] = IF c = b THEN k ELSE settings.key[c]
      <4> HIDE DEF b
      <4> QED
        BY <1>1, <3>1, <3>2 DEF Globals
    <3>7. ASSUME NEW c \in ToSet(Buttons)
          PROVE  KeyGiven(base, from, c)'
      <4>1. CASE c = b
        <5>1. settings'.key[c] = k
          BY <3>6, <4>1
        <5>2. Follows(from, <<"KeyBind", c, NameOf[k]>>)
          BY <3>3, <3>5, <4>1
        <5>3. Follows(from, <<"KeyBind", c, NameOf[k]>>)'
          BY <1>2, <5>2
        <5>4. NameOf[settings'.key[c]] = NameOf[k]
          BY <5>1
        <5> QED
          BY <3>3, <5>1, <5>3, <5>4 DEF KeyGiven
      <4>2. CASE c # b
        <5>1. settings'.key[c] = settings.key[c]
          BY <3>6, <4>2
        <5> QED
          BY <1>7, <5>1
      <4> QED
        BY <4>1, <4>2
    <3> QED
      BY <1>4, <1>5, <1>6, <3>6, <3>7, <1>b
  <2> QED
    BY <2>1, <2>2
<1>11. CASE Token(pos) = "Volume" /\ ReadVolume
  <2> DEFINE t == Token(pos + 1)
  <2>1. \/ settings' = settings
        \/ t # NoWord /\ \E v \in VolumesOf(t) : settings' = [settings EXCEPT !.volume = v]
    BY <1>11, NumbersAssumption DEF ReadVolume, VolumesOf
  <2>2. settings'.fullScreen = settings.fullScreen /\ settings'.aspect = settings.aspect
        /\ settings'.key = settings.key
    BY <1>1, <2>1 DEF Globals
  <2>3. VolumeGiven(base, from)'
    <3>1. CASE settings' = settings
      BY <1>6, <3>1
    <3>2. CASE t # NoWord /\ \E v \in VolumesOf(t) : settings' = [settings EXCEPT !.volume = v]
      <4>1. settings'.volume \in VolumesOf(t)
        BY <1>1, <3>2 DEF Globals
      <4>2. Follows(from, <<"Volume", t>>) /\ t \in ToSet(file)
        BY <1>1, <1>11, <3>2, NoWordFacts, FollowsPair
      <4>3. PICK x : x = t
        OBVIOUS
      <4> HIDE DEF t
      <4>4. Follows(from, <<"Volume", x>>)' /\ x \in ToSet(file)' /\ settings'.volume \in VolumesOf(x)
        BY <1>1, <1>2, <4>1, <4>2, <4>3
      <4> QED
        BY <4>4 DEF VolumeGiven
    <3> QED
      BY <2>1, <3>1, <3>2
  <2> QED
    BY <1>4, <1>5, <1>7, <2>2, <2>3, <1>b
<1>12. CASE LastCommand
  <2>1. settings' = settings
    BY <1>12 DEF LastCommand, memory
  <2> QED
    BY <1>4, <1>5, <1>6, <1>7, <2>1, <1>b
<1> QED
  BY <1>8, <1>9, <1>10, <1>11, <1>12, LoadCases

-----------------------------------------------------------------------------
(* Reading what was written *)

\* The file has the first m tokens that were to be written.
Legible(m) == \A i \in 1 .. m : i \in DOMAIN file /\ file[i] = Saying(saved)[i]

LEMMA WholeFile ==
    ASSUME FileInv, saved \in Globals, origin = "save"
    PROVE  Legible(6 + 3 * N) /\ DOMAIN file = 1 .. (6 + 3 * N)
<1>1. file = Saying(saved) /\ DOMAIN Saying(saved) = 1 .. (6 + 3 * N)
  BY SayingTokens DEF FileInv
<1> QED
  BY <1>1 DEF Legible

LEMMA BrokenFile ==
    ASSUME FileInv, saved \in Globals, origin = "garbled"
    PROVE  \E k \in 1 .. N : FirstUnnamed(saved, k) /\ Legible(3 * k + 5)
<1>1. PICK k \in 1 .. N, d \in Debris :
         FirstUnnamed(saved, k) /\ file = SubSeq(Saying(saved), 1, 3 * k + 5) \o d
  BY DEF FileInv
<1> DEFINE m == 3 * k + 5
           s == Saying(saved)
           All == STRING \cup {s[i] : i \in 1 .. m}
           h == SubSeq(s, 1, m)
<1>2. m \in Nat /\ m \in Int /\ 1 \in Int /\ 1 <= m /\ m - 1 + 1 = m
  BY ButtonFacts
<1>3. \A i \in 1 .. m : s[i] \in All
  OBVIOUS
<1>4. d \in Seq(All)
  <2>1. d \in Seq(STRING) /\ STRING \subseteq All
    BY DebrisAssumption
  <2> HIDE DEF All
  <2>2. PICK X : X = All
    OBVIOUS
  <2>3. d \in Seq(X)
    <3>1. STRING \subseteq X
      BY <2>1, <2>2
    <3>2. Len(d) \in Nat /\ DOMAIN d = 1 .. Len(d) /\ \A i \in 1 .. Len(d) : d[i] \in STRING
      BY <2>1, LenProperties, ElementOfSeq
    <3>3. \A i \in 1 .. Len(d) : d[i] \in X
      BY <3>1, <3>2
    <3>4. d \in [1 .. Len(d) -> X]
      BY <2>1, <3>2, <3>3
    <3> QED
      BY <3>2, <3>4
  <2> QED
    BY <2>2, <2>3
<1> HIDE DEF All, m, s
<1>5. h \in Seq(All) /\ Len(h) = m /\ \A i \in 1 .. m : h[i] = s[i]
  <2>1. /\ h \in Seq(All) /\ Len(h) = (IF 1 <= m THEN m - 1 + 1 ELSE 0)
        /\ \A i \in 1 .. m - 1 + 1 : h[i] = s[1 + i - 1]
    BY <1>2, <1>3, SubSeqProperties
  <2>2. \A i \in 1 .. m : 1 + i - 1 = i
    BY <1>2
  <2> QED
    BY <1>2, <2>1, <2>2
<1> HIDE DEF h
<1>6. h \o d \in Seq(All) /\ Len(h \o d) = m + Len(d)
      /\ \A i \in 1 .. m + Len(d) : (h \o d)[i] = IF i <= m THEN h[i] ELSE d[i - m]
  BY <1>4, <1>5, ConcatProperties
<1>7. Len(d) \in Nat
  BY <1>4
<1>8. \A i \in 1 .. m : i \in DOMAIN (h \o d) /\ (h \o d)[i] = s[i]
  <2>1. DOMAIN (h \o d) = 1 .. (m + Len(d))
    BY <1>6
  <2>2. \A i \in 1 .. m : i \in 1 .. m + Len(d) /\ i <= m
    BY <1>2, <1>7
  <2> QED
    BY <1>5, <1>6, <2>1, <2>2
<1>9. file = h \o d
  BY <1>1 DEF h, m, s
<1>10. Legible(m)
  BY <1>8, <1>9 DEF Legible, s
<1> QED
  BY <1>1, <1>10 DEF m

\* The token at a legible place.
LEMMA WrittenToken ==
    ASSUME failed = FALSE, rest = NoWord, NEW m, Legible(m), NEW i \in 1 .. m
    PROVE  Token(i) = Saying(saved)[i]
<1>1. i \in DOMAIN file /\ file[i] = Saying(saved)[i]
  BY DEF Legible
<1> QED
  BY <1>1 DEF Token

LEMMA FirstTokens ==
    ASSUME saved \in Globals, failed = FALSE, rest = NoWord, NEW m \in Nat, m >= 6, Legible(m)
    PROVE  /\ Token(1) = "FullScreen" /\ Token(2) = IF saved.fullScreen THEN "true" ELSE "false"
           /\ Token(3) = "AspectRatio" /\ Token(4) = AspectText[saved.aspect]
           /\ Token(5) = "Volume" /\ Token(6) = Written[saved.volume]
<1>1. \A i \in 1 .. 6 : i \in 1 .. m
  OBVIOUS
<1>2. \A i \in 1 .. 6 : Token(i) = Saying(saved)[i]
  BY <1>1, WrittenToken
<1> QED
  BY <1>2, SayingTokens

\* The tokens between k buttons and the next.
LEMMA ButtonTokens ==
    ASSUME saved \in Globals, failed = FALSE, rest = NoWord,
           NEW k \in 0 .. N, k < N, Legible(9 + 3 * k)
    PROVE  /\ Token(7 + 3 * k) = "KeyBind"
           /\ Token(7 + 3 * k + 1) = Buttons[k + 1]
           /\ Token(7 + 3 * k + 2) = Name(saved, k + 1)
<1>1. N \in Nat /\ k \in Nat
  BY ButtonFacts
<1> DEFINE i == k + 1
<1>2. /\ i \in 1 .. N
      /\ 7 + 3 * k = 3 * i + 4 /\ 7 + 3 * k + 1 = 3 * i + 5 /\ 7 + 3 * k + 2 = 3 * i + 6
      /\ 3 * i + 4 \in 1 .. (9 + 3 * k) /\ 3 * i + 5 \in 1 .. (9 + 3 * k)
      /\ 3 * i + 6 \in 1 .. (9 + 3 * k)
  BY <1>1
<1>3. /\ Saying(saved)[3 * i + 4] = "KeyBind" /\ Saying(saved)[3 * i + 5] = Buttons[i]
      /\ Saying(saved)[3 * i + 6] = Name(saved, i)
  BY <1>2, SayingTokens
<1> HIDE DEF i
<1>4. Token(3 * i + 4) = "KeyBind" /\ Token(3 * i + 5) = Buttons[i]
      /\ Token(3 * i + 6) = Name(saved, i)
  BY <1>2, <1>3, WrittenToken
<1>5. Token(7 + 3 * k) = "KeyBind" /\ Token(7 + 3 * k + 1) = Buttons[i]
      /\ Token(7 + 3 * k + 2) = Name(saved, i)
  BY <1>2, <1>4
<1> QED
  BY <1>5 DEF i

LEMMA ReadOptions ==
    ASSUME TypeInv, LoadCommand, failed = FALSE, rest = NoWord, Legible(6)
    PROVE  /\ phase' = "load" \/ pos \notin {1, 3, 5}
           /\ failed' = FALSE \/ pos \notin {1, 3, 5}
           /\ rest' = NoWord \/ pos \notin {1, 3, 5}
           /\ pos = 1 /\ settings = Default =>
                 pos' = 3 /\ settings' = Options(saved.fullScreen, Default.aspect, Default.volume)
           /\ pos = 3 /\ settings = Options(saved.fullScreen, Default.aspect, Default.volume) =>
                 pos' = 5 /\ settings' = Options(saved.fullScreen, saved.aspect, Default.volume)
           /\ pos = 5 /\ settings = Options(saved.fullScreen, saved.aspect, Default.volume) =>
                 pos' = 7 /\ settings' = Options(saved.fullScreen, saved.aspect, Volume)
<1>1. saved \in Globals /\ phase = "load"
  BY LoadCases DEF TypeInv
<1>2. /\ Token(1) = "FullScreen" /\ Token(2) = IF saved.fullScreen THEN "true" ELSE "false"
      /\ Token(3) = "AspectRatio" /\ Token(4) = AspectText[saved.aspect]
      /\ Token(5) = "Volume" /\ Token(6) = Written[saved.volume]
  <2>1. 6 \in Nat /\ 6 >= 6
    OBVIOUS
  <2> QED
    BY <1>1, <2>1, FirstTokens
<1>3. CASE pos = 1
  <2>1. ReadFullScreen
    BY <1>2, <1>3, LoadCases
  <2>2. Token(pos + 1) = IF saved.fullScreen THEN "true" ELSE "false"
    <3>1. pos + 1 = 2
      BY <1>3
    <3> QED
      BY <1>2, <3>1
  <2>3. phase' = "load" /\ failed' = FALSE /\ rest' = NoWord /\ pos' = 3
        /\ settings' = [settings EXCEPT !.fullScreen = @ \/ Token(pos + 1) \in {"true", "1"}]
    BY <1>1, <1>3, <2>1 DEF ReadFullScreen
  <2>4. ASSUME settings = Default
        PROVE  settings' = Options(saved.fullScreen, Default.aspect, Default.volume)
    <3>1. settings.fullScreen = FALSE
      BY <2>4 DEF Default
    <3>2. saved.fullScreen \in BOOLEAN
      BY <1>1 DEF Globals
    <3>3. (settings.fullScreen \/ Token(pos + 1) \in {"true", "1"}) = saved.fullScreen
      <4>1. CASE saved.fullScreen = TRUE
        BY <2>2, <4>1
      <4>2. CASE saved.fullScreen = FALSE
        BY <2>2, <3>1, <4>2
      <4> QED
        BY <3>2, <4>1, <4>2
    <3>4. settings' = [settings EXCEPT !.fullScreen = saved.fullScreen]
      BY <2>3, <3>3
    <3> QED
      BY <2>4, <3>4 DEF Default, Options
  <2> QED
    BY <1>3, <2>3, <2>4
<1>4. CASE pos = 3
  <2>1. ReadAspect
    BY <1>2, <1>4, LoadCases
  <2>2. Token(pos + 1) = AspectText[saved.aspect]
    <3>1. pos + 1 = 4
      BY <1>4
    <3> QED
      BY <1>2, <3>1
  <2>3. phase' = "load" /\ failed' = FALSE /\ rest' = NoWord /\ pos' = 5
        /\ settings' = [settings EXCEPT !.aspect = AspectOf(Token(pos + 1), settings.aspect)]
    BY <1>1, <1>4, <2>1 DEF ReadAspect
  <2>4. AspectOf(Token(pos + 1), settings.aspect) = saved.aspect
    BY <1>1, <2>2, AspectReads DEF Globals
  <2>5. settings' = [settings EXCEPT !.aspect = saved.aspect]
    BY <2>3, <2>4
  <2>6. ASSUME settings = Options(saved.fullScreen, Default.aspect, Default.volume)
        PROVE  settings' = Options(saved.fullScreen, saved.aspect, Default.volume)
    BY <2>5, <2>6 DEF Options
  <2> QED
    BY <1>4, <2>3, <2>6
<1>5. CASE pos = 5
  <2>1. ReadVolume
    BY <1>2, <1>5, LoadCases
  <2>2. Token(pos + 1) = Written[saved.volume]
    <3>1. pos + 1 = 6
      BY <1>5
    <3> QED
      BY <1>2, <3>1
  <2>3. /\ Token(pos + 1) \in Numerals /\ RestOf[Token(pos + 1)] = NoWord
        /\ ValueOf[Token(pos + 1)] = Volume
    BY <1>1, <2>2, WrittenVolume
  <2>4. phase' = "load" /\ failed' = FALSE /\ rest' = NoWord /\ pos' = 7
        /\ settings' = [settings EXCEPT !.volume = Volume]
    <3>1. phase' = "load" /\ rest' = NoWord /\ pos' = 7
          /\ settings' = [settings EXCEPT !.volume = Volume]
      BY <1>1, <1>5, <2>1, <2>3 DEF ReadVolume
    <3>2. failed' = (Token(pos + 1) \notin Numerals)
      BY <2>1 DEF ReadVolume
    <3> QED
      BY <2>3, <3>1, <3>2
  <2>5. ASSUME settings = Options(saved.fullScreen, saved.aspect, Default.volume)
        PROVE  settings' = Options(saved.fullScreen, saved.aspect, Volume)
    BY <2>4, <2>5 DEF Options
  <2> QED
    BY <1>5, <2>4, <2>5
<1> QED
  BY <1>3, <1>4, <1>5

\* One more button.
LEMMA ReadButton ==
    ASSUME TypeInv, LoadCommand, failed = FALSE, rest = NoWord, NEW k \in 0 .. N, k < N,
           Between(k), Legible(9 + 3 * k), saved.key[Buttons[k + 1]] \in Keys
    PROVE  /\ phase' = "load" /\ failed' = FALSE /\ rest' = NoWord
           /\ pos' = 7 + 3 * (k + 1) /\ settings' = Mixed(k + 1) /\ NamedTo(k + 1)
<1>1. /\ saved \in Globals /\ phase = "load" /\ k \in Nat /\ N \in Nat
      /\ pos = 7 + 3 * k /\ settings = Mixed(k) /\ NamedTo(k)
  BY LoadCases, ButtonFacts DEF TypeInv, Between
<1> DEFINE b == Buttons[k + 1]
           key == saved.key[Buttons[k + 1]]
<1>2. Token(pos) = "KeyBind" /\ Token(pos + 1) = b /\ Token(pos + 2) = Name(saved, k + 1)
  BY <1>1, ButtonTokens
<1>3. b \in ToSet(Buttons) /\ k + 1 \in 1 .. N
  BY <1>1, ButtonFacts
<1>4. Token(pos + 2) = NameOf[key] /\ KeysNamed(Token(pos + 2)) = {key}
  BY <1>2, KeyReads DEF Name
<1>5. Binds(Token(pos + 1), Token(pos + 2))
  BY <1>2, <1>3, <1>4 DEF Binds
<1>6. (IF KeysNamed(Token(pos + 2)) = {} THEN Unknown
       ELSE CHOOSE x \in KeysNamed(Token(pos + 2)) : TRUE) = key
  BY <1>4
<1>7. phase' = phase /\ pos' = pos + 3 /\ failed' = failed /\ rest' = NoWord
      /\ settings' = [settings EXCEPT !.key[Token(pos + 1)] =
                         IF KeysNamed(Token(pos + 2)) = {} THEN Unknown
                         ELSE CHOOSE x \in KeysNamed(Token(pos + 2)) : TRUE]
  <2>1. ReadKeyBind
    BY <1>2, LoadCases
  <2> QED
    BY <1>5, <2>1 DEF ReadKeyBind
<1>8. settings' = [settings EXCEPT !.key[b] = key]
  BY <1>2, <1>6, <1>7
<1>9. settings' = Mixed(k + 1)
  <2>1. settings = [fullScreen |-> saved.fullScreen, aspect |-> saved.aspect,
                    volume |-> Volume, key |-> Mixed(k).key]
    BY <1>1 DEF Mixed
  <2>2. settings' = [fullScreen |-> saved.fullScreen, aspect |-> saved.aspect,
                     volume |-> Volume, key |-> [Mixed(k).key EXCEPT ![b] = key]]
    <3> HIDE DEF b, key
    <3> QED
      BY <1>8, <2>1, WithKey
  <2> QED
    BY <1>1, <2>2, MixedGrows
<1>10. NamedTo(k + 1)
  <2>1. \A j \in 1 .. (k + 1) : j \in 1 .. k \/ j = k + 1
    BY <1>1
  <2> QED
    BY <1>1, <2>1 DEF NamedTo
<1>11. pos' = 7 + 3 * (k + 1)
  BY <1>1, <1>7
<1> QED
  BY <1>1, <1>7, <1>9, <1>10, <1>11

\* After the last button there is nothing left.
LEMMA ReadEnd ==
    ASSUME LoadCommand, failed = FALSE, rest = NoWord, Between(N), DOMAIN file = 1 .. (6 + 3 * N)
    PROVE  phase' = "loaded" /\ settings' = Mixed(N)
<1>1. pos = 7 + 3 * N /\ settings = Mixed(N) /\ N \in Nat
  BY ButtonFacts DEF Between
<1>2. pos \notin DOMAIN file
  BY <1>1
<1>3. Token(pos) = NoWord
  BY <1>2 DEF Token
<1>4. LastCommand
  BY <1>3, NoWordFacts, LoadCases
<1> QED
  BY <1>1, <1>4 DEF LastCommand, memory

\* The whole invariant of the reading.
ReadInv == TypeInv /\ RestInv /\ FileInv /\ LoadInv /\ LoadedInv /\ CutInv

\* Reading does not touch what was saved.
LEMMA SavedStays ==
    ASSUME saved' = saved
    PROVE  /\ \A k : Mixed(k)' = Mixed(k) /\ NamedTo(k)' = NamedTo(k) /\ Before(k)' = Before(k)
           /\ \A k : FirstUnnamed(saved, k)' = FirstUnnamed(saved, k)
           /\ Shown(saved)' = Shown(saved)
<1>1. Volume' = Volume
  BY DEF Volume
<1>2. Shown(saved)' = Shown(saved)
  BY DEF Shown
<1>3. ASSUME NEW k PROVE Mixed(k)' = Mixed(k) /\ NamedTo(k)' = NamedTo(k)
  BY <1>1 DEF Mixed, NamedTo
<1>4. ASSUME NEW k PROVE Before(k)' = Before(k)
  BY <1>2 DEF Before
<1>5. ASSUME NEW k PROVE FirstUnnamed(saved, k)' = FirstUnnamed(saved, k)
  BY DEF FirstUnnamed
<1> QED
  BY <1>2, <1>3, <1>4, <1>5

\* The options of a written file.
LEMMA WithinOptions ==
    ASSUME TypeInv, LoadCommand, Legible(6), Within, pos \in {1, 3, 5}
    PROVE  phase' = "load" /\ Within'
<1>1. saved' = saved /\ failed = FALSE /\ rest = NoWord
  BY LoadCases DEF Within
<1>2. /\ \A k : Mixed(k)' = Mixed(k) /\ NamedTo(k)' = NamedTo(k)
      /\ Volume' = Volume
  BY <1>1, SavedStays DEF Volume
<1>3. /\ phase' = "load" \/ pos \notin {1, 3, 5}
      /\ failed' = FALSE \/ pos \notin {1, 3, 5}
      /\ rest' = NoWord \/ pos \notin {1, 3, 5}
      /\ pos = 1 /\ settings = Default =>
            pos' = 3 /\ settings' = Options(saved.fullScreen, Default.aspect, Default.volume)
      /\ pos = 3 /\ settings = Options(saved.fullScreen, Default.aspect, Default.volume) =>
            pos' = 5 /\ settings' = Options(saved.fullScreen, saved.aspect, Default.volume)
      /\ pos = 5 /\ settings = Options(saved.fullScreen, saved.aspect, Default.volume) =>
            pos' = 7 /\ settings' = Options(saved.fullScreen, saved.aspect, Volume)
  BY <1>1, ReadOptions
<1>4. phase' = "load" /\ failed' = FALSE /\ rest' = NoWord
  BY <1>3
<1>5. ~ \E k \in 0 .. N : Between(k)
  <2> SUFFICES ASSUME NEW k \in 0 .. N, pos = 7 + 3 * k
               PROVE  FALSE
    BY DEF Between
  <2>1. k \in Nat
    BY ButtonFacts
  <2> QED
    BY <2>1
<1>6. CASE pos = 1 /\ settings = Default
  <2>1. pos' = 3 /\ settings' = Options(saved.fullScreen, Default.aspect, Default.volume)
    BY <1>3, <1>6
  <2> QED
    BY <1>1, <1>4, <2>1 DEF Within, Options, Default
<1>7. CASE pos = 3 /\ settings = Options(saved.fullScreen, Default.aspect, Default.volume)
  <2>1. pos' = 5 /\ settings' = Options(saved.fullScreen, saved.aspect, Default.volume)
    BY <1>3, <1>7
  <2> QED
    BY <1>1, <1>4, <2>1 DEF Within, Options, Default
<1>8. CASE pos = 5 /\ settings = Options(saved.fullScreen, saved.aspect, Default.volume)
  <2>1. pos' = 7 /\ settings' = Options(saved.fullScreen, saved.aspect, Volume)
    BY <1>3, <1>8
  <2>2. settings' = Mixed(0)
    BY <2>1, MixedNone
  <2>3. NamedTo(0) /\ 0 \in 0 .. N /\ 7 = 7 + 3 * 0
    BY ButtonFacts DEF NamedTo
  <2>4. Between(0)'
    BY <1>2, <2>1, <2>2, <2>3 DEF Between
  <2> QED
    BY <1>4, <2>3, <2>4 DEF Within
<1> QED
  BY <1>5, <1>6, <1>7, <1>8 DEF Within

LEMMA WithinButton ==
    ASSUME TypeInv, LoadCommand, failed = FALSE, rest = NoWord, NEW k \in 0 .. N, k < N,
           Between(k), Legible(9 + 3 * k), saved.key[Buttons[k + 1]] \in Keys
    PROVE  phase' = "load" /\ Within'
<1>1. /\ phase' = "load" /\ failed' = FALSE /\ rest' = NoWord
      /\ pos' = 7 + 3 * (k + 1) /\ settings' = Mixed(k + 1) /\ NamedTo(k + 1)
  BY ReadButton
<1>2. saved' = saved
  BY LoadCases
<1>3. Mixed(k + 1)' = Mixed(k + 1) /\ NamedTo(k + 1)' = NamedTo(k + 1)
  BY <1>2, SavedStays
<1>4. Between(k + 1)' /\ k + 1 \in 0 .. N
  BY <1>1, <1>3, ButtonFacts DEF Between
<1> QED
  BY <1>1, <1>4 DEF Within

LEMMA PlacesOfWithin ==
    ASSUME Within
    PROVE  /\ failed = FALSE /\ rest = NoWord
           /\ pos \in {1, 3, 5} \/ \E k \in 0 .. N : Between(k)
  BY DEF Within

\* A file that was written as a whole.
LEMMA SaveReads ==
    ASSUME ReadInv, LoadCommand, origin = "save"
    PROVE  LoadInv' /\ LoadedInv'
<1>1. /\ TypeInv /\ FileInv /\ Within /\ saved \in Globals
      /\ saved' = saved /\ origin' = "save"
  BY LoadCases DEF ReadInv, LoadInv, TypeInv
<1>2. Legible(6 + 3 * N) /\ DOMAIN file = 1 .. (6 + 3 * N) /\ N \in Nat
  BY <1>1, WholeFile, ButtonFacts
<1>3. \A m \in Nat : m <= 6 + 3 * N => Legible(m)
  BY <1>2 DEF Legible
<1>4. failed = FALSE /\ rest = NoWord
  BY <1>1, PlacesOfWithin
<1>5. CASE pos \in {1, 3, 5}
  <2>1. Legible(6)
    BY <1>2, <1>3
  <2>2. phase' = "load" /\ Within'
    BY <1>1, <1>5, <2>1, WithinOptions
  <2> QED
    BY <1>1, <2>2 DEF LoadInv, LoadedInv
<1>6. CASE \E k \in 0 .. N : Between(k)
  <2>1. PICK k \in 0 .. N : Between(k)
    BY <1>6
  <2>2. CASE k < N
    <3>1. k \in Nat /\ 9 + 3 * k \in Nat /\ 9 + 3 * k <= 6 + 3 * N /\ k + 1 \in 1 .. N
      BY <1>2, <2>2
    <3>2. Legible(9 + 3 * k)
      BY <1>3, <3>1
    <3>3. saved.key[Buttons[k + 1]] \in Keys
      BY <1>1, <3>1, ButtonFacts DEF FileInv, Named
    <3>4. phase' = "load" /\ Within'
      BY <1>1, <1>4, <2>1, <2>2, <3>2, <3>3, WithinButton
    <3> QED
      BY <1>1, <3>4 DEF LoadInv, LoadedInv
  <2>3. CASE ~(k < N)
    <3>1. k = N
      BY <1>2, <2>3
    <3>2. phase' = "loaded" /\ settings' = Mixed(N)
      BY <1>2, <1>4, <2>1, <3>1, ReadEnd
    <3>3. settings' = Shown(saved)'
      BY <1>1, <3>2, MixedAll, SavedStays
    <3> QED
      BY <1>1, <3>2, <3>3 DEF LoadInv, LoadedInv
  <2> QED
    BY <2>2, <2>3
<1> QED
  BY <1>1, <1>5, <1>6, PlacesOfWithin

\* What follows a key without a name.
LEMMA DebrisReads ==
    ASSUME ReadInv, LoadCommand, origin = "garbled", NEW k \in 1 .. N,
           FirstUnnamed(saved, k), pos >= 3 * k + 4, Given(Before(k), 3 * k + 4)
    PROVE  LoadInv' /\ LoadedInv'
<1>1. TypeInv /\ RestInv /\ saved' = saved /\ origin' = "garbled"
  BY LoadCases DEF ReadInv
<1>2. PICK base : base = Before(k)
  OBVIOUS
<1>3. 3 * k + 4 \in Nat
  BY ButtonFacts
<1>4. Given(base, 3 * k + 4)
  BY <1>2
<1>5. Given(base, 3 * k + 4)' /\ pos' >= 3 * k + 4
  BY <1>1, <1>3, <1>4, LoadGives
<1>6. base = Before(k)'
  BY <1>1, <1>2, SavedStays
<1>7. Given(Before(k), 3 * k + 4)'
  BY <1>5, <1>6 DEF Given
<1>8. FirstUnnamed(saved, k)'
  BY <1>1, SavedStays
<1>9. Beyond'
  BY <1>5, <1>7, <1>8 DEF Beyond
<1> QED
  BY <1>1, <1>7, <1>8, <1>9 DEF LoadInv, LoadedInv

\* A file that breaks off at a key without a name.
LEMMA GarbledReads ==
    ASSUME ReadInv, LoadCommand, origin = "garbled"
    PROVE  LoadInv' /\ LoadedInv'
<1>1. /\ TypeInv /\ FileInv /\ (Within \/ Beyond) /\ saved \in Globals
      /\ saved' = saved /\ origin' = "garbled"
  BY LoadCases DEF ReadInv, LoadInv, TypeInv
<1>2. PICK m \in 1 .. N : FirstUnnamed(saved, m) /\ Legible(3 * m + 5)
  BY <1>1, BrokenFile
<1>3. m \in Nat /\ N \in Nat /\ \A n \in Nat : n <= 3 * m + 5 => Legible(n)
  BY <1>2, ButtonFacts DEF Legible
<1>4. CASE Beyond
  <2>1. PICK k \in 1 .. N : FirstUnnamed(saved, k) /\ pos >= 3 * k + 4 /\ Given(Before(k), 3 * k + 4)
    BY <1>4 DEF Beyond
  <2> QED
    BY <2>1, DebrisReads
<1>5. CASE Within /\ pos \in {1, 3, 5}
  <2>1. Legible(6)
    BY <1>3
  <2>2. phase' = "load" /\ Within'
    BY <1>1, <1>5, <2>1, WithinOptions
  <2> QED
    BY <1>1, <2>2 DEF LoadInv, LoadedInv
<1>6. CASE Within /\ \E k \in 0 .. N : Between(k)
  <2>1. PICK k \in 0 .. N : Between(k)
    BY <1>6
  <2>2. failed = FALSE /\ rest = NoWord
    BY <1>6, PlacesOfWithin
  <2>3. k < m
    <3> SUFFICES ASSUME ~(k < m)
                 PROVE  FALSE
      OBVIOUS
    <3>1. m \in 1 .. k
      BY <1>3
    <3> QED
      BY <1>2, <2>1, <3>1 DEF FirstUnnamed, Between, NamedTo
  <2>4. CASE k + 1 = m
    <3>1. k = m - 1 /\ pos = 3 * m + 4
      BY <1>3, <2>1, <2>4 DEF Between
    <3>2. settings = Before(m)
      BY <1>1, <2>1, <3>1, MixedBefore DEF Between
    <3>3. Given(Before(m), 3 * m + 4)
      BY <3>2, BaseGiven DEF Given
    <3>4. pos >= 3 * m + 4
      BY <1>3, <3>1
    <3> QED
      BY <1>2, <3>3, <3>4, DebrisReads
  <2>5. CASE k + 1 # m
    <3>1. k \in Nat /\ k < N /\ k + 1 \in 1 .. m - 1 /\ 9 + 3 * k \in Nat /\ 9 + 3 * k <= 3 * m + 5
      BY <1>3, <2>3, <2>5
    <3>2. Legible(9 + 3 * k)
      BY <1>3, <3>1
    <3>3. saved.key[Buttons[k + 1]] \in Keys
      BY <1>2, <3>1 DEF FirstUnnamed
    <3>4. phase' = "load" /\ Within'
      BY <1>1, <2>1, <2>2, <3>1, <3>2, <3>3, WithinButton
    <3> QED
      BY <1>1, <3>4 DEF LoadInv, LoadedInv
  <2> QED
    BY <2>4, <2>5
<1> QED
  BY <1>1, <1>4, <1>5, <1>6, PlacesOfWithin

\* An empty file ends the reading at once.
LEMMA CutReads ==
    ASSUME ReadInv, LoadCommand, origin = "cut"
    PROVE  CutInv'
<1>1. settings = Default /\ file = <<>>
  BY LoadCases DEF ReadInv, FileInv, CutInv
<1>2. Token(pos) = NoWord
  <2>1. pos \notin DOMAIN file
    BY <1>1
  <2> QED
    BY <2>1 DEF Token
<1>3. LastCommand
  BY <1>2, NoWordFacts, LoadCases
<1> QED
  BY <1>1, <1>3 DEF LastCommand, CutInv, memory

LEMMA NextRead == ReadInv /\ [Next]_vars => ReadInv'
<1> SUFFICES ASSUME ReadInv, [Next]_vars
             PROVE  ReadInv'
  OBVIOUS
<1>1. TypeInv' /\ FileInv' /\ RestInv'
  BY NextTypes, NextFile, NextRest DEF ReadInv
<1> SUFFICES LoadInv' /\ LoadedInv' /\ CutInv'
  BY <1>1 DEF ReadInv
<1>2. CASE Begin
  <2>1. phase = "off" /\ phase' = "load" /\ UNCHANGED memory
    BY <1>2 DEF Begin
  <2>2. settings' = Default /\ pos' = 1 /\ rest' = NoWord /\ failed' = FALSE
    BY <2>1 DEF ReadInv, TypeInv, memory
  <2>3. Within'
    BY <2>2 DEF Within, Default
  <2> QED
    BY <2>1, <2>2, <2>3 DEF LoadInv, LoadedInv, CutInv, Default
<1>3. CASE LoadCommand
  <2>1. origin' = origin /\ origin \in Origins
    BY <1>3, LoadCases DEF ReadInv, TypeInv
  <2>2. CASE origin = "save"
    BY <1>3, <2>1, <2>2, SaveReads DEF CutInv
  <2>3. CASE origin = "garbled"
    BY <1>3, <2>1, <2>3, GarbledReads DEF CutInv
  <2>4. CASE origin = "cut"
    BY <1>3, <2>1, <2>4, CutReads DEF LoadInv, LoadedInv
  <2>5. CASE origin = "edit"
    BY <2>1, <2>5 DEF LoadInv, LoadedInv, CutInv
  <2> QED
    BY <2>1, <2>2, <2>3, <2>4, <2>5 DEF Origins
<1>4. CASE UNCHANGED vars
  <2>1. UNCHANGED <<phase, settings, pos, rest, failed, file, saved, origin>>
    BY <1>4 DEF vars, memory
  <2>2. /\ \A k : Mixed(k)' = Mixed(k) /\ NamedTo(k)' = NamedTo(k) /\ Before(k)' = Before(k)
        /\ \A k : FirstUnnamed(saved, k)' = FirstUnnamed(saved, k)
        /\ Shown(saved)' = Shown(saved) /\ Volume' = Volume
    BY <2>1, SavedStays DEF Volume
  <2>3. ASSUME NEW k PROVE Between(k)' = Between(k)
    BY <2>1, <2>2 DEF Between
  <2>4. ASSUME NEW k PROVE Given(Before(k), 3 * k + 4)' = Given(Before(k), 3 * k + 4)
    <3>1. ASSUME NEW f, NEW w PROVE Follows(f, w)' = Follows(f, w)
      BY <2>1 DEF Follows, Ends
    <3>2. Before(k)' = Before(k) /\ settings' = settings /\ ToSet(file)' = ToSet(file)
      BY <2>1, <2>2 DEF ToSet
    <3> QED
      BY <3>1, <3>2 DEF Given
  <2>5. Within' = Within
    BY <2>1, <2>3 DEF Within
  <2>6. Beyond' = Beyond
    BY <2>1, <2>2, <2>4 DEF Beyond
  <2>7. LoadInv'
    BY <2>1, <2>5, <2>6 DEF ReadInv, LoadInv
  <2>8. LoadedInv'
    BY <2>1, <2>2, <2>4 DEF ReadInv, LoadedInv
  <2> QED
    BY <2>1, <2>7, <2>8 DEF ReadInv, CutInv
<1>5. CASE ~Begin /\ ~LoadCommand /\ Next
  <2>1. phase' \in {"off", "run", "save"}
    BY <1>5 DEF Next, WindowInit, Change, OpenForSave, CloseSaved, CloseUnnamed, Die, Edit, Gone
  <2> QED
    BY <2>1 DEF LoadInv, LoadedInv, CutInv
<1> QED
  BY <1>2, <1>3, <1>4, <1>5

LEMMA ReadStarts == Init => ReadInv
<1> SUFFICES ASSUME Init
             PROVE  ReadInv
  OBVIOUS
<1>1. /\ phase = "off" /\ settings = Default /\ pos = 1 /\ rest = NoWord /\ failed = FALSE
      /\ file = <<>> /\ saved = Default /\ origin = "cut"
  BY DEF Init
<1>2. failed \in BOOLEAN
  BY <1>1
<1>3. TypeInv
  BY <1>1, <1>2, DefaultTyped DEF TypeInv, Origins
<1>4. FileInv
  BY <1>1 DEF FileInv
<1>5. RestInv
  BY <1>1 DEF RestInv
<1> QED
  BY <1>1, <1>3, <1>4, <1>5 DEF ReadInv, LoadInv, LoadedInv, CutInv

LEMMA ReadInductive == Spec => []ReadInv
  BY ReadStarts, NextRead, PTL DEF Spec

LEMMA ReadImplies == ReadInv => RoundTrip /\ LossIsBounded
<1> SUFFICES ASSUME ReadInv, phase = "loaded"
             PROVE  RoundTrip /\ LossIsBounded
  BY DEF RoundTrip, LossIsBounded
<1>1. RoundTrip
  BY DEF ReadInv, LoadedInv, CutInv, RoundTrip
<1>2. LossIsBounded
  BY ButtonFacts DEF ReadInv, LoadedInv, LossIsBounded
<1> QED
  BY <1>1, <1>2

\* What a complete save wrote is what the next start reads, for any number of
\* buttons and whatever keys they have, the volume to six digits, and a save that
\* was cut off leaves the defaults.
THEOREM SettingsRoundTrip == Spec => []RoundTrip
  BY ReadInductive, ReadImplies, PTL

\* Whatever comes of following the iterator past the end for a key without a
\* name: if the file is written, what was said before that key is read, and
\* everything else is a default or said by what follows, wherever in the order of
\* the buttons that key is.
THEOREM SettingsLossIsBounded == Spec => []LossIsBounded
  BY ReadInductive, ReadImplies, PTL

-----------------------------------------------------------------------------
(* What any file gives *)

\* What holds of the settings at the end of the reading holds all along it.
GivenInv == TypeInv /\ RestInv /\ (phase \in {"load", "loaded"} => Given(Default, 1))

LEMMA NextGiven == GivenInv /\ [Next]_vars => GivenInv'
<1> SUFFICES ASSUME GivenInv, [Next]_vars
             PROVE  GivenInv'
  OBVIOUS
<1>1. TypeInv /\ TypeInv' /\ RestInv /\ RestInv'
  BY NextTypes, NextRest DEF GivenInv
<1> SUFFICES ASSUME phase' \in {"load", "loaded"}
             PROVE  Given(Default, 1)'
  BY <1>1 DEF GivenInv
<1>2. CASE Begin
  <2>1. settings' = Default
    BY <1>1, <1>2 DEF Begin, TypeInv, memory
  <2> QED
    BY <2>1 DEF Given, Default
<1>3. CASE LoadCommand
  <2>1. Given(Default, 1) /\ pos >= 1
    BY <1>1, <1>3, LoadCases DEF GivenInv, TypeInv
  <2>2. PICK base : base = Default
    OBVIOUS
  <2>3. Given(base, 1)' /\ pos' >= 1
    BY <1>1, <1>3, <2>1, <2>2, LoadGives
  <2> QED
    BY <2>2, <2>3 DEF Default, Given
<1>4. CASE UNCHANGED vars
  <2>1. UNCHANGED <<phase, settings, file>> /\ Given(Default, 1)
    BY <1>4 DEF vars, memory, GivenInv
  <2>2. ASSUME NEW f, NEW w PROVE Follows(f, w)' = Follows(f, w)
    BY <2>1 DEF Follows, Ends
  <2>3. ToSet(file)' = ToSet(file) /\ Default' = Default
    BY <2>1 DEF ToSet, Default
  <2> QED
    BY <2>1, <2>2, <2>3 DEF Given
<1>5. CASE ~Begin /\ ~LoadCommand /\ Next
  <2>1. phase' \in {"off", "run", "save"}
    BY <1>5 DEF Next, WindowInit, Change, OpenForSave, CloseSaved, CloseUnnamed, Die, Edit, Gone
  <2> QED
    BY <2>1
<1> QED
  BY <1>2, <1>3, <1>4, <1>5

\* Whatever a player made of the file, no setting has a value that is neither
\* its default nor what the word right behind its name is read as.
THEOREM SettingsInventNothing == Spec => []NothingInvented
<1>1. Init => GivenInv
  BY ReadStarts DEF ReadInv, GivenInv, Init
<1>2. GivenInv /\ [Next]_vars => GivenInv'
  BY NextGiven
<1>3. GivenInv => NothingInvented
  BY DEF GivenInv, NothingInvented
<1> QED
  BY <1>1, <1>2, <1>3, PTL DEF Spec
=============================================================================
