------------------------------ MODULE GameProofs ------------------------------
(* Theorems about Game, for every integer size, volume, repeat delay, set of   *)
(* broken scripts and set of players.                                          *)
EXTENDS Game, SequenceTheorems, TLAPS

\* The options' picker stays on their four entries.
Objects ==
    {o \in [name : States, picker : 0 .. 4, moveTimer : Nat, number : Numbers, asks : 0 .. 1] :
        o.name = "OptionsState" => o.picker <= 3}

Byte == 0 .. (ByteBase - 1)

Worlds == [stack : Seq(Objects), dropFrame : BOOLEAN, fullScreen : BOOLEAN,
           aspectRatio : 0 .. 2, volume : Int, file : SUBSET Seq(Byte), lastSaved : Numbers,
           quit : BOOLEAN, ok : BOOLEAN, defined : SUBSET Scripts]

\* Two stacks with the same states on them.
Same(s, t) == Len(t) = Len(s) /\ \A k \in 1 .. Len(s) : t[k].name = s[k].name

\* A step of a script that leaves the states where they are.
Keeps(w, u) ==
    /\ u \in Worlds
    /\ Same(w.stack, u.stack)
    /\ u.ok = w.ok /\ u.dropFrame = w.dropFrame /\ u.defined = w.defined

KeepsFile(w, u) == u.file = w.file /\ u.lastSaved = w.lastSaved

-----------------------------------------------------------------------------
(* Objects and worlds *)

LEMMA NumbersAreNat == 0 \in Numbers /\ Numbers \subseteq Nat
  BY ByteBaseAssumption DEF Numbers

LEMMA NewIsObject ==
    ASSUME NEW name \in States
    PROVE  New(name) \in Objects /\ New(name).name = name
  BY NumbersAreNat DEF New, Objects

LEMMA TopIsObject ==
    ASSUME NEW w \in Worlds, w.stack # <<>>
    PROVE  /\ Top(w) \in Objects /\ Top(w).name \in States
           /\ Len(w.stack) \in Nat /\ Len(w.stack) >= 1
<1>1. w.stack \in Seq(Objects)
  BY DEF Worlds
<1>2. Len(w.stack) \in Nat /\ Len(w.stack) >= 1
  BY <1>1, EmptySeq
<1> QED
  BY <1>1, <1>2, ElementOfSeq DEF Top, Objects

LEMMA SetTopKeeps ==
    ASSUME NEW w \in Worlds, w.stack # <<>>, NEW o \in Objects, o.name = Top(w).name
    PROVE  /\ Keeps(w, SetTop(w, o)) /\ KeepsFile(w, SetTop(w, o))
           /\ SetTop(w, o).stack # <<>> /\ Top(SetTop(w, o)) = o
<1> DEFINE n == Len(w.stack)
           s == [w.stack EXCEPT ![n] = o]
           u == [w EXCEPT !.stack = s]
<1>1. SetTop(w, o) = u
  BY DEF SetTop
<1>2. w.stack \in Seq(Objects) /\ n \in Nat /\ n >= 1
  BY TopIsObject DEF Worlds
<1>3. s \in Seq(Objects) /\ Len(s) = n
  BY <1>2, ExceptSeq
<1>4. s[n] = o /\ \A k \in 1 .. n : k # n => s[k] = w.stack[k]
  BY <1>2, ExceptSeq
<1>5. Same(w.stack, s)
  BY <1>2, <1>3, <1>4 DEF Same, Top
<1> HIDE DEF s
<1>6. u \in Worlds /\ u.stack = s /\ u.ok = w.ok /\ u.dropFrame = w.dropFrame
      /\ u.defined = w.defined /\ u.file = w.file /\ u.lastSaved = w.lastSaved
  BY <1>3 DEF Worlds
<1>7. s # <<>>
  BY <1>2, <1>3
<1> HIDE DEF u
<1> QED
  BY <1>1, <1>3, <1>4, <1>5, <1>6, <1>7 DEF Keeps, KeepsFile, Top

LEMMA SameIsTransitive ==
    ASSUME NEW w \in Worlds, NEW u, NEW v, Keeps(w, u), Keeps(u, v)
    PROVE  Keeps(w, v)
<1>1. u \in Worlds /\ v \in Worlds
  BY DEF Keeps
<1>2. Len(w.stack) \in Nat /\ Len(u.stack) \in Nat
  BY <1>1, LenProperties DEF Worlds
<1> QED
  BY <1>1, <1>2 DEF Keeps, Same

LEMMA FailKeeps ==
    ASSUME NEW w \in Worlds
    PROVE  /\ Fail(w) \in Worlds /\ Fail(w).stack = w.stack /\ Fail(w).ok = FALSE
           /\ Fail(w).dropFrame = w.dropFrame /\ Fail(w).defined = w.defined
           /\ KeepsFile(w, Fail(w))
  BY DEF Fail, Worlds, KeepsFile

-----------------------------------------------------------------------------
(* PushState and PopState *)

LEMMA PushStateEffect ==
    ASSUME NEW w \in Worlds, NEW name \in States, w.ok
    PROVE  LET u == PushState(w, name) IN
              /\ u \in Worlds /\ u.defined = w.defined /\ KeepsFile(w, u)
              /\ \/ u.ok /\ u.dropFrame /\ u.stack = Append(w.stack, New(name))
                 \/ u = Fail(w) /\ ~(Uses(name) \subseteq w.defined)
<1> DEFINE u == [w EXCEPT !.stack = Append(w.stack, New(name)), !.dropFrame = TRUE]
<1>1. Append(w.stack, New(name)) \in Seq(Objects)
  BY NewIsObject, AppendProperties DEF Worlds
<1>2. u \in Worlds /\ u.stack = Append(w.stack, New(name)) /\ u.dropFrame = TRUE
      /\ u.ok = w.ok /\ u.defined = w.defined /\ KeepsFile(w, u)
  BY <1>1 DEF Worlds, KeepsFile
<1>3. CASE Uses(name) \subseteq w.defined
  <2>1. PushState(w, name) = u
    BY <1>3 DEF PushState
  <2> HIDE DEF u
  <2> QED
    BY <1>2, <2>1
<1>4. CASE ~(Uses(name) \subseteq w.defined)
  <2>1. PushState(w, name) = Fail(w)
    BY <1>4 DEF PushState
  <2> QED
    BY <1>4, <2>1, FailKeeps
<1> QED
  BY <1>3, <1>4

LEMMA PopStateEffect ==
    ASSUME NEW w \in Worlds, w.ok, w.stack # <<>>
    PROVE  LET u == PopState(w) IN
              /\ u \in Worlds /\ u.ok /\ u.dropFrame /\ u.defined = w.defined /\ KeepsFile(w, u)
              /\ Len(u.stack) = Len(w.stack) - 1
              /\ \A k \in 1 .. Len(u.stack) : u.stack[k] = w.stack[k]
<1> DEFINE s == SubSeq(w.stack, 1, Len(w.stack) - 1)
           u == [w EXCEPT !.stack = s, !.dropFrame = TRUE]
<1>1. w.stack \in Seq(Objects) /\ Len(w.stack) \in Nat /\ Len(w.stack) >= 1
  BY TopIsObject DEF Worlds
<1>2. s \in Seq(Objects) /\ Len(s) = Len(w.stack) - 1
      /\ \A k \in 1 .. Len(s) : s[k] = w.stack[k]
  BY <1>1, SubSeqProperties
<1> HIDE DEF s
<1>3. u \in Worlds /\ u.stack = s /\ u.dropFrame = TRUE
      /\ u.ok = w.ok /\ u.defined = w.defined /\ KeepsFile(w, u)
  BY <1>2 DEF Worlds, KeepsFile
<1>4. PopState(w) = u
  BY DEF PopState, s
<1> HIDE DEF u
<1> QED
  BY <1>2, <1>3, <1>4

-----------------------------------------------------------------------------
(* Integers in a packet *)

LEMMA BytesAreRead ==
    ASSUME NEW n \in Numbers
    PROVE  /\ Bytes(n) \in Seq(Byte) /\ Bytes(n) # <<>> /\ Len(Bytes(n)) = 2
           /\ Bytes(n)[1] * ByteBase + Bytes(n)[2] = n
<1> DEFINE h == n \div ByteBase
           l == n % ByteBase
<1>1. ByteBase \in Nat \ {0, 1} /\ n \in Nat /\ n < ByteBase * ByteBase
  BY ByteBaseAssumption DEF Numbers
<1>2. h \in Nat /\ l \in 0 .. (ByteBase - 1) /\ h * ByteBase + l = n
  BY <1>1
<1>3. h < ByteBase
  <2>1. ASSUME h >= ByteBase
        PROVE  FALSE
    <3>1. h * ByteBase >= ByteBase * ByteBase
      BY <1>1, <1>2, <2>1
    <3> QED
      BY <1>1, <1>2, <3>1
  <2> QED
    BY <1>1, <1>2, <2>1
<1>4. Bytes(n) = <<h, l>> /\ h \in Byte /\ l \in Byte
  BY <1>1, <1>2, <1>3 DEF Bytes, Byte
<1> HIDE DEF h, l
<1>5. <<h, l>> \in Seq(Byte) /\ <<h, l>> # <<>> /\ Len(<<h, l>>) = 2
      /\ <<h, l>>[1] = h /\ <<h, l>>[2] = l
  BY <1>4
<1> QED
  BY <1>2, <1>4, <1>5

LEMMA LoadedPacket ==
    ASSUME NEW bytes \in Seq(Byte)
    PROVE  LET p == Load(Packet, bytes) IN
              p.data = bytes /\ p.readPos = 0 /\ p.valid = TRUE
<1>1. <<>> \o bytes = bytes
  BY ConcatEmptySeq
<1> QED
  BY <1>1 DEF Load, Packet

LEMMA ReadIsNumber ==
    ASSUME NEW bytes \in Seq(Byte), NEW m \in Numbers
    PROVE  ReadInt(Load(Packet, bytes), m) \in Numbers
<1> DEFINE p == Load(Packet, bytes)
<1>1. p.data = bytes /\ p.readPos = 0 /\ p.valid = TRUE
  BY LoadedPacket
<1> HIDE DEF p
<1>2. ByteBase \in Nat \ {0, 1} /\ Len(bytes) \in Nat
  BY ByteBaseAssumption, LenProperties
<1>3. CASE CheckSize(p)
  <2>1. 2 <= Len(bytes)
    BY <1>1, <1>2, <1>3 DEF CheckSize, IntSize
  <2>2. bytes[1] \in Byte /\ bytes[2] \in Byte
    BY <1>2, <2>1, ElementOfSeq
  <2> DEFINE a == bytes[1]
             b == bytes[2]
  <2>3. a \in Nat /\ b \in Nat /\ a <= ByteBase - 1 /\ b <= ByteBase - 1
    BY <1>2, <2>2 DEF Byte
  <2>4. ReadInt(p, m) = a * ByteBase + b
    BY <1>1, <1>3 DEF ReadInt
  <2> HIDE DEF a, b
  <2>5. a * ByteBase <= (ByteBase - 1) * ByteBase
    BY <1>2, <2>3
  <2>6. (ByteBase - 1) * ByteBase = ByteBase * ByteBase - ByteBase
    BY <1>2
  <2>7. a * ByteBase \in Nat /\ ByteBase * ByteBase \in Nat
    BY <1>2, <2>3
  <2>8. a * ByteBase + b \in 0 .. (ByteBase * ByteBase - 1)
    BY <1>2, <2>3, <2>5, <2>6, <2>7
  <2> QED
    BY <2>4, <2>8 DEF Numbers, p
<1>4. CASE ~CheckSize(p)
  BY <1>4 DEF ReadInt, p
<1> QED
  BY <1>3, <1>4

LEMMA WrittenPacket ==
    ASSUME NEW n \in Numbers
    PROVE  WriteInt(Packet, n).data = Bytes(n)
<1>1. Bytes(n) \in Seq(Byte)
  BY BytesAreRead
<1>2. <<>> \o Bytes(n) = Bytes(n)
  BY <1>1, ConcatEmptySeq
<1> QED
  BY <1>2 DEF WriteInt, Packet

LEMMA ReadsBack ==
    ASSUME NEW n \in Numbers, NEW m
    PROVE  ReadInt(Load(Packet, Bytes(n)), m) = n
<1> DEFINE p == Load(Packet, Bytes(n))
<1>1. p.data = Bytes(n) /\ p.readPos = 0 /\ p.valid = TRUE
  BY BytesAreRead, LoadedPacket
<1> HIDE DEF p
<1>2. CheckSize(p)
  BY <1>1, BytesAreRead DEF CheckSize, IntSize
<1>3. ReadInt(p, m) = Bytes(n)[1] * ByteBase + Bytes(n)[2]
  BY <1>1, <1>2 DEF ReadInt
<1> QED
  BY <1>3, BytesAreRead DEF p

-----------------------------------------------------------------------------
(* What the setters of the options change *)

\* Everything but the settings.
Sets(w, u) ==
    /\ Keeps(w, u) /\ KeepsFile(w, u)
    /\ u.stack # <<>>
    /\ Top(u).picker = Top(w).picker /\ Top(u).name = Top(w).name

LEMMA FullScreenSets ==
    ASSUME NEW w \in Worlds, NEW inp \in Inputs, w.stack # <<>>
    PROVE  Sets(w, FullScreenSet(w, inp))
<1>1. PICK b \in BOOLEAN : FullScreenSet(w, inp) = [w EXCEPT !.fullScreen = b]
  <2> DEFINE c == IF inp.click = 1 /\ inp.spot \in {1, 2} THEN inp.spot = 2 ELSE w.fullScreen
             b == IF Pressed(inp, {"Left", "Right"}) THEN ~c ELSE c
  <2>1. FullScreenSet(w, inp) = [w EXCEPT !.fullScreen = b]
    BY DEF FullScreenSet
  <2>2. w.fullScreen \in BOOLEAN
    BY DEF Worlds
  <2>3. c \in BOOLEAN
    BY <2>2, Zenon
  <2>4. b \in BOOLEAN
    BY <2>3, Zenon
  <2> HIDE DEF b
  <2> QED
    BY <2>1, <2>4
<1> DEFINE u == [w EXCEPT !.fullScreen = b]
<1>2. u \in Worlds /\ u.stack = w.stack /\ u.ok = w.ok /\ u.dropFrame = w.dropFrame
      /\ u.defined = w.defined /\ KeepsFile(w, u)
  BY DEF Worlds, KeepsFile
<1> HIDE DEF u
<1> QED
  BY <1>1, <1>2 DEF Sets, Keeps, Same, Top, u

LEMMA AspectSets ==
    ASSUME NEW w \in Worlds, NEW inp \in Inputs, w.stack # <<>>
    PROVE  Sets(w, AspectSet(w, inp))
<1>1. PICK a \in 0 .. 2 : AspectSet(w, inp) = [w EXCEPT !.aspectRatio = a]
  <2> DEFINE c == IF inp.click = 1 /\ inp.spot \in 0 .. 2 THEN inp.spot ELSE w.aspectRatio
             r == IF "Right" \in inp.pressed THEN (c + 1) % 3 ELSE c
             a == IF "Left" \in inp.pressed THEN (r + 2) % 3 ELSE r
  <2>1. AspectSet(w, inp) = [w EXCEPT !.aspectRatio = a]
    BY DEF AspectSet
  <2>2. w.aspectRatio \in 0 .. 2
    BY DEF Worlds
  <2>3. c \in 0 .. 2
    BY <2>2
  <2> HIDE DEF c
  <2>4. r \in 0 .. 2
    BY <2>3
  <2> HIDE DEF r
  <2>5. a \in 0 .. 2
    BY <2>4
  <2> HIDE DEF a
  <2> QED
    BY <2>1, <2>5
<1> DEFINE u == [w EXCEPT !.aspectRatio = a]
<1>2. u \in Worlds /\ u.stack = w.stack /\ u.ok = w.ok /\ u.dropFrame = w.dropFrame
      /\ u.defined = w.defined /\ KeepsFile(w, u)
  BY DEF Worlds, KeepsFile
<1> HIDE DEF u
<1> QED
  BY <1>1, <1>2 DEF Sets, Keeps, Same, Top, u

LEMMA VolumeSets ==
    ASSUME NEW w \in Worlds, NEW inp \in Inputs, w.stack # <<>>
    PROVE  Sets(w, VolumeSet(w, inp))
<1>0. Top(w) \in Objects /\ Top(w).moveTimer \in Nat
  BY TopIsObject DEF Objects
<1>1. PICK v \in Int, t \in Nat :
          VolumeSet(w, inp) = [SetTop(w, [Top(w) EXCEPT !.moveTimer = t]) EXCEPT !.volume = v]
  <2> DEFINE d == IF inp.click > 0 THEN Clamp(inp.spot) ELSE w.volume
             timer == Top(w).moveTimer
             steps == timer = 0 \/ RepeatDelay < timer
             by == IF ~steps THEN 0
                   ELSE IF "Right" \in inp.held THEN 1
                   ELSE IF "Left" \in inp.held THEN -1 ELSE 0
             moving == inp.held \cap {"Left", "Right"} # {}
             capped == IF timer > RepeatDelay THEN timer ELSE timer + 1
             t == IF moving THEN capped ELSE 0
  <2>1. VolumeSet(w, inp) =
            [SetTop(w, [Top(w) EXCEPT !.moveTimer = t]) EXCEPT !.volume = Clamp(d + by)]
    BY DEF VolumeSet
  <2>2. \A i \in Int : Clamp(i) \in Int
    BY StackAssumption DEF Clamp
  <2>3. w.volume \in Int /\ inp.spot \in Int
    BY DEF Worlds, Inputs
  <2>4. d \in Int
    BY <2>2, <2>3
  <2>5. by \in Int
    OBVIOUS
  <2>6. t \in Nat
    BY <1>0
  <2> HIDE DEF d, by, t
  <2>7. Clamp(d + by) \in Int
    BY <2>2, <2>4, <2>5
  <2> QED
    BY <2>1, <2>6, <2>7
<1> DEFINE o == [Top(w) EXCEPT !.moveTimer = t]
           s == SetTop(w, o)
           u == [s EXCEPT !.volume = v]
<1>2. o \in Objects /\ o.name = Top(w).name /\ o.picker = Top(w).picker
  BY <1>0 DEF Objects
<1> HIDE DEF o
<1>3. Keeps(w, s) /\ KeepsFile(w, s) /\ s.stack # <<>> /\ Top(s) = o
  BY <1>2, SetTopKeeps
<1>4. s \in Worlds
  BY <1>3 DEF Keeps
<1> HIDE DEF s
<1>5. u \in Worlds /\ u.stack = s.stack /\ u.ok = s.ok /\ u.dropFrame = s.dropFrame
      /\ u.defined = s.defined /\ u.file = s.file /\ u.lastSaved = s.lastSaved
  BY <1>4 DEF Worlds
<1>6. VolumeSet(w, inp) = u
  BY <1>1 DEF u, s, o
<1> HIDE DEF u
<1>7. Sets(w, u)
  BY <1>2, <1>3, <1>5 DEF Sets, Keeps, KeepsFile, Top
<1> QED
  BY <1>6, <1>7

-----------------------------------------------------------------------------
(* What the states' Update does to the stack *)

Asks(inp) == inp.pressed # {} \/ inp.click = 1

Pushed(w, u) ==
    /\ Len(u.stack) = Len(w.stack) + 1
    /\ \A k \in 1 .. Len(w.stack) : u.stack[k].name = w.stack[k].name
    /\ Top(u).name \in Below[Top(w).name]

Popped(w, u) ==
    /\ Len(u.stack) = Len(w.stack) - 1
    /\ \A k \in 1 .. Len(u.stack) : u.stack[k].name = w.stack[k].name
    /\ Top(w).name # "MenuState"

\* An error is one of a screen that could not be opened.
Faultless(w, u) == ~u.ok => \E screen \in Opened(u) : ~(Uses(screen) \subseteq w.defined)

\* At most one step in the tree, in a frame with something pressed, and then
\* nothing is drawn.
Moves(w, u, inp) ==
    /\ u \in Worlds /\ u.defined = w.defined
    /\ \/ Same(w.stack, u.stack)
       \/ Asks(inp) /\ u.dropFrame /\ u.ok /\ (Pushed(w, u) \/ Popped(w, u))
    /\ Faultless(w, u)

FileMoves(w, u) == KeepsFile(w, u) \/ u.file = {Bytes(u.lastSaved)}

LEMMA PickedIsEntry ==
    ASSUME NEW n \in {4, 5}, NEW p \in 0 .. (n - 1), NEW inp \in Inputs
    PROVE  Picked(p, n, inp) \in 0 .. (n - 1)
<1> DEFINE over == IF inp.over \in 0 .. (n - 1) THEN inp.over ELSE p
           up == IF "Up" \in inp.pressed THEN (over + n - 1) % n ELSE over
<1>1. over \in 0 .. (n - 1)
  OBVIOUS
<1> HIDE DEF over
<1>2. up \in 0 .. (n - 1)
  <2>1. CASE n = 4
    BY <1>1, <2>1
  <2>2. CASE n = 5
    BY <1>1, <2>2
  <2> QED
    BY <2>1, <2>2
<1> HIDE DEF up
<1>3. (up + 1) % n \in 0 .. (n - 1)
  <2>1. CASE n = 4
    BY <1>2, <2>1
  <2>2. CASE n = 5
    BY <1>2, <2>2
  <2> QED
    BY <2>1, <2>2
<1> QED
  BY <1>2, <1>3 DEF Picked, up, over

\* The first thing a menu does: the cursor.
LEMMA CursorMoves ==
    ASSUME NEW w \in Worlds, w.stack # <<>>, NEW p \in 0 .. 4,
           Top(w).name = "OptionsState" => p <= 3
    PROVE  LET u == SetTop(w, [Top(w) EXCEPT !.picker = p]) IN
              /\ Keeps(w, u) /\ KeepsFile(w, u) /\ u \in Worlds
              /\ u.stack # <<>> /\ Top(u).name = Top(w).name /\ Top(u).picker = p
<1> DEFINE o == [Top(w) EXCEPT !.picker = p]
<1>1. Top(w) \in Objects
  BY TopIsObject
<1>2. o \in Objects /\ o.name = Top(w).name /\ o.picker = p
  BY <1>1 DEF Objects
<1> HIDE DEF o
<1>3. Keeps(w, SetTop(w, o)) /\ KeepsFile(w, SetTop(w, o))
      /\ SetTop(w, o).stack # <<>> /\ Top(SetTop(w, o)) = o
  BY <1>2, SetTopKeeps
<1> QED
  BY <1>2, <1>3 DEF Keeps, o

\* PushState after steps that left the stack where it was.
LEMMA PushMoves ==
    ASSUME NEW w \in Worlds, w.stack # <<>>, w.ok, NEW v, Keeps(w, v), KeepsFile(w, v),
           v.stack # <<>>, Top(v).name = Top(w).name,
           NEW name \in States, name \in Below[Top(w).name], name \in Opened(v)
    PROVE  LET u == PushState(v, name) IN
              /\ u \in Worlds /\ u.defined = w.defined /\ KeepsFile(w, u)
              /\ \/ u.dropFrame /\ u.ok /\ Pushed(w, u) /\ Len(u.stack) >= 2
                    /\ \A k \in 1 .. Len(v.stack) : u.stack[k] = v.stack[k]
                 \/ Same(w.stack, u.stack) /\ ~u.ok /\ Faultless(w, u)
<1> DEFINE u == PushState(v, name)
<1>1. v \in Worlds /\ v.ok /\ v.defined = w.defined /\ Same(w.stack, v.stack)
  BY DEF Keeps
<1>2. /\ u \in Worlds /\ u.defined = v.defined /\ KeepsFile(v, u)
      /\ \/ u.ok /\ u.dropFrame /\ u.stack = Append(v.stack, New(name))
         \/ u = Fail(v) /\ ~(Uses(name) \subseteq v.defined)
  BY <1>1, PushStateEffect
<1> HIDE DEF u
<1>3. KeepsFile(w, u)
  BY <1>2 DEF KeepsFile
<1>4. v.stack \in Seq(Objects) /\ Len(v.stack) \in Nat /\ Len(v.stack) >= 1
      /\ Len(v.stack) = Len(w.stack)
  BY <1>1, TopIsObject DEF Same, Worlds
<1>5. CASE u.ok /\ u.dropFrame /\ u.stack = Append(v.stack, New(name))
  <2>1. /\ Len(u.stack) = Len(v.stack) + 1
        /\ \A k \in 1 .. Len(v.stack) : u.stack[k] = v.stack[k]
        /\ u.stack[Len(v.stack) + 1] = New(name)
    BY <1>4, <1>5, NewIsObject, AppendProperties
  <2>2. Top(u).name = name
    BY <2>1, NewIsObject DEF Top
  <2>3. Pushed(w, u)
    BY <1>1, <1>4, <2>1, <2>2 DEF Pushed, Same
  <2> QED
    BY <1>1, <1>2, <1>3, <1>4, <1>5, <2>1, <2>3 DEF u
<1>6. CASE u = Fail(v) /\ ~(Uses(name) \subseteq v.defined)
  <2>1. u.stack = v.stack /\ ~u.ok
    BY <1>1, <1>6, FailKeeps
  <2>2. Opened(u) = Opened(v)
    BY <2>1 DEF Opened, Top
  <2> QED
    BY <1>1, <1>2, <1>3, <1>6, <2>1, <2>2 DEF Faultless, u
<1> QED
  BY <1>2, <1>5, <1>6

LEMMA LeaveMoves ==
    ASSUME NEW w \in Worlds, w.stack # <<>>, w.ok, NEW inp \in Inputs, NEW v,
           Keeps(w, v), v.stack # <<>>, Top(w).name # "MenuState"
    PROVE  Moves(w, Leave(v, inp), inp) /\ KeepsFile(v, Leave(v, inp))
<1>1. v \in Worlds /\ v.ok /\ v.defined = w.defined /\ Same(w.stack, v.stack)
  BY DEF Keeps
<1>2. CASE "B" \in inp.pressed
  <2> DEFINE u == PopState(v)
  <2>1. /\ u \in Worlds /\ u.ok /\ u.dropFrame /\ u.defined = v.defined /\ KeepsFile(v, u)
        /\ Len(u.stack) = Len(v.stack) - 1
        /\ \A k \in 1 .. Len(u.stack) : u.stack[k] = v.stack[k]
    BY <1>1, PopStateEffect
  <2>2. Leave(v, inp) = u
    BY <1>2 DEF Leave
  <2> HIDE DEF u
  <2>3. Len(v.stack) \in Nat /\ Len(v.stack) >= 1
    BY <1>1, TopIsObject
  <2>4. Popped(w, u)
    BY <1>1, <2>1, <2>3 DEF Popped, Same
  <2>5. Moves(w, u, inp)
    BY <1>1, <1>2, <2>1, <2>4 DEF Moves, Asks, Faultless
  <2> QED
    BY <2>1, <2>2, <2>5
<1>3. CASE "B" \notin inp.pressed
  <2>1. Leave(v, inp) = v
    BY <1>3 DEF Leave
  <2> QED
    BY <1>1, <2>1 DEF Moves, Faultless, KeepsFile
<1> QED
  BY <1>2, <1>3

-----------------------------------------------------------------------------
(* The states *)

LEMMA MenuMoves ==
    ASSUME NEW w \in Worlds, w.stack # <<>>, w.ok, NEW inp \in Inputs,
           Top(w).name = "MenuState"
    PROVE  Moves(w, MenuUpdate(w, inp), inp) /\ KeepsFile(w, MenuUpdate(w, inp))
<1> DEFINE p == Picked(Top(w).picker, 5, inp)
           v == SetTop(w, [Top(w) EXCEPT !.picker = p])
<1>1. p \in 0 .. 4
  <2>1. Top(w).picker \in 0 .. 4
    BY TopIsObject DEF Objects
  <2> QED
    BY <2>1, PickedIsEntry
<1> HIDE DEF p
<1>2. /\ Keeps(w, v) /\ KeepsFile(w, v) /\ v \in Worlds
      /\ v.stack # <<>> /\ Top(v).name = "MenuState" /\ Top(v).picker = p
  BY <1>1, CursorMoves
<1> HIDE DEF v
<1>3. v.ok /\ v.defined = w.defined /\ Same(w.stack, v.stack)
  BY <1>2 DEF Keeps
<1>4. MenuUpdate(w, inp) = IF ~Chosen(inp) THEN v
                          ELSE IF p = 4 THEN [v EXCEPT !.quit = TRUE]
                          ELSE PushState(v, Entries[p + 1])
  BY DEF MenuUpdate, p, v
<1>5. CASE ~Chosen(inp)
  BY <1>2, <1>3, <1>4, <1>5 DEF Moves, Faultless
<1>6. CASE Chosen(inp) /\ p = 4
  <2> DEFINE u == [v EXCEPT !.quit = TRUE]
  <2>1. u \in Worlds /\ u.stack = v.stack /\ u.ok = v.ok /\ u.defined = v.defined
        /\ u.file = v.file /\ u.lastSaved = v.lastSaved
    BY <1>2 DEF Worlds
  <2>2. MenuUpdate(w, inp) = u
    BY <1>4, <1>6
  <2> HIDE DEF u
  <2> QED
    BY <1>2, <1>3, <2>1, <2>2 DEF Moves, Faultless, KeepsFile
<1>7. CASE Chosen(inp) /\ p # 4
  <2> DEFINE name == Entries[p + 1]
             u == PushState(v, name)
  <2>1. p \in 0 .. 3
    BY <1>1, <1>7
  <2>2. name \in {"SoundTestState", "InputTestState", "SaveTestState", "OptionsState"}
    BY <2>1 DEF Entries
  <2>3. name \in States /\ name \in Below[Top(w).name]
    BY <2>2 DEF States, Below
  <2>4. name \in Opened(v)
    BY <1>2, <2>1 DEF Opened
  <2>5. MenuUpdate(w, inp) = u
    BY <1>4, <1>7
  <2>6. Asks(inp)
    BY <1>7 DEF Asks, Chosen, Pressed
  <2> HIDE DEF name
  <2>7. /\ u \in Worlds /\ u.defined = w.defined /\ KeepsFile(w, u)
        /\ \/ u.dropFrame /\ u.ok /\ Pushed(w, u)
           \/ Same(w.stack, u.stack) /\ ~u.ok /\ Faultless(w, u)
    BY <1>2, <2>3, <2>4, PushMoves
  <2> HIDE DEF u
  <2> QED
    BY <2>5, <2>6, <2>7 DEF Moves, Faultless
<1> QED
  BY <1>5, <1>6, <1>7

\* A and B together: the screen that was pushed is popped again.
LEMMA PushedAndLeft ==
    ASSUME NEW w \in Worlds, w.stack # <<>>, NEW inp \in Inputs, NEW v \in Worlds,
           v.stack # <<>>, NEW x \in Worlds, x.stack # <<>>, Asks(inp),
           Same(w.stack, v.stack), x.defined = w.defined,
           \/ /\ x.dropFrame /\ x.ok /\ Pushed(w, x) /\ Len(x.stack) >= 2
              /\ \A k \in 1 .. Len(v.stack) : x.stack[k] = v.stack[k]
           \/ Same(w.stack, x.stack) /\ ~x.ok /\ Faultless(w, x)
    PROVE  Moves(w, Leave(x, inp), inp) /\ KeepsFile(x, Leave(x, inp))
<1>1. CASE "B" \notin inp.pressed
  <2>1. Leave(x, inp) = x
    BY <1>1 DEF Leave
  <2> QED
    BY <2>1 DEF Moves, Faultless, KeepsFile
<1>2. CASE "B" \in inp.pressed /\ ~x.ok
  <2>1. Leave(x, inp) = x
    BY <1>2 DEF Leave, PopState
  <2> QED
    BY <1>2, <2>1 DEF Moves, Faultless, KeepsFile
<1>3. CASE "B" \in inp.pressed /\ x.ok
  <2> DEFINE u == PopState(x)
  <2>1. /\ u \in Worlds /\ u.ok /\ u.dropFrame /\ u.defined = x.defined /\ KeepsFile(x, u)
        /\ Len(u.stack) = Len(x.stack) - 1
        /\ \A k \in 1 .. Len(u.stack) : u.stack[k] = x.stack[k]
    BY <1>3, PopStateEffect
  <2>2. Leave(x, inp) = u
    BY <1>3 DEF Leave
  <2> HIDE DEF u
  <2>3. Len(w.stack) \in Nat /\ Len(x.stack) \in Nat
    BY TopIsObject
  <2>4. Pushed(w, x)
    BY <1>3
  <2>5. Same(w.stack, u.stack)
    BY <2>1, <2>3, <2>4 DEF Pushed, Same
  <2> QED
    BY <2>1, <2>2, <2>5 DEF Moves, Faultless
<1> QED
  BY <1>1, <1>2, <1>3

LEMMA OptionsMoves ==
    ASSUME NEW w \in Worlds, w.stack # <<>>, w.ok, NEW inp \in Inputs,
           Top(w).name = "OptionsState"
    PROVE  Moves(w, OptionsUpdate(w, inp), inp) /\ KeepsFile(w, OptionsUpdate(w, inp))
<1> DEFINE p == Picked(Top(w).picker, 4, inp)
           v == SetTop(w, [Top(w) EXCEPT !.picker = p])
           x == CASE p = 0 -> FullScreenSet(v, inp)
                  [] p = 1 -> AspectSet(v, inp)
                  [] p = 2 -> VolumeSet(v, inp)
                  [] p = 3 -> IF Chosen(inp) THEN PushState(v, "RebindState") ELSE v
<1>1. p \in 0 .. 3
  <2>1. Top(w).picker \in 0 .. 3
    BY TopIsObject DEF Objects
  <2> QED
    BY <2>1, PickedIsEntry
<1>2. OptionsUpdate(w, inp) = Leave(x, inp)
  BY DEF OptionsUpdate
<1> HIDE DEF p
<1>3. /\ Keeps(w, v) /\ KeepsFile(w, v) /\ v \in Worlds
      /\ v.stack # <<>> /\ Top(v).name = "OptionsState" /\ Top(v).picker = p
  <2>1. p \in 0 .. 4 /\ p <= 3
    BY <1>1
  <2> QED
    BY <2>1, CursorMoves
<1> HIDE DEF v
<1>4. ASSUME NEW u, Sets(v, u), x = u
      PROVE  Moves(w, OptionsUpdate(w, inp), inp) /\ KeepsFile(w, OptionsUpdate(w, inp))
  <2>1. Keeps(v, u) /\ KeepsFile(v, u) /\ u.stack # <<>>
    BY <1>4 DEF Sets
  <2>2. Keeps(w, u)
    BY <1>3, <2>1, SameIsTransitive
  <2>3. Moves(w, Leave(u, inp), inp) /\ KeepsFile(u, Leave(u, inp))
    BY <2>1, <2>2, LeaveMoves
  <2> HIDE DEF x
  <2> QED
    BY <1>2, <1>3, <1>4, <2>1, <2>3 DEF KeepsFile
<1>5. CASE p = 0
  <2>1. x = FullScreenSet(v, inp)
    BY <1>5
  <2> HIDE DEF x
  <2> QED
    BY <1>3, <1>4, <2>1, FullScreenSets
<1>6. CASE p = 1
  <2>1. x = AspectSet(v, inp)
    BY <1>6
  <2> HIDE DEF x
  <2> QED
    BY <1>3, <1>4, <2>1, AspectSets
<1>7. CASE p = 2
  <2>1. x = VolumeSet(v, inp)
    BY <1>7
  <2> HIDE DEF x
  <2> QED
    BY <1>3, <1>4, <2>1, VolumeSets
<1>8. CASE p = 3 /\ ~Chosen(inp)
  <2>1. x = v
    BY <1>8
  <2> HIDE DEF x
  <2>2. Moves(w, Leave(v, inp), inp) /\ KeepsFile(v, Leave(v, inp))
    BY <1>3, LeaveMoves
  <2> QED
    BY <1>2, <1>3, <2>1, <2>2 DEF KeepsFile
<1>9. CASE p = 3 /\ Chosen(inp)
  <2> DEFINE u == PushState(v, "RebindState")
  <2>1. x = u
    BY <1>9
  <2> HIDE DEF x
  <2>2. "RebindState" \in States /\ "RebindState" \in Below[Top(w).name]
    BY DEF States, Below
  <2>3. "RebindState" \in Opened(v)
    BY <1>3 DEF Opened
  <2>4. /\ u \in Worlds /\ u.defined = w.defined /\ KeepsFile(w, u)
        /\ \/ u.dropFrame /\ u.ok /\ Pushed(w, u) /\ Len(u.stack) >= 2
              /\ \A k \in 1 .. Len(v.stack) : u.stack[k] = v.stack[k]
           \/ Same(w.stack, u.stack) /\ ~u.ok /\ Faultless(w, u)
    BY <1>3, <2>2, <2>3, PushMoves
  <2> HIDE DEF u
  <2>5. Len(w.stack) >= 1
    BY TopIsObject
  <2>6. u.stack # <<>>
    BY <2>4, <2>5 DEF Same
  <2>7. Asks(inp) /\ Same(w.stack, v.stack)
    BY <1>3, <1>9 DEF Asks, Chosen, Pressed, Keeps
  <2>8. Moves(w, Leave(u, inp), inp) /\ KeepsFile(u, Leave(u, inp))
    BY <1>3, <2>4, <2>6, <2>7, PushedAndLeft
  <2> QED
    BY <1>2, <2>1, <2>4, <2>8 DEF KeepsFile
<1> QED
  BY <1>1, <1>5, <1>6, <1>7, <1>8, <1>9

LEMMA SaveTestMoves ==
    ASSUME NEW w \in Worlds, w.stack # <<>>, w.ok, NEW inp \in Inputs,
           Top(w).name = "SaveTestState"
    PROVE  Moves(w, SaveTestUpdate(w, inp), inp) /\ FileMoves(w, SaveTestUpdate(w, inp))
<1> DEFINE a == Loaded(w, inp)
           b == Saved(a, inp)
           c == Counted(b, inp)
<1>1. ASSUME NEW v \in Worlds, v.stack # <<>>, NEW n \in Numbers
      PROVE  LET u == SetTop(v, [Top(v) EXCEPT !.number = n]) IN
                Keeps(v, u) /\ KeepsFile(v, u) /\ u.stack # <<>> /\ u \in Worlds
  <2> DEFINE o == [Top(v) EXCEPT !.number = n]
  <2>1. o \in Objects /\ o.name = Top(v).name
    BY <1>1, TopIsObject DEF Objects
  <2> HIDE DEF o
  <2>2. Keeps(v, SetTop(v, o)) /\ KeepsFile(v, SetTop(v, o)) /\ SetTop(v, o).stack # <<>>
    BY <1>1, <2>1, SetTopKeeps
  <2> QED
    BY <2>2 DEF Keeps, o
<1>2. Keeps(w, a) /\ KeepsFile(w, a) /\ a.stack # <<>> /\ a \in Worlds
  <2>1. CASE "Up" \in inp.pressed /\ w.file # {}
    <3> DEFINE bytes == CHOOSE y \in w.file : TRUE
               n == ReadInt(Load(Packet, bytes), inp.memory)
    <3>1. bytes \in Seq(Byte) /\ inp.memory \in Numbers
      <4>1. w.file \in SUBSET Seq(Byte)
        BY DEF Worlds
      <4> QED
        BY <2>1, <4>1 DEF Inputs
    <3>2. a = SetTop(w, [Top(w) EXCEPT !.number = n])
      BY <2>1 DEF Loaded
    <3> HIDE DEF bytes
    <3>3. n \in Numbers
      BY <3>1, ReadIsNumber
    <3> HIDE DEF n, a
    <3> QED
      BY <1>1, <3>2, <3>3
  <2>2. CASE ~("Up" \in inp.pressed /\ w.file # {})
    <3>1. a = w
      BY <2>2 DEF Loaded
    <3> QED
      BY <3>1 DEF Keeps, KeepsFile, Same
  <2> QED
    BY <2>1, <2>2
<1> HIDE DEF a
<1>3. Keeps(a, b) /\ FileMoves(a, b) /\ b.stack # <<>> /\ b \in Worlds
  <2>1. CASE "Down" \in inp.pressed /\ inp.opens
    <3> DEFINE n == Top(a).number
    <3>1. n \in Numbers
      BY <1>2, TopIsObject DEF Objects
    <3>2. b = [a EXCEPT !.file = {Bytes(n)}, !.lastSaved = n]
      BY <2>1, <3>1, WrittenPacket DEF Saved
    <3>3. {Bytes(n)} \in SUBSET Seq(Byte)
      BY <3>1, BytesAreRead
    <3> HIDE DEF n, b
    <3>4. b \in Worlds /\ b.stack = a.stack /\ b.ok = a.ok /\ b.dropFrame = a.dropFrame
          /\ b.defined = a.defined /\ b.file = {Bytes(n)} /\ b.lastSaved = n
      BY <1>2, <3>1, <3>2, <3>3 DEF Worlds
    <3> QED
      BY <1>2, <3>4 DEF Keeps, Same, FileMoves
  <2>2. CASE ~("Down" \in inp.pressed /\ inp.opens)
    <3>1. b = a
      BY <2>2 DEF Saved
    <3> QED
      BY <1>2, <3>1 DEF Keeps, Same, KeepsFile, FileMoves
  <2> QED
    BY <2>1, <2>2
<1> HIDE DEF b
<1>4. Keeps(b, c) /\ KeepsFile(b, c) /\ c.stack # <<>>
  <2>1. CASE Pressed(inp, {"Select", "A"})
    <3> DEFINE n == (Top(b).number + 1) % (ByteBase * ByteBase)
    <3>1. n \in Numbers
      <4>1. Top(b).number \in Nat
        BY <1>3, TopIsObject, NumbersAreNat DEF Objects
      <4>2. ByteBase * ByteBase \in Nat /\ ByteBase * ByteBase > 0
        BY ByteBaseAssumption
      <4> QED
        BY <4>1, <4>2 DEF Numbers
    <3>2. c = SetTop(b, [Top(b) EXCEPT !.number = n])
      BY <2>1 DEF Counted
    <3> HIDE DEF n, c
    <3> QED
      BY <1>1, <1>3, <3>1, <3>2
  <2>2. CASE ~Pressed(inp, {"Select", "A"})
    <3>1. c = b
      BY <2>2 DEF Counted
    <3> QED
      BY <1>3, <3>1 DEF Keeps, Same, KeepsFile
  <2> QED
    BY <2>1, <2>2
<1> HIDE DEF c
<1>5. Keeps(w, c)
  BY <1>2, <1>3, <1>4, SameIsTransitive
<1>6. Moves(w, Leave(c, inp), inp) /\ KeepsFile(c, Leave(c, inp))
  BY <1>4, <1>5, LeaveMoves
<1>7. SaveTestUpdate(w, inp) = Leave(c, inp)
  BY DEF SaveTestUpdate, a, b, c
<1>8. FileMoves(w, Leave(c, inp))
  BY <1>2, <1>3, <1>4, <1>6 DEF KeepsFile, FileMoves
<1> QED
  BY <1>6, <1>7, <1>8

LEMMA RebindMoves ==
    ASSUME NEW w \in Worlds, w.stack # <<>>, w.ok, NEW inp \in Inputs,
           Top(w).name = "RebindState"
    PROVE  Moves(w, RebindUpdate(w, inp), inp) /\ KeepsFile(w, RebindUpdate(w, inp))
<1>1. Keeps(w, w)
  BY DEF Keeps, Same
<1>2. CASE Top(w).asks = 0
  <2>1. RebindUpdate(w, inp) = Leave(w, inp)
    BY <1>2 DEF RebindUpdate
  <2> QED
    BY <1>1, <2>1, LeaveMoves
<1>3. CASE Top(w).asks # 0 /\ inp.done
  <2> DEFINE o == [Top(w) EXCEPT !.asks = 0]
             u == SetTop(w, o)
  <2>1. o \in Objects /\ o.name = Top(w).name
    BY TopIsObject DEF Objects
  <2>2. RebindUpdate(w, inp) = u
    BY <1>3 DEF RebindUpdate
  <2> HIDE DEF o
  <2>3. Keeps(w, u) /\ KeepsFile(w, u)
    BY <2>1, SetTopKeeps
  <2> HIDE DEF u
  <2> QED
    BY <2>2, <2>3 DEF Keeps, Moves, Faultless
<1>4. CASE Top(w).asks # 0 /\ ~inp.done
  <2>1. RebindUpdate(w, inp) = w
    BY <1>4 DEF RebindUpdate
  <2> QED
    BY <1>1, <2>1 DEF Moves, Faultless, Keeps, KeepsFile
<1> QED
  BY <1>2, <1>3, <1>4

LEMMA UpdateMoves ==
    ASSUME NEW w \in Worlds, w.stack # <<>>, w.ok, NEW inp \in Inputs
    PROVE  Moves(w, Update(w, inp), inp) /\ FileMoves(w, Update(w, inp))
<1>1. Top(w).name \in States
  BY TopIsObject
<1>2. CASE Top(w).name = "MenuState"
  <2>1. Update(w, inp) = MenuUpdate(w, inp)
    BY <1>2 DEF Update
  <2> QED
    BY <1>2, <2>1, MenuMoves DEF FileMoves
<1>3. CASE Top(w).name = "OptionsState"
  <2>1. Update(w, inp) = OptionsUpdate(w, inp)
    BY <1>3 DEF Update
  <2> QED
    BY <1>3, <2>1, OptionsMoves DEF FileMoves
<1>4. CASE Top(w).name = "SaveTestState"
  <2>1. Update(w, inp) = SaveTestUpdate(w, inp)
    BY <1>4 DEF Update
  <2> QED
    BY <1>4, <2>1, SaveTestMoves
<1>5. CASE Top(w).name = "RebindState"
  <2>1. Update(w, inp) = RebindUpdate(w, inp)
    BY <1>5 DEF Update
  <2> QED
    BY <1>5, <2>1, RebindMoves DEF FileMoves
<1>6. CASE Top(w).name \in {"SoundTestState", "InputTestState"}
  <2>1. Update(w, inp) = Leave(w, inp)
    BY <1>6 DEF Update
  <2>2. Keeps(w, w)
    BY DEF Keeps, Same
  <2> QED
    BY <1>6, <2>1, <2>2, LeaveMoves DEF FileMoves
<1> QED
  BY <1>1, <1>2, <1>3, <1>4, <1>5, <1>6 DEF States

-----------------------------------------------------------------------------
(* tick *)

ScreenOf(w) == IF w.stack = <<>> THEN "MenuState" ELSE Top(w).name

\* The path once the first frame has made the menu: Tree!Entered.
EnteredOf(w) == IF PathOf(w) = <<>> THEN <<"MenuState">> ELSE PathOf(w)

LEMMA PathIs ==
    ASSUME NEW w \in Worlds
    PROVE  /\ PathOf(w) \in Seq(States) /\ Len(PathOf(w)) = Len(w.stack)
           /\ Len(w.stack) \in Nat
           /\ \A k \in 1 .. Len(w.stack) : PathOf(w)[k] = w.stack[k].name
           /\ PathOf(w) = <<>> <=> w.stack = <<>>
<1> DEFINE s == w.stack
           n == Len(s)
<1>1. s \in Seq(Objects) /\ n \in Nat /\ DOMAIN s = 1 .. n
  BY DEF Worlds
<1>2. \A k \in 1 .. n : s[k].name \in States
  BY <1>1, ElementOfSeq DEF Objects
<1>3. PathOf(w) = [k \in 1 .. n |-> s[k].name]
  BY <1>1 DEF PathOf
<1>4. (s = <<>>) <=> (n = 0)
  BY <1>1, EmptySeq
<1> HIDE DEF s, n
<1>5. PathOf(w) \in [1 .. n -> States]
  BY <1>2, <1>3
<1>6. PathOf(w) \in Seq(States)
  BY <1>1, <1>5
<1>7. Len(PathOf(w)) = n
  BY <1>1, <1>5, <1>6, LenProperties
<1>8. PathOf(w) = <<>> <=> n = 0
  BY <1>6, <1>7, EmptySeq
<1>9. \A k \in 1 .. n : PathOf(w)[k] = s[k].name
  BY <1>3
<1> QED
  BY <1>1, <1>4, <1>6, <1>7, <1>8, <1>9 DEF s, n

LEMMA PathsAreEqual ==
    ASSUME NEW w \in Worlds, NEW u \in Worlds, Len(u.stack) = Len(w.stack),
           \A k \in 1 .. Len(w.stack) : u.stack[k].name = w.stack[k].name
    PROVE  PathOf(u) = PathOf(w)
<1>1. /\ DOMAIN w.stack = 1 .. Len(w.stack) /\ DOMAIN u.stack = 1 .. Len(u.stack)
  BY LenProperties DEF Worlds
<1> QED
  BY <1>1 DEF PathOf

\* The world the first call of tick starts with.
Fresh(w, s) ==
    /\ s \in Worlds /\ s.ok /\ s.stack # <<>> /\ s.defined = w.defined /\ KeepsFile(w, s)
    /\ IF w.stack = <<>> THEN s.stack = <<New("MenuState")>> ELSE s.stack = w.stack

LEMMA StartedIsFresh ==
    ASSUME NEW w \in Worlds, w.ok
    PROVE  LET s == Started(w) IN
              \/ Fresh(w, s)
              \/ /\ "MenuState" \notin w.defined /\ w.stack = <<>>
                 /\ s \in Worlds /\ ~s.ok /\ s.stack = w.stack /\ s.defined = w.defined
                 /\ KeepsFile(w, s)
<1> DEFINE d == [w EXCEPT !.dropFrame = FALSE]
           e == [w EXCEPT !.dropFrame = FALSE, !.stack = <<New("MenuState")>>]
<1>1. d \in Worlds /\ d.stack = w.stack /\ d.ok = w.ok /\ d.defined = w.defined
      /\ KeepsFile(w, d)
  BY DEF Worlds, KeepsFile
<1>2. <<New("MenuState")>> \in Seq(Objects) /\ <<New("MenuState")>> # <<>>
  <2>1. New("MenuState") \in Objects
    BY NewIsObject DEF States
  <2> QED
    BY <2>1
<1>3. e \in Worlds /\ e.stack = <<New("MenuState")>> /\ e.ok = w.ok /\ e.defined = w.defined
      /\ KeepsFile(w, e)
  BY <1>2 DEF Worlds, KeepsFile
<1>4. CASE w.stack # <<>>
  <2>1. Started(w) = d
    BY <1>4 DEF Started
  <2> HIDE DEF d
  <2> QED
    BY <1>1, <1>4, <2>1 DEF Fresh
<1>5. CASE w.stack = <<>> /\ Uses("MenuState") \subseteq w.defined
  <2>1. Started(w) = e
    BY <1>5 DEF Started
  <2> HIDE DEF e
  <2> QED
    BY <1>2, <1>3, <1>5, <2>1 DEF Fresh
<1>6. CASE w.stack = <<>> /\ ~(Uses("MenuState") \subseteq w.defined)
  <2>1. Started(w) = Fail(d)
    BY <1>6 DEF Started
  <2>2. "MenuState" \notin w.defined
    BY <1>6 DEF Uses
  <2> HIDE DEF d
  <2>3. Fail(d) \in Worlds /\ Fail(d).stack = d.stack /\ Fail(d).ok = FALSE
        /\ Fail(d).defined = d.defined /\ KeepsFile(d, Fail(d))
    BY <1>1, FailKeeps
  <2> QED
    BY <1>1, <1>6, <2>1, <2>2, <2>3 DEF KeepsFile
<1> QED
  BY <1>4, <1>5, <1>6

\* The scripts that an error of a frame can come from.
Culprit(w, u) ==
    \/ "MenuState" \notin w.defined
    \/ "Text" \notin w.defined
    \/ \E screen \in Opened(u) : ~(Uses(screen) \subseteq w.defined)

LEMMA TickMoves ==
    ASSUME NEW w \in Worlds, w.ok, NEW inp \in Inputs, NEW pic
    PROVE  LET t == Tick(w, inp, pic) IN
              /\ t.world \in Worlds /\ t.world.defined = w.defined /\ FileMoves(w, t.world)
              /\ ~t.world.ok => Culprit(w, t.world)
              /\ \/ t.world.stack = w.stack /\ w.stack = <<>> /\ t.picture = pic
                 \/ \E s \in Worlds :
                       /\ Fresh(w, s)
                       /\ \/ Same(s.stack, t.world.stack)
                          \/ Asks(inp) /\ (Pushed(s, t.world) \/ Popped(s, t.world))
                       /\ t.picture \in {pic, <<>>} \/
                             /\ t.picture = <<Len(t.world.stack), Top(t.world)>>
                             /\ Same(s.stack, t.world.stack)
<1> DEFINE s == Started(w)
           v == Ticked(w, inp)
<1>1. CASE ~s.ok
  <2>1. /\ "MenuState" \notin w.defined /\ w.stack = <<>>
        /\ s \in Worlds /\ s.stack = w.stack /\ s.defined = w.defined /\ KeepsFile(w, s)
    BY <1>1, StartedIsFresh DEF Fresh
  <2>2. v = s
    BY <1>1 DEF Ticked
  <2> HIDE DEF v
  <2>3. Tick(w, inp, pic) = [world |-> s, picture |-> pic]
    BY <1>1, <2>2 DEF Tick, v
  <2> HIDE DEF s
  <2> QED
    BY <2>1, <2>3 DEF FileMoves, Culprit
<1>2. CASE s.ok
  <2>1. Fresh(w, s)
    BY <1>2, StartedIsFresh
  <2>2. v = Update(s, inp)
    BY <1>2 DEF Ticked
  <2> HIDE DEF s
  <2>3. Moves(s, v, inp) /\ FileMoves(s, v)
    BY <2>1, <2>2, UpdateMoves DEF Fresh
  <2>4. v \in Worlds /\ v.defined = w.defined /\ FileMoves(w, v)
    BY <2>1, <2>3 DEF Moves, Fresh, FileMoves, KeepsFile
  <2>5. \/ Same(s.stack, v.stack)
        \/ Asks(inp) /\ (Pushed(s, v) \/ Popped(s, v))
    BY <2>3 DEF Moves
  <2>6. ~v.ok => Culprit(w, v)
    BY <2>1, <2>3 DEF Moves, Faultless, Culprit, Fresh
  <2>7. v.ok /\ ~v.dropFrame => Same(s.stack, v.stack)
    BY <2>3 DEF Moves
  <2> HIDE DEF v
  <2>8. CASE ~v.ok \/ v.dropFrame
    <3>1. Tick(w, inp, pic) = [world |-> v, picture |-> pic]
      BY <2>8 DEF Tick, v
    <3> QED
      BY <2>1, <2>4, <2>5, <2>6, <3>1 DEF Fresh
  <2>9. CASE v.ok /\ ~v.dropFrame /\ DrawFails(v)
    <3>1. Tick(w, inp, pic) = [world |-> Fail(v), picture |-> <<>>]
      BY <2>9 DEF Tick, v
    <3>2. "Text" \notin w.defined
      BY <2>4, <2>9 DEF DrawFails
    <3>3. /\ Fail(v) \in Worlds /\ Fail(v).stack = v.stack /\ Fail(v).defined = v.defined
          /\ KeepsFile(v, Fail(v))
      BY <2>4, FailKeeps
    <3>4. FileMoves(w, Fail(v))
      BY <2>4, <3>3 DEF FileMoves, KeepsFile
    <3>5. Culprit(w, Fail(v))
      BY <3>2 DEF Culprit
    <3>6. Same(s.stack, Fail(v).stack)
      BY <2>7, <2>9, <3>3
    <3> QED
      BY <2>1, <2>4, <3>1, <3>3, <3>4, <3>5, <3>6 DEF Fresh
  <2>10. CASE v.ok /\ ~v.dropFrame /\ ~DrawFails(v)
    <3>1. Tick(w, inp, pic) = [world |-> v, picture |-> <<Len(v.stack), Top(v)>>]
      BY <2>10 DEF Tick, v
    <3> QED
      BY <2>1, <2>4, <2>5, <2>6, <2>7, <2>10, <3>1 DEF Fresh
  <2> QED
    BY <2>8, <2>9, <2>10
<1> QED
  BY <1>1, <1>2

-----------------------------------------------------------------------------
(* The order of the calls *)

LEMMA StartupOrder ==
    /\ Len(Startup) = 6
    /\ After(Startup, "scripts") = "AudioInit"
    /\ After(Startup, "AudioInit") = "LoadGraphics"
    /\ After(Startup, "LoadGraphics") = "LoadAudio"
    /\ After(Startup, "LoadAudio") = "WindowInit"
    /\ After(Startup, "WindowInit") = "frame"
<1>1. Len(Startup) - 1 = 5
  BY DEF Startup
<1>2. ASSUME NEW n \in 1 .. 5
      PROVE  After(Startup, Startup[n]) = Startup[n + 1]
  <2>1. \A k \in 1 .. 5 : Startup[k] = Startup[n] => k = n
    BY DEF Startup
  <2>2. (CHOOSE k \in 1 .. 5 : Startup[k] = Startup[n]) = n
    BY <2>1
  <2> QED
    BY <1>1, <2>2 DEF After
<1>3. /\ Startup[1] = "scripts" /\ Startup[2] = "AudioInit" /\ Startup[3] = "LoadGraphics"
      /\ Startup[4] = "LoadAudio" /\ Startup[5] = "WindowInit" /\ Startup[6] = "frame"
      /\ Len(Startup) = 6
  BY DEF Startup
<1> QED
  BY <1>2, <1>3

LEMMA FrameOrder ==
    /\ After(Frame, "frame") = "WindowUpdate"
    /\ After(Frame, "WindowUpdate") = "GSMUpdate"
    /\ After(Frame, "GSMUpdate") = "WindowDraw"
    /\ After(Frame, "WindowDraw") = "frame"
<1>1. Len(Frame) - 1 = 4
  BY DEF Frame
<1>2. ASSUME NEW n \in 1 .. 4
      PROVE  After(Frame, Frame[n]) = Frame[n + 1]
  <2>1. \A k \in 1 .. 4 : Frame[k] = Frame[n] => k = n
    BY DEF Frame
  <2>2. (CHOOSE k \in 1 .. 4 : Frame[k] = Frame[n]) = n
    BY <2>1
  <2> QED
    BY <1>1, <2>2 DEF After
<1>3. /\ Frame[1] = "frame" /\ Frame[2] = "WindowUpdate" /\ Frame[3] = "GSMUpdate"
      /\ Frame[4] = "WindowDraw" /\ Frame[5] = "frame"
  BY DEF Frame
<1> QED
  BY <1>2, <1>3

LEMMA ShutdownOrder ==
    /\ Shutdown[1] = "WindowExit"
    /\ After(Shutdown, "WindowExit") = "AudioExit"
    /\ After(Shutdown, "AudioExit") = "GSMExit"
    /\ After(Shutdown, "GSMExit") = "SaveGlobals"
    /\ After(Shutdown, "SaveGlobals") = "done"
<1>1. Len(Shutdown) - 1 = 4
  BY DEF Shutdown
<1>2. ASSUME NEW n \in 1 .. 4
      PROVE  After(Shutdown, Shutdown[n]) = Shutdown[n + 1]
  <2>1. \A k \in 1 .. 4 : Shutdown[k] = Shutdown[n] => k = n
    BY DEF Shutdown
  <2>2. (CHOOSE k \in 1 .. 4 : Shutdown[k] = Shutdown[n]) = n
    BY <2>1
  <2> QED
    BY <1>1, <2>2 DEF After
<1>3. /\ Shutdown[1] = "WindowExit" /\ Shutdown[2] = "AudioExit" /\ Shutdown[3] = "GSMExit"
      /\ Shutdown[4] = "SaveGlobals" /\ Shutdown[5] = "done"
  BY DEF Shutdown
<1> QED
  BY <1>2, <1>3

-----------------------------------------------------------------------------
(* The inductive invariant *)

Frames == {"frame", "WindowUpdate", "GSMUpdate", "WindowDraw"}

\* Every script has been found.
PastLoading == Frames \cup {"AudioInit", "LoadGraphics", "LoadAudio", "WindowInit"}

Mains == {"scripts", "AudioInit", "LoadGraphics", "LoadAudio", "WindowInit", "WindowExit",
          "AudioExit", "GSMExit", "SaveGlobals"} \cup Frames \cup Ended

TypeInv ==
    /\ main \in Mains /\ world \in Worlds /\ world.ok = TRUE
    /\ toLoad \in SUBSET Scripts /\ broken \in SUBSET Scripts /\ player \in Players
    /\ funcExist \in BOOLEAN /\ winFullScreen \in BOOLEAN
    /\ leftClick \in 0 .. 2 /\ in \in Inputs /\ saved \in Settings

\* Every state is on one it can be opened from.
Path(w) ==
    w.stack # <<>> =>
        /\ w.stack[1].name = "MenuState"
        /\ \A k \in 1 .. (Len(w.stack) - 1) : w.stack[k + 1].name \in Below[w.stack[k].name]

\* A click the scripts see was made in this very frame, and before the first
\* frame nothing is pressed.
ClickInv ==
    /\ main = "WindowUpdate" => leftClick # 1
    /\ in.click = 1 => in.mouse = "press"
    /\ main \notin {"GSMUpdate", "killed"} => in = Quiet

\* Every script without an error is defined once DirScan has met it.
LoadedInv ==
    /\ Scripts \ (broken \cup toLoad) \subseteq world.defined
    /\ main \in PastLoading => toLoad = {}

FileInv(w) == w.file \in {{}, {<<>>}, {Bytes(w.lastSaved)}}

GameInv == TypeInv /\ Path(world) /\ ClickInv /\ LoadedInv /\ FileInv(world)

\* A world that differs in what no part of the invariant looks at.
Still(w, u) ==
    /\ u \in Worlds /\ u.stack = w.stack /\ u.ok = w.ok /\ u.defined = w.defined
    /\ u.file = w.file /\ u.lastSaved = w.lastSaved

LEMMA StillKeepsInvariant ==
    ASSUME NEW w \in Worlds, NEW u, Still(w, u), Path(w), FileInv(w)
    PROVE  Path(u) /\ FileInv(u) /\ Opened(u) = Opened(w) /\ PathOf(u) = PathOf(w)
  BY DEF Still, Path, FileInv, Opened, PathOf, Top

LEMMA NewWorldIsWorld ==
    ASSUME NEW settings \in Settings, NEW f \in SUBSET Seq(Byte), NEW n \in Numbers,
           NEW u, u = NewWorld(settings, f, n)
    PROVE  u \in Worlds /\ Path(u)
<1>1. <<>> \in Seq(Objects)
  OBVIOUS
<1> QED
  BY <1>1 DEF NewWorld, Worlds, Settings, Path

LEMMA QuietIsInput == Quiet \in Inputs /\ Quiet.click = 0 /\ Quiet.pressed = {}
                      /\ Quiet.mouse = "none"
  BY NumbersAreNat DEF Quiet, Inputs, NoEntry

LEMMA InitInvariant == Init => GameInv
<1> SUFFICES ASSUME Init PROVE GameInv
  OBVIOUS
<1>1. {} \in SUBSET Seq(Byte) /\ 0 \in Numbers /\ Stored \in Settings
  BY NumbersAreNat, GameAssumption
<1>2. /\ world \in Worlds /\ world.ok = TRUE /\ Path(world) /\ world.file = {}
  <2>1. world = NewWorld(Stored, {}, 0)
    BY DEF Init
  <2>2. world \in Worlds /\ Path(world)
    BY <1>1, <2>1, NewWorldIsWorld
  <2>3. world.ok = TRUE /\ world.file = {}
    BY <2>1 DEF NewWorld
  <2> QED
    BY <2>2, <2>3
<1>3. broken \in SUBSET Scripts
  BY GameAssumption DEF Init
<1>4. TypeInv
  <2>1. main = "scripts" /\ player \in Players /\ toLoad = Scripts /\ funcExist = TRUE
        /\ winFullScreen = FALSE /\ leftClick = 0 /\ in = Quiet /\ saved = Stored
    BY DEF Init
  <2>2. main \in Mains
    BY <2>1 DEF Mains
  <2>3. toLoad \in SUBSET Scripts /\ leftClick \in 0 .. 2
    BY <2>1
  <2>4. in \in Inputs /\ saved \in Settings
    BY <1>1, <2>1, QuietIsInput
  <2> QED
    BY <1>2, <1>3, <2>1, <2>2, <2>3, <2>4 DEF TypeInv
<1>5. ClickInv /\ LoadedInv
  BY QuietIsInput DEF Init, ClickInv, LoadedInv, PastLoading, Frames
<1> QED
  BY <1>2, <1>4, <1>5 DEF GameInv, FileInv

LEMMA LoadStep ==
    ASSUME GameInv, NEW script \in Scripts, DoFile(script)
    PROVE  /\ GameInv'
           /\ PathOf(world') = PathOf(world) /\ Opened(world') = Opened(world)
<1> DEFINE D == world.defined \cup {script}
           u == [world EXCEPT !.defined = D]
<1>1. main = "scripts" /\ toLoad' = toLoad \ {script} /\ world \in Worlds
      /\ UNCHANGED <<main, broken, player, funcExist, winFullScreen, leftClick, in, saved>>
      /\ world' = IF script \notin broken THEN u ELSE world
  BY DEF DoFile, TopLevel, GameInv, TypeInv
<1>2. world.defined \in SUBSET Scripts /\ D \in SUBSET Scripts
  BY <1>1 DEF Worlds
<1> HIDE DEF D
<1>3. u \in Worlds /\ u.stack = world.stack /\ u.ok = world.ok /\ u.defined = D
      /\ u.file = world.file /\ u.lastSaved = world.lastSaved
  BY <1>1, <1>2 DEF Worlds
<1> HIDE DEF u
<1>4. world' \in Worlds /\ world'.stack = world.stack /\ world'.ok = world.ok
      /\ world'.file = world.file /\ world'.lastSaved = world.lastSaved
      /\ world'.defined = IF script \notin broken THEN D ELSE world.defined
  BY <1>1, <1>3
<1>5. Path(world') /\ FileInv(world')
  BY <1>4 DEF GameInv, Path, FileInv
<1>6. LoadedInv'
  BY <1>1, <1>4 DEF GameInv, LoadedInv, PastLoading, Frames, D
<1>7. TypeInv' /\ ClickInv'
  BY <1>1, <1>4 DEF GameInv, TypeInv, ClickInv
<1>8. PathOf(world') = PathOf(world) /\ Opened(world') = Opened(world)
  BY <1>4 DEF PathOf, Opened, Top
<1> QED
  BY <1>5, <1>6, <1>7, <1>8 DEF GameInv

\* A step that does not touch what the scripts see.
LEMMA SameWorldStep ==
    ASSUME GameInv, UNCHANGED <<world, toLoad, broken, player, funcExist, winFullScreen, in>>,
           main' \in Mains, leftClick' \in 0 .. 2, saved' \in Settings,
           main' = "WindowUpdate" => leftClick' # 1,
           main' \notin {"GSMUpdate", "killed"} => in = Quiet,
           main' \in PastLoading => toLoad = {}
    PROVE  GameInv'
<1>1. TypeInv'
  BY DEF GameInv, TypeInv
<1>2. ClickInv' /\ LoadedInv'
  BY DEF GameInv, ClickInv, LoadedInv, PastLoading
<1>3. Path(world') /\ FileInv(world')
  BY DEF GameInv
<1> QED
  BY <1>1, <1>2, <1>3 DEF GameInv

\* Every call of main but the four that change the world, and their end.
PlainStep ==
    \/ ScriptsLoaded \/ Initialise \/ HardCheck \/ BeginFrame \/ FinishFrame \/ Exit
    \/ SaveGlobals

LEMMA PlainSteps ==
    ASSUME GameInv, PlainStep
    PROVE  /\ GameInv' /\ UNCHANGED <<world, broken, funcExist, in, picture>>
           /\ main \notin Ended
<1>1. main \in Mains /\ leftClick \in 0 .. 2 /\ saved \in Settings /\ world \in Worlds
  BY DEF GameInv, TypeInv
<1>2. main \notin {"GSMUpdate", "killed"} => in = Quiet
  BY DEF GameInv, ClickInv
<1>3. main \in PastLoading => toLoad = {}
  BY DEF GameInv, LoadedInv, PastLoading
<1>4. CASE ScriptsLoaded
  <2>1. main = "scripts" /\ main' = "AudioInit" /\ toLoad = {}
    BY <1>4, StartupOrder DEF ScriptsLoaded
  <2> QED
    BY <1>1, <1>2, <1>4, <2>1, SameWorldStep DEF ScriptsLoaded, Mains, Ended
<1>5. CASE Initialise
  <2>1. /\ main \in {"AudioInit", "LoadGraphics", "LoadAudio"}
        /\ main' \in {"LoadGraphics", "LoadAudio", "WindowInit"} /\ main' # main
    BY <1>5, StartupOrder DEF Initialise
  <2> QED
    BY <1>1, <1>2, <1>3, <1>5, <2>1, SameWorldStep DEF Initialise, Mains, Ended, PastLoading
<1>6. CASE HardCheck
  <2>0. /\ Startup[1] = "scripts" /\ Startup[2] = "AudioInit" /\ Startup[3] = "LoadGraphics"
        /\ Startup[4] = "LoadAudio" /\ Startup[5] = "WindowInit" /\ Len(Startup) - 1 = 5
    BY DEF Startup
  <2>1. main \in {"scripts", "AudioInit", "LoadGraphics", "LoadAudio", "WindowInit"}
        /\ main' = "failed"
    <3>1. PICK n \in 1 .. 5 : main = Startup[n]
      BY <1>6, <2>0 DEF HardCheck
    <3>2. n = 1 \/ n = 2 \/ n = 3 \/ n = 4 \/ n = 5
      OBVIOUS
    <3>3. main' = "failed"
      BY <1>6 DEF HardCheck
    <3> QED
      BY <2>0, <3>1, <3>2, <3>3
  <2> QED
    BY <1>1, <1>2, <1>6, <2>1, SameWorldStep DEF HardCheck, Mains, Ended, PastLoading, Frames
<1>7. CASE BeginFrame
  <2>1. /\ main = "frame"
        /\ \/ main' = "WindowExit" /\ leftClick' = leftClick
           \/ main' = "WindowUpdate" /\ leftClick' = InputResetPress
    <3>1. CASE world.quit
      BY <1>7, <3>1, ShutdownOrder DEF BeginFrame
    <3>2. CASE ~world.quit
      BY <1>7, <3>2, FrameOrder DEF BeginFrame
    <3> QED
      BY <3>1, <3>2
  <2>2. leftClick' \in 0 .. 2 /\ (main' = "WindowUpdate" => leftClick' # 1)
    BY <1>1, <2>1 DEF InputResetPress
  <2> QED
    BY <1>1, <1>2, <1>3, <1>7, <2>1, <2>2, SameWorldStep
       DEF BeginFrame, Mains, Ended, PastLoading, Frames
<1>8. CASE FinishFrame
  <2>1. main = "WindowDraw" /\ main' = "frame"
    BY <1>8, FrameOrder DEF FinishFrame
  <2> QED
    BY <1>1, <1>2, <1>3, <1>8, <2>1, SameWorldStep
       DEF FinishFrame, Mains, Ended, PastLoading, Frames
<1>9. CASE Exit
  <2>1. /\ main \in {"WindowExit", "AudioExit", "GSMExit"} /\ main' # main
        /\ main' \in {"AudioExit", "GSMExit", "SaveGlobals"}
    BY <1>9, ShutdownOrder DEF Exit
  <2> QED
    BY <1>1, <1>2, <1>9, <2>1, SameWorldStep DEF Exit, Mains, Ended, PastLoading, Frames
<1>10. CASE SaveGlobals
  <2>1. SettingsOf(world) \in Settings
    <3>1. world.fullScreen \in BOOLEAN /\ world.aspectRatio \in 0 .. 2 /\ world.volume \in Int
      BY <1>1 DEF Worlds
    <3> QED
      BY <3>1 DEF SettingsOf, Settings
  <2>2. main = "SaveGlobals" /\ main' \in {"done", "unsaved"} /\ saved' \in Settings
    BY <1>1, <1>10, <2>1, ShutdownOrder DEF SaveGlobals
  <2> QED
    BY <1>1, <1>2, <1>10, <2>2, SameWorldStep DEF SaveGlobals, Mains, Ended, PastLoading, Frames
<1> QED
  BY <1>4, <1>5, <1>6, <1>7, <1>8, <1>9, <1>10 DEF PlainStep

\* CreateWindow, and the window's wish to be closed.
LEMMA WindowWorld ==
    ASSUME NEW w \in Worlds, NEW e \in Inputs, NEW valid \in BOOLEAN
    PROVE  LET q == [w EXCEPT !.quit = @ \/ e.quit] IN
              /\ Still(w, q) /\ q.fullScreen = w.fullScreen
              /\ Still(w, [q EXCEPT !.fullScreen = @ /\ valid])
              /\ Still(w, [w EXCEPT !.fullScreen = @ /\ valid])
<1>1. w.quit \in BOOLEAN /\ e.quit \in BOOLEAN /\ w.fullScreen \in BOOLEAN
  BY DEF Worlds, Inputs
<1>2. PICK b \in BOOLEAN : b = (w.quit \/ e.quit)
  BY <1>1, Zenon
<1>3. PICK c \in BOOLEAN : c = (w.fullScreen /\ valid)
  BY <1>1, Zenon
<1> DEFINE q == [w EXCEPT !.quit = b]
<1>4. q \in Worlds /\ q.fullScreen = w.fullScreen /\ Still(w, q)
  BY DEF Worlds, Still
<1>5. [w EXCEPT !.quit = @ \/ e.quit] = q
  BY <1>2
<1> HIDE DEF q
<1>6. ASSUME NEW v \in Worlds, v.fullScreen = w.fullScreen, Still(w, v)
      PROVE  Still(w, [v EXCEPT !.fullScreen = @ /\ valid])
  <2> DEFINE u == [v EXCEPT !.fullScreen = c]
  <2>1. u \in Worlds /\ u.stack = v.stack /\ u.ok = v.ok /\ u.defined = v.defined
        /\ u.file = v.file /\ u.lastSaved = v.lastSaved
    BY DEF Worlds
  <2>2. [v EXCEPT !.fullScreen = @ /\ valid] = u
    BY <1>3, <1>6
  <2> HIDE DEF u
  <2>3. Still(w, u)
    BY <1>6, <2>1 DEF Still
  <2> QED
    BY <2>2, <2>3
<1>7. Still(w, w)
  BY DEF Still
<1> QED
  BY <1>4, <1>5, <1>6, <1>7

LEMMA RestartStep ==
    ASSUME GameInv, Restart
    PROVE  GameInv' /\ funcExist' = TRUE /\ PathOf(world') = <<>>
<1>0. PICK u : u = NewWorld(saved, world.file, world.lastSaved)
  OBVIOUS
<1>1. /\ main' = "scripts" /\ world' = u /\ toLoad' = Scripts /\ funcExist' = TRUE
      /\ winFullScreen' = FALSE /\ leftClick' = 0 /\ in' = Quiet
      /\ broken' = broken /\ player' = player /\ saved' = saved
  BY <1>0 DEF Restart
<1>2. saved \in Settings /\ world.file \in SUBSET Seq(Byte) /\ world.lastSaved \in Numbers
  BY DEF GameInv, TypeInv, Worlds
<1>3. PICK f \in SUBSET Seq(Byte), n \in Numbers : f = world.file /\ n = world.lastSaved
  BY <1>2
<1>4. u = NewWorld(saved, f, n)
  BY <1>0, <1>3
<1>5. /\ u \in Worlds /\ u.stack = <<>> /\ u.ok = TRUE /\ u.file = f /\ u.lastSaved = n
      /\ Path(u)
  <2>1. u \in Worlds /\ Path(u)
    BY <1>2, <1>4, NewWorldIsWorld
  <2>2. u.stack = <<>> /\ u.ok = TRUE /\ u.file = f /\ u.lastSaved = n
    BY <1>4 DEF NewWorld
  <2> QED
    BY <2>1, <2>2
<1>6. TypeInv'
  <2>1. main' \in Mains /\ toLoad' \in SUBSET Scripts /\ leftClick' \in 0 .. 2
    BY <1>1 DEF Mains
  <2>2. in' \in Inputs
    BY <1>1, QuietIsInput
  <2>3. broken \in SUBSET Scripts /\ player \in Players
    BY DEF GameInv, TypeInv
  <2> QED
    BY <1>1, <1>2, <1>5, <2>1, <2>2, <2>3 DEF TypeInv
<1>7. ClickInv' /\ LoadedInv'
  BY <1>1, QuietIsInput DEF ClickInv, LoadedInv, PastLoading, Frames
<1>8. FileInv(world') /\ Path(world') /\ PathOf(world') = <<>>
  BY <1>1, <1>3, <1>5, PathIs DEF GameInv, FileInv
<1> QED
  BY <1>1, <1>6, <1>7, <1>8 DEF GameInv

LEMMA KillStep ==
    ASSUME GameInv, Kill
    PROVE  /\ GameInv' /\ UNCHANGED <<broken, funcExist, in, picture>> /\ main' = "killed"
           /\ main \notin Ended
           /\ PathOf(world') = PathOf(world) /\ Opened(world') = Opened(world)
<1>1. /\ main' = "killed" /\ main \notin Ended
      /\ UNCHANGED <<toLoad, broken, player, funcExist, picture, winFullScreen, leftClick, in,
                     saved>>
  BY DEF Kill
<1>2. /\ world' \in Worlds /\ world'.ok = TRUE /\ world'.defined = world.defined
      /\ world'.stack = world.stack /\ FileInv(world')
  <2>1. CASE UNCHANGED world
    BY <2>1 DEF GameInv, TypeInv, FileInv
  <2>2. CASE world' = [world EXCEPT !.file = {<<>>}, !.lastSaved = 0]
    <3>1. {<<>>} \in SUBSET Seq(Byte) /\ 0 \in Numbers /\ world \in Worlds /\ world.ok = TRUE
      BY NumbersAreNat DEF GameInv, TypeInv
    <3> DEFINE none == {<<>>}
    <3>2. world'.file = none
      BY <2>2, <3>1 DEF Worlds
    <3> HIDE DEF none
    <3>3. world' = [world EXCEPT !.file = none, !.lastSaved = 0]
      BY <2>2 DEF none
    <3>4. none \in SUBSET Seq(Byte)
      BY <3>1 DEF none
    <3>5. world' \in Worlds /\ world'.ok = TRUE /\ world'.defined = world.defined
          /\ world'.stack = world.stack
      BY <3>1, <3>3, <3>4 DEF Worlds
    <3> QED
      BY <3>2, <3>5 DEF FileInv, none
  <2> QED
    BY <2>1, <2>2 DEF Kill
<1>3. TypeInv' /\ ClickInv' /\ LoadedInv'
  BY <1>1, <1>2 DEF GameInv, TypeInv, ClickInv, LoadedInv, PastLoading, Frames, Mains, Ended
<1>4. Path(world') /\ PathOf(world') = PathOf(world) /\ Opened(world') = Opened(world)
  BY <1>2 DEF GameInv, Path, PathOf, Opened, Top
<1> QED
  BY <1>1, <1>2, <1>3, <1>4 DEF GameInv

LEMMA WindowInitStep ==
    ASSUME GameInv, WindowInit
    PROVE  GameInv' /\ Still(world, world') /\ UNCHANGED <<broken, funcExist, in, picture>>
           /\ main' = "frame"
<1>1. /\ main = "WindowInit" /\ main' = "frame" /\ CreateWindow(world)
      /\ UNCHANGED <<toLoad, broken, player, funcExist, picture, leftClick, in, saved>>
  BY StartupOrder DEF WindowInit
<1>2. world \in Worlds
  BY DEF GameInv, TypeInv
<1>3. PICK valid \in BOOLEAN :
          /\ world' = [world EXCEPT !.fullScreen = @ /\ valid]
          /\ winFullScreen' = (world.fullScreen /\ valid)
  BY <1>1 DEF CreateWindow
<1>4. Still(world, world')
  BY <1>2, <1>3, QuietIsInput, WindowWorld
<1>5. winFullScreen' \in BOOLEAN
  BY <1>3, Zenon
<1>6. TypeInv'
  BY <1>1, <1>4, <1>5 DEF GameInv, TypeInv, Still, Mains, Frames
<1>7. ClickInv' /\ LoadedInv'
  BY <1>1, <1>4 DEF GameInv, ClickInv, LoadedInv, PastLoading, Frames, Still
<1>8. Path(world') /\ FileInv(world')
  BY <1>2, <1>4, StillKeepsInvariant DEF GameInv
<1> QED
  BY <1>1, <1>4, <1>6, <1>7, <1>8 DEF GameInv

LEMMA WindowUpdateStep ==
    ASSUME GameInv, WindowUpdate
    PROVE  GameInv' /\ Still(world, world') /\ UNCHANGED <<broken, funcExist, picture>>
           /\ main \notin Ended /\ main' \notin Ended
<1>1. /\ main = "WindowUpdate" /\ main' = "GSMUpdate"
      /\ UNCHANGED <<toLoad, broken, player, funcExist, picture, saved>>
  BY FrameOrder DEF WindowUpdate
<1>2. world \in Worlds /\ winFullScreen \in BOOLEAN /\ leftClick \in {0, 2}
      /\ player \in Players /\ in = Quiet
  BY <1>1 DEF GameInv, TypeInv, ClickInv
<1> DEFINE W(e) == [world EXCEPT !.quit = @ \/ e.quit]
           anew == world.fullScreen # winFullScreen
<1>3. PICK e \in player :
          /\ IF anew THEN CreateWindow(W(e)) ELSE world' = W(e) /\ UNCHANGED winFullScreen
          /\ leftClick' = CASE e.mouse = "press" -> 1
                            [] e.mouse \in {"release", "LostFocus"} -> 0
                            [] OTHER -> IF anew THEN 0 ELSE leftClick
          /\ in' = [e EXCEPT !.click = leftClick']
  BY DEF WindowUpdate
<1>4. e \in Inputs
  BY <1>2, <1>3, GameAssumption
<1>5. Still(world, world') /\ winFullScreen' \in BOOLEAN
  <2> DEFINE q == W(e)
  <2>1. CASE anew
    <3>1. PICK valid \in BOOLEAN :
              /\ world' = [q EXCEPT !.fullScreen = @ /\ valid]
              /\ winFullScreen' = (q.fullScreen /\ valid)
      BY <1>3, <2>1 DEF CreateWindow
    <3>2. Still(world, world')
      BY <1>2, <1>4, <3>1, WindowWorld
    <3>3. winFullScreen' \in BOOLEAN
      BY <3>1, Zenon
    <3> QED
      BY <3>2, <3>3
  <2>2. CASE ~anew
    BY <1>2, <1>3, <1>4, <2>2, WindowWorld
  <2> QED
    BY <2>1, <2>2
<1> HIDE DEF W, anew
<1>6. leftClick' \in {0, 1, 2} /\ (leftClick' = 1 => e.mouse = "press")
      /\ leftClick' \in 0 .. 2
  <2>1. CASE e.mouse = "press"
    BY <1>3, <2>1
  <2>2. CASE e.mouse \in {"release", "LostFocus"}
    BY <1>3, <2>2
  <2>3. CASE e.mouse = "none"
    BY <1>2, <1>3, <2>3
  <2> QED
    BY <1>4, <2>1, <2>2, <2>3 DEF Inputs
<1>7. in' \in Inputs /\ in'.click = leftClick' /\ in'.mouse = e.mouse
  BY <1>3, <1>4, <1>6 DEF Inputs
<1>8. TypeInv'
  BY <1>1, <1>5, <1>6, <1>7 DEF GameInv, TypeInv, Still, Mains, Frames
<1>9. ClickInv' /\ LoadedInv'
  BY <1>1, <1>5, <1>6, <1>7 DEF GameInv, ClickInv, LoadedInv, PastLoading, Frames, Still
<1>10. Path(world') /\ FileInv(world')
  BY <1>2, <1>5, StillKeepsInvariant DEF GameInv
<1> QED
  BY <1>1, <1>5, <1>8, <1>9, <1>10 DEF GameInv, Ended

\* What the tick of a frame leaves: Still, but for the stack and the file.
LEMMA TickedPath ==
    ASSUME NEW w \in Worlds, Path(w), NEW s \in Worlds, Fresh(w, s), NEW u \in Worlds,
           Same(s.stack, u.stack) \/ Pushed(s, u) \/ Popped(s, u)
    PROVE  /\ Path(u) /\ u.stack # <<>>
           /\ ScreenOf(s) = ScreenOf(w)
           /\ Same(s.stack, u.stack) => ScreenOf(u) = ScreenOf(w)
           /\ PathOf(s) = EnteredOf(w)
           /\ Same(s.stack, u.stack) => PathOf(u) = PathOf(s)
           /\ Pushed(s, u) =>
                 \E c \in Below[PathOf(s)[Len(PathOf(s))]] : PathOf(u) = Append(PathOf(s), c)
           /\ Popped(s, u) =>
                 /\ Len(PathOf(w)) > 1
                 /\ PathOf(u) = SubSeq(PathOf(w), 1, Len(PathOf(w)) - 1)
<1> DEFINE n == Len(s.stack)
           m == Len(u.stack)
<1>1. s.stack # <<>> /\ n \in Nat /\ n >= 1
  BY TopIsObject DEF Fresh
<1>2. u.stack \in Seq(Objects) /\ m \in Nat /\ (m >= 1 => u.stack # <<>>)
  <2>1. u.stack \in Seq(Objects)
    BY DEF Worlds
  <2> QED
    BY <2>1, EmptySeq, LenProperties
<1>3. ScreenOf(s) = ScreenOf(w) /\ Path(s) /\ ScreenOf(s) = s.stack[n].name
  <2>1. CASE w.stack # <<>>
    <3>1. s.stack = w.stack
      BY <2>1 DEF Fresh
    <3> QED
      BY <1>1, <2>1, <3>1 DEF Path, ScreenOf, Top
  <2>2. CASE w.stack = <<>>
    <3> DEFINE o == New("MenuState")
    <3>1. s.stack = <<o>> /\ o.name = "MenuState"
      BY <2>2 DEF Fresh, New
    <3> HIDE DEF o
    <3>2. n = 1 /\ s.stack[1] = o
      BY <3>1
    <3> QED
      BY <1>1, <2>2, <3>1, <3>2 DEF Path, ScreenOf, Top
  <2> QED
    BY <2>1, <2>2
<1>a. PathOf(s) = EnteredOf(w) /\ (n > 1 => PathOf(s) = PathOf(w))
  <2>1. CASE w.stack # <<>>
    <3>1. s.stack = w.stack
      BY <2>1 DEF Fresh
    <3>2. PathOf(s) = PathOf(w) /\ PathOf(w) # <<>>
      BY <2>1, <3>1, PathIs DEF PathOf
    <3> QED
      BY <3>2 DEF EnteredOf
  <2>2. CASE w.stack = <<>>
    <3> DEFINE o == New("MenuState")
    <3>1. s.stack = <<o>> /\ o.name = "MenuState"
      BY <2>2 DEF Fresh, New
    <3> HIDE DEF o
    <3>2. n = 1 /\ DOMAIN s.stack = 1 .. 1 /\ s.stack[1].name = "MenuState"
      BY <3>1
    <3>3. PathOf(s) = [k \in 1 .. 1 |-> "MenuState"]
      <4>1. \A k \in 1 .. 1 : s.stack[k].name = "MenuState"
        BY <3>2
      <4> QED
        BY <3>2, <4>1 DEF PathOf
    <3>4. [k \in 1 .. 1 |-> "MenuState"] = <<"MenuState">>
      OBVIOUS
    <3>5. PathOf(w) = <<>>
      BY <2>2, PathIs
    <3> QED
      BY <3>2, <3>3, <3>4, <3>5 DEF EnteredOf
  <2> QED
    BY <2>1, <2>2
<1>b. /\ PathOf(s) \in Seq(States) /\ Len(PathOf(s)) = n
      /\ \A k \in 1 .. n : PathOf(s)[k] = s.stack[k].name
      /\ PathOf(u) \in Seq(States) /\ Len(PathOf(u)) = m
      /\ \A k \in 1 .. m : PathOf(u)[k] = u.stack[k].name
  BY PathIs
<1>4. /\ s.stack[1].name = "MenuState"
      /\ \A k \in 1 .. (n - 1) : s.stack[k + 1].name \in Below[s.stack[k].name]
  BY <1>1, <1>3 DEF Path
<1>5. ASSUME m >= 1
      PROVE  ScreenOf(u) = u.stack[m].name
  BY <1>2, <1>5 DEF ScreenOf, Top
<1>6. CASE Same(s.stack, u.stack)
  <2>1. m = n /\ \A k \in 1 .. n : u.stack[k].name = s.stack[k].name
    BY <1>6 DEF Same
  <2>2. Path(u) /\ u.stack # <<>> /\ ScreenOf(u) = ScreenOf(s)
    BY <1>1, <1>2, <1>3, <1>4, <1>5, <2>1 DEF Path
  <2>3. ~Pushed(s, u) /\ ~Popped(s, u)
    BY <1>1, <2>1 DEF Pushed, Popped
  <2>4. PathOf(u) = PathOf(s)
    BY <2>1, PathsAreEqual
  <2> QED
    BY <1>3, <1>a, <2>2, <2>3, <2>4
<1>7. CASE Pushed(s, u)
  <2>1. /\ m = n + 1 /\ \A k \in 1 .. n : u.stack[k].name = s.stack[k].name
        /\ u.stack[m].name \in Below[s.stack[n].name]
    BY <1>7 DEF Pushed, Top
  <2>2. ASSUME NEW k \in 1 .. (m - 1)
        PROVE  u.stack[k + 1].name \in Below[u.stack[k].name]
    <3>1. CASE k = n
      BY <1>1, <2>1, <3>1
    <3>2. CASE k # n
      <4>1. k \in 1 .. (n - 1) /\ k \in 1 .. n /\ k + 1 \in 1 .. n
        BY <1>1, <2>1, <3>2
      <4> QED
        BY <1>4, <2>1, <4>1
    <3> QED
      BY <3>1, <3>2
  <2>3. u.stack[1].name = "MenuState" /\ m >= 1
    BY <1>1, <1>4, <2>1
  <2>4. Path(u)
    BY <2>2, <2>3 DEF Path
  <2>5. \E c \in Below[PathOf(s)[Len(PathOf(s))]] : PathOf(u) = Append(PathOf(s), c)
    <3> DEFINE c == u.stack[m].name
               p == PathOf(s)
               q == PathOf(u)
    <3>1. c \in Below[p[Len(p)]] /\ c \in States
      <4>1. c = q[m] /\ q[m] \in States
        BY <1>b, <2>3, ElementOfSeq
      <4> QED
        BY <1>1, <1>b, <2>1, <4>1
    <3>2. /\ p \in Seq(States) /\ q \in Seq(States) /\ Len(p) = n /\ Len(q) = n + 1
          /\ \A k \in 1 .. n : q[k] = p[k]
          /\ q[n + 1] = c
      <4>1. \A k \in 1 .. n : k \in 1 .. m
        BY <1>1, <2>1
      <4>2. m \in 1 .. m
        BY <1>2, <2>3
      <4> QED
        BY <1>b, <2>1, <4>1, <4>2
    <3> HIDE DEF p, q, c, n, m
    <3>3. q = Append(p, c)
      <4>1. /\ Append(p, c) \in Seq(States) /\ Len(Append(p, c)) = n + 1
            /\ \A k \in 1 .. n : Append(p, c)[k] = p[k]
            /\ Append(p, c)[n + 1] = c
        BY <3>1, <3>2, AppendProperties
      <4>2. \A k \in 1 .. n + 1 : q[k] = Append(p, c)[k]
        <5>1. n \in Nat
          BY <1>1
        <5> QED
          BY <3>2, <4>1, <5>1
      <4> QED
        BY <3>2, <4>1, <4>2, SeqEqual
    <3> QED
      BY <3>1, <3>3 DEF p, q
  <2>6. ~Same(s.stack, u.stack) /\ ~Popped(s, u)
    BY <1>1, <2>1 DEF Same, Popped
  <2> QED
    BY <1>2, <1>3, <1>a, <2>3, <2>4, <2>5, <2>6
<1>8. CASE Popped(s, u)
  <2>1. /\ m = n - 1 /\ \A k \in 1 .. m : u.stack[k].name = s.stack[k].name
        /\ s.stack[n].name # "MenuState"
    BY <1>8 DEF Popped, Top
  <2>2. m >= 1
    <3>1. ASSUME n = 1
          PROVE  FALSE
      <4>1. s.stack[n].name = s.stack[1].name
        BY <3>1
      <4> QED
        BY <1>4, <2>1, <4>1
    <3>2. m = n - 1 /\ n \in Nat /\ n >= 1
      BY <1>1, <2>1
    <3> HIDE DEF n, m
    <3> QED
      BY <3>1, <3>2
  <2>3. ASSUME NEW k \in 1 .. (m - 1)
        PROVE  u.stack[k + 1].name \in Below[u.stack[k].name]
    <3>1. k \in 1 .. (n - 1) /\ k \in 1 .. m /\ k + 1 \in 1 .. m
      BY <1>1, <1>2, <2>1
    <3> QED
      BY <1>4, <2>1, <3>1
  <2>4. Path(u)
    BY <1>2, <1>4, <2>1, <2>2, <2>3 DEF Path
  <2>5. s.stack[m + 1].name \in Below[s.stack[m].name] /\ m + 1 = n
    BY <1>1, <1>4, <2>1, <2>2
  <2>6. Len(PathOf(w)) > 1 /\ PathOf(u) = SubSeq(PathOf(w), 1, Len(PathOf(w)) - 1)
    <3> DEFINE p == PathOf(w)
               q == PathOf(u)
    <3>1. n > 1 /\ n - 1 = m
      BY <1>1, <1>2, <2>1, <2>2
    <3>2. /\ p \in Seq(States) /\ q \in Seq(States) /\ Len(p) = n /\ Len(q) = m
          /\ \A k \in 1 .. m : q[k] = p[k]
      <4>1. \A k \in 1 .. m : k \in 1 .. n
        BY <1>1, <1>2, <2>1
      <4>2. p = PathOf(s)
        BY <1>a, <3>1
      <4> QED
        BY <1>b, <2>1, <4>1, <4>2
    <3> HIDE DEF p, q, n, m
    <3>3. q = SubSeq(p, 1, m)
      <4>1. m \in Nat /\ n \in Nat /\ m <= n
        BY <1>1, <1>2, <3>1
      <4>2. /\ SubSeq(p, 1, m) \in Seq(States) /\ Len(SubSeq(p, 1, m)) = m
            /\ \A k \in 1 .. m : SubSeq(p, 1, m)[k] = p[k]
        BY <3>2, <4>1, SubSeqProperties
      <4> QED
        BY <3>2, <4>2, SeqEqual
    <3> QED
      BY <3>1, <3>2, <3>3 DEF p, q
  <2>7. ~Same(s.stack, u.stack) /\ ~Pushed(s, u)
    BY <1>1, <2>1 DEF Same, Pushed
  <2> QED
    BY <1>2, <1>3, <1>a, <2>2, <2>4, <2>6, <2>7
<1> QED
  BY <1>6, <1>7, <1>8

LEMMA OpenedAreStates ==
    ASSUME NEW w \in Worlds
    PROVE  Opened(w) \subseteq States
<1>1. CASE w.stack = <<>>
  BY <1>1 DEF Opened
<1>2. CASE w.stack # <<>> /\ Top(w).name = "MenuState" /\ Top(w).picker < 4
  <2> DEFINE p == Top(w).picker
  <2>1. p \in 0 .. 4
    BY <1>2, TopIsObject DEF Objects
  <2>2. p + 1 \in 1 .. 4
    BY <1>2, <2>1
  <2>3. Opened(w) = {Entries[p + 1]}
    BY <1>2 DEF Opened
  <2> HIDE DEF p
  <2>4. Entries[p + 1] \in States
    BY <2>2 DEF Entries, States
  <2> QED
    BY <2>3, <2>4
<1>3. CASE w.stack # <<>> /\ Top(w).name = "OptionsState"
  BY <1>3 DEF Opened, States
<1>4. CASE /\ w.stack # <<>> /\ Top(w).name # "OptionsState"
           /\ ~(Top(w).name = "MenuState" /\ Top(w).picker < 4)
  BY <1>4 DEF Opened
<1> QED
  BY <1>1, <1>2, <1>3, <1>4

\* A frame moves at most one step in the tree, and only if something is pressed.
FrameMoves ==
    \/ PathOf(world') = PathOf(world)
    \/ PathOf(world) = <<>> /\ PathOf(world') = EnteredOf(world)
    \/ /\ in.pressed # {} \/ in.mouse = "press"
       /\ \/ \E c \in Below[EnteredOf(world)[Len(EnteredOf(world))]] :
                PathOf(world') = Append(EnteredOf(world), c)
          \/ /\ Len(PathOf(world)) > 1
             /\ PathOf(world') = SubSeq(PathOf(world), 1, Len(PathOf(world)) - 1)

\* It presents a state that was there before its input.
FrameDraws ==
    picture' # picture /\ picture' # <<>> =>
        /\ picture' = <<Len(world'.stack), Top(world')>>
        /\ IF world.stack = <<>> THEN Len(world'.stack) = 1
           ELSE Len(world'.stack) = Len(world.stack) /\ Top(world').name = Top(world).name

LEMMA TickStep ==
    ASSUME GameInv, GSMUpdate
    PROVE  /\ GameInv' /\ UNCHANGED broken /\ in' = Quiet
           /\ main \notin Ended /\ main' \notin Ended
           /\ FrameMoves /\ FrameDraws
           /\ GoodScriptsRun => GoodScriptsRun'
<1>1. /\ main = "GSMUpdate" /\ main' = "WindowDraw" /\ in' = Quiet
      /\ UNCHANGED <<toLoad, broken, player, winFullScreen, leftClick, saved>>
  BY FrameOrder DEF GSMUpdate
<1>2. /\ world \in Worlds /\ world.ok = TRUE /\ in \in Inputs /\ broken \in SUBSET Scripts
      /\ Path(world) /\ FileInv(world)
  BY DEF GameInv, TypeInv
<1>3. Scripts \ broken \subseteq world.defined
  BY <1>1 DEF GameInv, LoadedInv, PastLoading, Frames
<1>4. main \notin Ended /\ main' \notin Ended
  BY <1>1 DEF Ended
\* What is left to show, once the new world is known.
<1>5. ASSUME world' \in Worlds, world'.ok = TRUE, world'.defined = world.defined,
             Path(world'), FileInv(world'), funcExist' \in BOOLEAN
      PROVE  GameInv'
  <2>1. TypeInv'
    BY <1>1, <1>5, QuietIsInput DEF GameInv, TypeInv, Mains, Frames
  <2>2. ClickInv' /\ LoadedInv'
    BY <1>1, <1>5, QuietIsInput DEF GameInv, ClickInv, LoadedInv, PastLoading, Frames
  <2> QED
    BY <1>5, <2>1, <2>2 DEF GameInv
<1>6. CASE ~(funcExist /\ "State" \in world.defined)
  <2>1. funcExist' = FALSE /\ world' = world /\ picture' = picture
    BY <1>6 DEF GSMUpdate
  <2>2. GameInv'
    BY <1>2, <1>5, <2>1
  <2>3. GoodScriptsRun => GoodScriptsRun'
    <3>1. CASE funcExist
      <4>1. "State" \in broken
        BY <1>3, <1>6, <3>1 DEF Scripts
      <4> QED
        BY <1>1, <4>1 DEF GoodScriptsRun
    <3>2. CASE ~funcExist
      BY <1>1, <2>1, <3>2 DEF GoodScriptsRun
    <3> QED
      BY <3>1, <3>2
  <2> QED
    BY <1>1, <1>4, <2>1, <2>2, <2>3 DEF FrameMoves, FrameDraws
<1>7. CASE funcExist /\ "State" \in world.defined
  <2> DEFINE t == Tick(world, in, picture)
             u == t.world
             v == [u EXCEPT !.ok = TRUE]
  <2>1. world' = v /\ funcExist' = u.ok /\ picture' = t.picture
    BY <1>7 DEF GSMUpdate
  <2>2. /\ u \in Worlds /\ u.defined = world.defined /\ FileMoves(world, u)
        /\ ~u.ok => Culprit(world, u)
        /\ \/ u.stack = world.stack /\ world.stack = <<>> /\ t.picture = picture
           \/ \E s \in Worlds :
                 /\ Fresh(world, s)
                 /\ \/ Same(s.stack, u.stack)
                    \/ Asks(in) /\ (Pushed(s, u) \/ Popped(s, u))
                 /\ t.picture \in {picture, <<>>} \/
                       /\ t.picture = <<Len(u.stack), Top(u)>>
                       /\ Same(s.stack, u.stack)
    BY <1>2, TickMoves
  <2> HIDE DEF t, u
  <2>3. /\ v \in Worlds /\ v.ok = TRUE /\ v.stack = u.stack /\ v.defined = u.defined
        /\ v.file = u.file /\ v.lastSaved = u.lastSaved
    BY <2>2 DEF Worlds
  <2> HIDE DEF v
  <2>4. u.ok \in BOOLEAN
    BY <2>2 DEF Worlds
  <2>5. ScreenOf(v) = ScreenOf(u) /\ PathOf(v) = PathOf(u) /\ Opened(v) = Opened(u) /\ Top(v) = Top(u)
    BY <2>3 DEF ScreenOf, PathOf, Opened, Top
  <2>6. FileInv(world')
    BY <1>2, <2>1, <2>2, <2>3 DEF FileInv, FileMoves, KeepsFile
  <2>7. GoodScriptsRun'
    <3>1. SUFFICES ASSUME ~u.ok
                   PROVE  GoodScriptsRun'
      BY <2>1 DEF GoodScriptsRun
    <3>2. broken' = broken /\ Opened(world') = Opened(u)
      BY <1>1, <2>1, <2>5
    <3>3. ASSUME NEW script \in Scripts, script \notin world.defined
          PROVE  script \in broken
      BY <1>3, <3>3
    <3>4. CASE "MenuState" \notin world.defined
      BY <3>2, <3>3, <3>4 DEF GoodScriptsRun, Scripts
    <3>5. CASE "Text" \notin world.defined
      BY <3>2, <3>3, <3>5 DEF GoodScriptsRun, Scripts
    <3>6. CASE \E screen \in Opened(u) : ~(Uses(screen) \subseteq world.defined)
      <4>1. PICK screen \in Opened(u) : ~(Uses(screen) \subseteq world.defined)
        BY <3>6
      <4>2. PICK script \in Uses(screen) : script \notin world.defined
        BY <4>1
      <4>3. screen \in States
        BY <2>2, <4>1, OpenedAreStates
      <4>4. script \in Scripts
        BY <4>2, <4>3 DEF Uses, States, Scripts
      <4>5. script \in broken
        BY <3>3, <4>2, <4>4
      <4> QED
        BY <3>2, <4>1, <4>2, <4>5 DEF GoodScriptsRun
    <3> QED
      BY <2>2, <3>1, <3>4, <3>5, <3>6 DEF Culprit
  <2>8. Path(world') /\ FrameMoves /\ FrameDraws
    <3>1. CASE u.stack = world.stack /\ world.stack = <<>> /\ t.picture = picture
      BY <2>1, <2>3, <3>1 DEF Path, PathOf, FrameMoves, FrameDraws
    <3>2. ASSUME NEW s \in Worlds, Fresh(world, s),
                 \/ Same(s.stack, u.stack)
                 \/ Asks(in) /\ (Pushed(s, u) \/ Popped(s, u)),
                 t.picture \in {picture, <<>>} \/
                    /\ t.picture = <<Len(u.stack), Top(u)>>
                    /\ Same(s.stack, u.stack)
          PROVE  Path(world') /\ FrameMoves /\ FrameDraws
      <4>1. /\ Path(u) /\ u.stack # <<>>
            /\ ScreenOf(s) = ScreenOf(world)
            /\ Same(s.stack, u.stack) => ScreenOf(u) = ScreenOf(world)
            /\ PathOf(s) = EnteredOf(world)
            /\ Same(s.stack, u.stack) => PathOf(u) = PathOf(s)
            /\ Pushed(s, u) =>
                  \E c \in Below[PathOf(s)[Len(PathOf(s))]] : PathOf(u) = Append(PathOf(s), c)
            /\ Popped(s, u) =>
                  /\ Len(PathOf(world)) > 1
                  /\ PathOf(u) = SubSeq(PathOf(world), 1, Len(PathOf(world)) - 1)
        BY <1>2, <2>2, <3>2, TickedPath
      <4>2. Path(world')
        BY <2>1, <2>3, <4>1 DEF Path
      <4>3. Asks(in) => in.pressed # {} \/ in.mouse = "press"
        BY DEF GameInv, ClickInv, Asks
      <4>4. FrameMoves
        <5>1. PathOf(world') = PathOf(u)
          BY <2>1, <2>5
        <5>2. CASE Same(s.stack, u.stack)
          BY <4>1, <5>1, <5>2 DEF FrameMoves, EnteredOf
        <5>3. CASE Asks(in) /\ Pushed(s, u)
          BY <4>1, <4>3, <5>1, <5>3 DEF FrameMoves
        <5>4. CASE Asks(in) /\ Popped(s, u)
          BY <4>1, <4>3, <5>1, <5>4 DEF FrameMoves
        <5> QED
          BY <3>2, <5>2, <5>3, <5>4
      <4>5. FrameDraws
        <5>1. SUFFICES ASSUME picture' # picture, picture' # <<>>
                       PROVE  /\ picture' = <<Len(world'.stack), Top(world')>>
                              /\ IF world.stack = <<>> THEN Len(world'.stack) = 1
                                 ELSE /\ Len(world'.stack) = Len(world.stack)
                                      /\ Top(world').name = Top(world).name
          BY DEF FrameDraws
        <5>2. t.picture = <<Len(u.stack), Top(u)>> /\ Same(s.stack, u.stack)
          BY <2>1, <3>2, <5>1
        <5>3. picture' = <<Len(world'.stack), Top(world')>>
          BY <2>1, <2>3, <2>5, <5>2
        <5>4. Len(world'.stack) = Len(s.stack)
          BY <2>1, <2>3, <5>2 DEF Same
        <5>5. CASE world.stack = <<>>
          <6> DEFINE o == New("MenuState")
          <6>1. s.stack = <<o>>
            BY <3>2, <5>5 DEF Fresh
          <6> HIDE DEF o
          <6>2. Len(s.stack) = 1
            BY <6>1
          <6> QED
            BY <5>3, <5>4, <5>5, <6>2
        <5>6. CASE world.stack # <<>>
          <6>1. s.stack = world.stack
            BY <3>2, <5>6 DEF Fresh
          <6>2. ScreenOf(world') = ScreenOf(world) /\ world'.stack # <<>>
            BY <2>1, <2>3, <2>5, <4>1, <5>2
          <6> QED
            BY <5>3, <5>4, <5>6, <6>1, <6>2 DEF ScreenOf
        <5> QED
          BY <5>5, <5>6
      <4> QED
        BY <4>2, <4>4, <4>5
    <3> QED
      BY <2>2, <3>1, <3>2
  <2>9. GameInv'
    BY <1>5, <2>1, <2>2, <2>3, <2>4, <2>6, <2>8
  <2> QED
    BY <1>1, <1>4, <2>7, <2>8, <2>9
<1> QED
  BY <1>6, <1>7

-----------------------------------------------------------------------------
(* The theorems *)

\* One line for each kind of step: the invariant, the scripts that failed, the
\* picture, and the step in the tree of screens.
LEMMA NextStep ==
    ASSUME GameInv, [Next]_vars
    PROVE  /\ GameInv'
           /\ GoodScriptsRun => GoodScriptsRun'
           /\ FrameDraws \/ main # "GSMUpdate"
           /\ [Tree!Next]_Tree!screensVars
<1> DEFINE asking == in.pressed # {} \/ in.mouse = "press"
<1>1. Tree!Entered = EnteredOf(world)
  BY DEF Tree!Entered, EnteredOf
<1>2. world \in Worlds /\ Path(world) /\ FileInv(world)
  BY DEF GameInv, TypeInv
<1>3. asking \in BOOLEAN /\ asking' \in BOOLEAN
  OBVIOUS
<1>4. ASSUME PathOf(world') = PathOf(world), Opened(world') = Opened(world),
             UNCHANGED <<broken, funcExist, in>>, main \notin Ended
      PROVE  /\ GoodScriptsRun => GoodScriptsRun'
             /\ [Tree!Next]_Tree!screensVars
  <2>1. GoodScriptsRun => GoodScriptsRun'
    BY <1>4 DEF GoodScriptsRun
  <2>2. CASE main' \in Ended
    <3>1. Tree!Stop
      BY <1>1, <1>4, <2>2 DEF Tree!Stop
    <3> QED
      BY <2>1, <3>1 DEF Tree!Next
  <2>3. CASE main' \notin Ended
    <3>1. UNCHANGED Tree!screensVars
      BY <1>1, <1>4, <2>3 DEF Tree!screensVars
    <3> QED
      BY <2>1, <3>1
  <2> QED
    BY <2>2, <2>3
<1>5. CASE \E script \in Scripts : DoFile(script)
  <2>1. PICK script \in Scripts : DoFile(script)
    BY <1>5
  <2>2. GameInv' /\ PathOf(world') = PathOf(world) /\ Opened(world') = Opened(world)
    BY <2>1, LoadStep
  <2>3. main = "scripts" /\ UNCHANGED <<broken, funcExist, in>>
    BY <2>1 DEF DoFile
  <2> QED
    BY <1>4, <2>2, <2>3 DEF Ended
<1>6. CASE PlainStep
  <2>1. GameInv' /\ UNCHANGED <<world, broken, funcExist, in, picture>> /\ main \notin Ended
    BY <1>6, PlainSteps
  <2>2. Opened(world') = Opened(world)
    BY <2>1
  <2> QED
    BY <1>4, <2>1, <2>2 DEF FrameDraws
<1>7. CASE WindowInit
  <2>1. GameInv' /\ Still(world, world') /\ UNCHANGED <<broken, funcExist, in, picture>>
    BY <1>7, WindowInitStep
  <2>2. main = "WindowInit"
    BY <1>7 DEF WindowInit
  <2>3. Opened(world') = Opened(world) /\ PathOf(world') = PathOf(world)
    BY <1>2, <2>1, StillKeepsInvariant
  <2> QED
    BY <1>4, <2>1, <2>2, <2>3 DEF Ended
<1>8. CASE WindowUpdate
  <2>1. /\ GameInv' /\ Still(world, world') /\ UNCHANGED <<broken, funcExist, picture>>
        /\ main \notin Ended /\ main' \notin Ended
    BY <1>8, WindowUpdateStep
  <2>2. Opened(world') = Opened(world) /\ PathOf(world') = PathOf(world)
    BY <1>2, <2>1, StillKeepsInvariant
  <2>3. Tree!Listen
    BY <1>1, <1>3, <2>1, <2>2 DEF Tree!Listen
  <2>4. GoodScriptsRun => GoodScriptsRun'
    BY <2>1, <2>2 DEF GoodScriptsRun
  <2> QED
    BY <2>1, <2>3, <2>4 DEF Tree!Next, FrameDraws
<1>9. CASE GSMUpdate
  <2>1. /\ GameInv' /\ UNCHANGED broken /\ in' = Quiet
        /\ main \notin Ended /\ main' \notin Ended
        /\ FrameMoves /\ FrameDraws
        /\ GoodScriptsRun => GoodScriptsRun'
    BY <1>9, TickStep
  <2>2. asking' = FALSE
    BY <2>1, QuietIsInput
  <2>3. CASE PathOf(world') = PathOf(world)
    <3>1. Tree!Listen
      BY <1>1, <2>1, <2>2, <2>3 DEF Tree!Listen
    <3> QED
      BY <2>1, <3>1 DEF Tree!Next
  <2>4. CASE PathOf(world) = <<>> /\ PathOf(world') = EnteredOf(world)
    <3>1. Tree!Enter
      BY <1>1, <2>1, <2>2, <2>4 DEF Tree!Enter
    <3> QED
      BY <2>1, <3>1 DEF Tree!Next
  <2>5. CASE asking /\ \E c \in Below[EnteredOf(world)[Len(EnteredOf(world))]] :
                            PathOf(world') = Append(EnteredOf(world), c)
    <3>1. Tree!Open
      BY <1>1, <2>1, <2>2, <2>5 DEF Tree!Open
    <3> QED
      BY <2>1, <3>1 DEF Tree!Next
  <2>6. CASE /\ asking /\ Len(PathOf(world)) > 1
             /\ PathOf(world') = SubSeq(PathOf(world), 1, Len(PathOf(world)) - 1)
    <3>1. Tree!Back
      BY <2>1, <2>2, <2>6 DEF Tree!Back
    <3> QED
      BY <2>1, <3>1 DEF Tree!Next
  <2> QED
    BY <2>1, <2>3, <2>4, <2>5, <2>6 DEF FrameMoves
<1>10. CASE Kill
  <2>1. /\ GameInv' /\ UNCHANGED <<broken, funcExist, in, picture>> /\ main' = "killed"
        /\ main \notin Ended
        /\ PathOf(world') = PathOf(world) /\ Opened(world') = Opened(world)
    BY <1>10, KillStep
  <2> QED
    BY <1>4, <2>1 DEF FrameDraws
<1>11. CASE Restart
  <2>1. GameInv' /\ funcExist' = TRUE /\ PathOf(world') = <<>>
    BY <1>11, RestartStep
  <2>2. main = "killed" /\ main' = "scripts" /\ in' = Quiet
    BY <1>11 DEF Restart
  <2>3. asking' = FALSE
    BY <2>2, QuietIsInput
  <2>4. Tree!Start
    BY <1>1, <2>1, <2>2, <2>3 DEF Tree!Start, Ended
  <2> QED
    BY <2>1, <2>2, <2>4 DEF Tree!Next, GoodScriptsRun
<1>12. CASE UNCHANGED vars
  <2>1. GameInv' /\ (GoodScriptsRun => GoodScriptsRun')
    BY <1>12 DEF vars, GameInv, TypeInv, ClickInv, LoadedInv, GoodScriptsRun
  <2>2. UNCHANGED Tree!screensVars
    BY <1>12 DEF vars, Tree!screensVars
  <2> QED
    BY <1>12, <2>1, <2>2 DEF vars, FrameDraws
<1> QED
  BY <1>5, <1>6, <1>7, <1>8, <1>9, <1>10, <1>11, <1>12 DEF Next, Step, PlainStep

LEMMA Invariance == Spec => []GameInv
<1>1. GameInv /\ [Next]_vars => GameInv'
  BY NextStep
<1> QED
  BY <1>1, InitInvariant, PTL DEF Spec

LEMMA FileIsNumber == GameInv => NumberKept
<1> SUFFICES ASSUME GameInv, NEW bytes \in world.file, bytes # <<>>, NEW m \in Numbers
             PROVE  ReadInt(Load(Packet, bytes), m) = world.lastSaved
  BY DEF NumberKept
<1>1. bytes = Bytes(world.lastSaved)
  BY DEF GameInv, FileInv
<1>2. world.lastSaved \in Numbers
  BY DEF GameInv, TypeInv, Worlds
<1> QED
  BY <1>1, <1>2, ReadsBack

\* For every size of an integer, every player and every set of broken scripts, a
\* save file that is not empty yields the number written to it last: what SQFile-
\* WriteInt and Save put into it, over screens, kills and restarts.
THEOREM SavedNumberIsKept == Spec => []NumberKept
  BY Invariance, FileIsNumber, PTL

\* A game whose scripts have stopped has a broken script that it cannot do
\* without, or that the screen the player wanted uses.
THEOREM OnlyCulpritsStop == Spec => []GoodScriptsRun
<1>1. Init => GoodScriptsRun
  BY DEF Init, GoodScriptsRun
<1>2. GameInv /\ GoodScriptsRun /\ [Next]_vars => GoodScriptsRun'
  BY NextStep
<1> QED
  BY <1>1, <1>2, Invariance, PTL DEF Spec

\* A frame presents the state that took its input, never one before its first
\* Update: State.nut's DropFrame.
THEOREM PicturesAreFresh == Spec => DrawnIsFresh
<1>1. GameInv /\ [Next]_vars =>
          [main = "GSMUpdate" /\ picture' # picture /\ picture' # <<>> =>
                /\ picture' = <<Len(world'.stack), Top(world')>>
                /\ IF world.stack = <<>> THEN Len(world'.stack) = 1
                   ELSE Len(world'.stack) = Len(world.stack) /\ Top(world').name = Top(world).name
          ]_vars
  BY NextStep DEF FrameDraws
<1> QED
  BY <1>1, Invariance, PTL DEF Spec, DrawnIsFresh

\* The game implements Screens with its whole stack: whatever is pressed together,
\* a frame opens one screen on those that are open or goes back by one, never from
\* the menu, and only for a press of its own.
THEOREM GameNavigates == Spec => Navigates
<1>1. Init => Tree!Init
  <2> SUFFICES ASSUME Init PROVE Tree!Init
    OBVIOUS
  <2>1. world \in Worlds
    BY InitInvariant DEF GameInv, TypeInv
  <2>2. world.stack = <<>>
    BY DEF Init, NewWorld
  <2>3. PathOf(world) = <<>>
    BY <2>1, <2>2, PathIs
  <2> QED
    BY <2>3, QuietIsInput DEF Init, Tree!Init, Ended
<1>2. GameInv /\ [Next]_vars => [Tree!Next]_Tree!screensVars
  BY NextStep
<1> QED
  BY <1>1, <1>2, Invariance, PTL DEF Spec, Navigates, Tree!Spec
=============================================================================
