-------------------------- MODULE AudioFeederProofs --------------------------
(***************************************************************************)
(* Theorems about AudioFeeder, for any set of files with any contents: the *)
(* type of its state, the three effect slots as one player, what is sent   *)
(* when and in which order.                                                *)
(***************************************************************************)
EXTENDS AudioFeeder, WellFoundedInduction, TLAPS

-----------------------------------------------------------------------------
(* The cursor.  NotDue is the index at which the while loop of               *)
(* UpdateAudioFeeder stops; that it stops at all is the well-foundedness of  *)
(* the numbers.                                                              *)

LEMMA LeastNumber ==
    ASSUME NEW T \in SUBSET Nat, T # {}
    PROVE  \E n \in T : \A m \in T : n <= m
<1> DEFINE R == {ss \in Nat \X Nat : ss[1] < ss[2]}
<1>1. IsWellFoundedOn(R, Nat)
  BY NatLessThanWellFounded DEF OpToRel
<1> HIDE DEF R
<1>2. PICK n \in T : \A m \in T : ~ (<<m, n>> \in R)
  BY <1>1, WFMin
<1>3. \A m \in T : ~ (m < n)
  BY <1>2 DEF R
<1> QED
  BY <1>3

LEMMA NotDueStops ==
    ASSUME NEW track \in Seq(Sample), NEW i \in 1 .. (Len(track) + 1), NEW t \in Nat
    PROVE  /\ NotDue(track, i, t) \in i .. (Len(track) + 1)
           /\ NotDue(track, i, t) <= Len(track) => track[NotDue(track, i, t)].position > t
           /\ \A k \in i .. (NotDue(track, i, t) - 1) : track[k].position <= t
<1> DEFINE T == {j \in i .. (Len(track) + 1) : j <= Len(track) => track[j].position > t}
           Stop(j) == /\ j <= Len(track) => track[j].position > t
                      /\ \A k \in i .. (j - 1) : track[k].position <= t
<1>1. T \in SUBSET Nat /\ Len(track) + 1 \in T
  OBVIOUS
<1>2. PICK j \in T : \A m \in T : j <= m
  BY <1>1, LeastNumber
<1>3. \A k \in i .. (j - 1) : track[k].position <= t
  <2> SUFFICES ASSUME NEW k \in i .. (j - 1) PROVE track[k].position <= t
    OBVIOUS
  <2>1. j \in 1 .. (Len(track) + 1) /\ k \in 1 .. Len(track) /\ ~ (j <= k)
    BY <1>2
  <2>2. k \notin T
    BY <1>2, <2>1
  <2>3. ~ (track[k].position > t)
    BY <2>1, <2>2
  <2>4. track[k].position \in Int
    <3>1. track[k] \in Sample
      BY <2>1
    <3> QED
      BY <3>1 DEF Sample
  <2> QED
    BY <2>3, <2>4
<1>4. \E n \in i .. (Len(track) + 1) : Stop(n)
  BY <1>2, <1>3
<1> HIDE DEF Stop
<1>5. NotDue(track, i, t) = CHOOSE n \in i .. (Len(track) + 1) : Stop(n)
  BY DEF NotDue, Stop
<1>6. NotDue(track, i, t) \in i .. (Len(track) + 1) /\ Stop(NotDue(track, i, t))
  BY <1>4, <1>5
<1> QED
  BY <1>6 DEF Stop

-----------------------------------------------------------------------------
(* Types *)

Track(slot) == loadedAudio[slot.data]

SlotType == [data : DOMAIN loadedAudio \cup {None}, nextNote : Nat \ {0},
             time : Nat, priority : {Low, Medium, High}]

Placed(slot) == slot.data # None => slot.nextNote \in 1 .. (Len(Track(slot)) + 1)

Calls == [stream : {"Square1", "Triangle", "Noise"}, priority : {Low, Medium, High},
          slot : Slots, sample : Nat]

LEMMA SamplesType ==
    ASSUME NEW f \in Files, Valid(f)
    PROVE  Samples(f) \in Seq(Sample)
<1>1. f.size \in Nat /\ f.records \in Seq([position : Int, channel : Int])
  BY FilesAssumption DEF Valid
<1>2. ASSUME NEW i \in 1 .. f.size
      PROVE  [position |-> f.records[i].position,
              channel |-> ChannelOf[f.records[i].channel]] \in Sample
  <2>1. i \in DOMAIN f.records /\ f.records[i].channel \in DOMAIN ChannelOf
    BY <1>2 DEF Valid, Readable
  <2>2. f.records[i] \in [position : Int, channel : Int]
    <3>1. ASSUME NEW S, NEW r \in Seq(S), i \in DOMAIN r
          PROVE  r[i] \in S
      <4>1. DOMAIN r = 1 .. Len(r)
        OBVIOUS
      <4> QED
        BY <3>1, <4>1
    <3> QED
      BY <1>1, <2>1, <3>1
  <2>3. f.records[i].channel \in 1 .. 4
    BY <2>1 DEF ChannelOf
  <2>4. ChannelOf[f.records[i].channel] \in {"Square1", "Square2", "Triangle", "Noise"}
    BY <2>3 DEF ChannelOf
  <2> QED
    BY <2>2, <2>4 DEF Sample
<1>3. Samples(f) \in [1 .. f.size -> Sample]
  BY <1>2 DEF Samples
<1> QED
  BY <1>1, <1>3

\* What a step of a slot that plays makes of it.
LEMMA AdvanceType ==
    ASSUME TypeOK, NEW slot \in SlotType, Placed(slot)
    PROVE  /\ Advance(slot) \in SlotType
           /\ Placed(Advance(slot))
           /\ slot.data # None =>
                 /\ Track(slot) \in Seq(Sample)
                 /\ Cursor(slot) \in slot.nextNote .. (Len(Track(slot)) + 1)
                 /\ Cursor(slot) <= Len(Track(slot)) =>
                       Track(slot)[Cursor(slot)].position > slot.time + 1
                 /\ \A k \in slot.nextNote .. (Cursor(slot) - 1) :
                       Track(slot)[k].position <= slot.time + 1
<1>1. CASE slot.data = None
  BY <1>1 DEF Advance
<1>2. CASE slot.data # None
  <2>1. /\ Track(slot) \in Seq(Sample) /\ slot.time + 1 \in Nat
        /\ slot.nextNote \in 1 .. (Len(Track(slot)) + 1) /\ slot.data \in DOMAIN loadedAudio
    BY <1>2 DEF TypeOK, SlotType, Placed, Track
  <2>2. /\ Cursor(slot) \in slot.nextNote .. (Len(Track(slot)) + 1)
        /\ Cursor(slot) <= Len(Track(slot)) =>
              Track(slot)[Cursor(slot)].position > slot.time + 1
        /\ \A k \in slot.nextNote .. (Cursor(slot) - 1) :
              Track(slot)[k].position <= slot.time + 1
    BY <2>1, NotDueStops DEF Cursor, Track
  <2>3. Cursor(slot) \in 1 .. (Len(Track(slot)) + 1)
    BY <2>1, <2>2
  <2>4. Advance(slot) = [data |-> IF Ended(slot) THEN None ELSE slot.data,
                         nextNote |-> Cursor(slot),
                         time |-> slot.time + 1,
                         priority |-> IF Ended(slot) THEN Low ELSE slot.priority]
    BY <1>2 DEF Advance
  <2>5. Advance(slot) \in SlotType
    BY <2>1, <2>3, <2>4 DEF SlotType
  <2>6. Placed(Advance(slot))
    BY <2>3, <2>4 DEF Placed, Track
  <2> QED
    BY <2>1, <2>2, <2>5, <2>6
<1> QED
  BY <1>1, <1>2

\* The calls for one slot: those for the samples the cursor passes.
LEMMA DueType ==
    ASSUME TypeOK, NEW s \in Slots, NEW slot \in SlotType, slot = slots[s], Placed(slot)
    PROVE  /\ Due(s) \in Seq(Calls)
           /\ \A i \in DOMAIN Due(s) : Due(s)[i].priority = slot.priority /\ Due(s)[i].slot = s
           /\ slot.data # None =>
                 {Due(s)[i].sample : i \in DOMAIN Due(s)} = slot.nextNote .. (Cursor(slot) - 1)
<1>1. CASE slot.data = None
  BY <1>1 DEF Due
<1>2. CASE slot.data # None
  <2> DEFINE n == Cursor(slot) - slot.nextNote
             call(i) == [stream |-> Route(Track(slot)[slot.nextNote + i - 1].channel),
                         priority |-> slot.priority, slot |-> s, sample |-> slot.nextNote + i - 1]
  <2>1. /\ n \in Nat /\ Track(slot) \in Seq(Sample) /\ slot.nextNote \in Nat \ {0}
        /\ slot.nextNote + n - 1 <= Len(Track(slot))
    <3>1. slot.nextNote \in Nat \ {0} /\ Placed(slot) /\ slot \in SlotType
      BY DEF SlotType
    <3>2. /\ Track(slot) \in Seq(Sample)
          /\ Cursor(slot) \in slot.nextNote .. (Len(Track(slot)) + 1)
      BY <1>2, AdvanceType
    <3> QED
      BY <3>1, <3>2
  <2>2. Due(s) = [i \in 1 .. n |-> call(i)]
    BY <1>2 DEF Due, Track
  <2>3. ASSUME NEW i \in 1 .. n PROVE call(i) \in Calls
    <3>1. slot.nextNote + i - 1 \in 1 .. Len(Track(slot))
      BY <2>1
    <3>2. Track(slot)[slot.nextNote + i - 1] \in Sample
      BY <2>1, <3>1
    <3>3. Route(Track(slot)[slot.nextNote + i - 1].channel) \in {"Square1", "Triangle", "Noise"}
      BY <3>2 DEF Sample, Route
    <3>4. slot.nextNote + i - 1 \in Nat /\ slot.priority \in {Low, Medium, High}
      BY <3>1 DEF SlotType
    <3> QED
      BY <3>3, <3>4 DEF Calls
  <2>4. Cursor(slot) = slot.nextNote + n
    <3>1. Cursor(slot) \in Int
      <4>1. /\ Track(slot) \in Seq(Sample)
            /\ Cursor(slot) \in slot.nextNote .. (Len(Track(slot)) + 1)
        BY <1>2, AdvanceType
      <4> QED
        BY <4>1
    <3> QED
      BY <2>1, <3>1
  <2> HIDE DEF n
  <2>5. [i \in 1 .. n |-> call(i)] \in Seq(Calls)
    <3> HIDE DEF call
    <3> QED
      BY <2>1, <2>3
  <2>6. \A i \in 1 .. n : /\ call(i).priority = slot.priority /\ call(i).slot = s
                          /\ call(i).sample = slot.nextNote + i - 1
    OBVIOUS
  <2> HIDE DEF call
  <2>7. DOMAIN Due(s) = 1 .. n /\ \A i \in 1 .. n : Due(s)[i] = call(i)
    BY <2>2
  <2>8. {Due(s)[i].sample : i \in DOMAIN Due(s)} = {slot.nextNote + i - 1 : i \in 1 .. n}
    BY <2>6, <2>7
  <2>9. {slot.nextNote + i - 1 : i \in 1 .. n} = slot.nextNote .. (slot.nextNote + n - 1)
    <3>1. ASSUME NEW k \in slot.nextNote .. (slot.nextNote + n - 1)
          PROVE  k \in {slot.nextNote + i - 1 : i \in 1 .. n}
      <4>1. k - slot.nextNote + 1 \in 1 .. n /\ k = slot.nextNote + (k - slot.nextNote + 1) - 1
        BY <2>1
      <4> QED
        BY <4>1
    <3>2. ASSUME NEW i \in 1 .. n
          PROVE  slot.nextNote + i - 1 \in slot.nextNote .. (slot.nextNote + n - 1)
      BY <2>1
    <3> QED
      BY <3>1, <3>2
  <2>10. {Due(s)[i].sample : i \in DOMAIN Due(s)} = slot.nextNote .. (Cursor(slot) - 1)
    <3>1. Cursor(slot) - 1 = slot.nextNote + n - 1
      BY <2>1, <2>4
    <3> QED
      BY <2>8, <2>9, <3>1
  <2>11. Due(s) \in Seq(Calls)
    BY <2>2, <2>5
  <2>12. \A i \in DOMAIN Due(s) : Due(s)[i].priority = slot.priority /\ Due(s)[i].slot = s
    BY <2>6, <2>7
  <2> QED
    BY <2>10, <2>11, <2>12
<1> QED
  BY <1>1, <1>2

-----------------------------------------------------------------------------
(* One slot, of a library lib *)

SlotsOf(lib) == [data : DOMAIN lib \cup {None}, nextNote : Nat \ {0},
                 time : Nat, priority : {Low, Medium, High}]

\* Its type, and where its cursor is: behind samples that were due, and in a
\* sorted track before all that are not.  (A slot that has not been advanced yet
\* has sent nothing, whatever is due at 0.)
SlotOK(slot, lib) ==
    /\ slot \in SlotsOf(lib)
    /\ slot.data # None =>
          /\ slot.nextNote \in 1 .. (Len(lib[slot.data]) + 1)
          /\ \A i \in 1 .. (slot.nextNote - 1) : lib[slot.data][i].position <= slot.time
          /\ slot.time = 0 => slot.nextNote = 1
          /\ slot.time > 0 /\ Sorted(lib[slot.data]) =>
                \A i \in DOMAIN lib[slot.data] :
                   lib[slot.data][i].position <= slot.time => i < slot.nextNote

Library(lib) == DOMAIN lib \subseteq Names /\ \A n \in DOMAIN lib : lib[n] \in Seq(Sample)

LEMMA NamesAreTracks == None \notin Names
  BY FilesAssumption DEF Names

LEMMA BeginFields ==
    ASSUME NEW lib, NEW slot \in SlotsOf(lib), NEW n \in DOMAIN lib,
           NEW p \in {Low, Medium, High}
    PROVE  /\ Begin(slot, n, p) \in SlotsOf(lib)
           /\ Begin(slot, n, p).data = n /\ Begin(slot, n, p).nextNote = 1
           /\ Begin(slot, n, p).time = 0 /\ Begin(slot, n, p).priority = p
<1>1. Begin(slot, n, p) \in SlotsOf(lib)
  <2> DEFINE D == DOMAIN lib \cup {None}
             N == Nat \ {0}
             P == {Low, Medium, High}
  <2>1. slot \in [data : D, nextNote : N, time : Nat, priority : P]
    BY DEF SlotsOf
  <2>2. n \in D /\ p \in P /\ 1 \in N
    OBVIOUS
  <2> HIDE DEF D, N, P
  <2>3. Begin(slot, n, p) \in [data : D, nextNote : N, time : Nat, priority : P]
    BY <2>1, <2>2 DEF Begin
  <2> QED
    BY <2>3 DEF D, N, P, SlotsOf
<1>2. Begin(slot, n, p).data = n
  BY DEF Begin, SlotsOf
<1>3. Begin(slot, n, p).nextNote = 1
  BY DEF Begin, SlotsOf
<1>4. Begin(slot, n, p).time = 0
  BY DEF Begin, SlotsOf
<1>5. Begin(slot, n, p).priority = p
  BY DEF Begin, SlotsOf
<1> QED
  BY <1>1, <1>2, <1>3, <1>4, <1>5

LEMMA BeginOK ==
    ASSUME NEW lib, NEW slot, SlotOK(slot, lib), NEW n \in DOMAIN lib,
           Library(lib), NEW p \in {Low, Medium, High}
    PROVE  /\ SlotOK(Begin(slot, n, p), lib)
           /\ Begin(slot, n, p).data = n /\ Begin(slot, n, p).nextNote = 1
           /\ Begin(slot, n, p).priority = p
<1>1. Len(lib[n]) \in Nat
  BY DEF Library
<1> QED
  <2> DEFINE b == Begin(slot, n, p)
  <2>1. /\ b \in SlotsOf(lib) /\ b.data = n /\ b.nextNote = 1 /\ b.time = 0 /\ b.priority = p
    BY BeginFields DEF SlotOK
  <2> HIDE DEF b
  <2>2. /\ b.nextNote \in 1 .. (Len(lib[b.data]) + 1)
        /\ \A i \in 1 .. (b.nextNote - 1) : lib[b.data][i].position <= b.time
        /\ ~ (b.time > 0) /\ b.nextNote = 1
    BY <1>1, <2>1
  <2>3. SlotOK(b, lib)
    BY <2>1, <2>2 DEF SlotOK
  <2> QED
    BY <2>1, <2>3 DEF b

LEMMA AdvanceOK ==
    ASSUME TypeOK, NEW slot, SlotOK(slot, loadedAudio)
    PROVE  SlotOK(Advance(slot), loadedAudio)
<1>1. slot \in SlotType /\ Placed(slot)
  BY DEF SlotOK, SlotsOf, SlotType, Placed, Track
<1>2. CASE slot.data = None
  BY <1>2 DEF Advance
<1>3. CASE slot.data # None /\ Ended(slot)
  <2>1. Advance(slot).data = None
    BY <1>3 DEF Advance
  <2> QED
    BY <1>1, <2>1, AdvanceType DEF SlotOK, SlotsOf, SlotType
<1>4. CASE slot.data # None /\ ~Ended(slot)
  <2> DEFINE t == Track(slot)
             c == Cursor(slot)
  <2>1. /\ t \in Seq(Sample) /\ slot.nextNote \in 1 .. (Len(t) + 1) /\ slot.time \in Nat
        /\ c \in slot.nextNote .. (Len(t) + 1) /\ c <= Len(t)
        /\ t[c].position > slot.time + 1
        /\ \A k \in slot.nextNote .. (c - 1) : t[k].position <= slot.time + 1
        /\ \A k \in 1 .. (slot.nextNote - 1) : t[k].position <= slot.time
    <3>1. ~ (c > Len(t))
      BY <1>4 DEF Ended, Track
    <3>2. /\ t \in Seq(Sample) /\ c \in slot.nextNote .. (Len(t) + 1)
          /\ c <= Len(t) => t[c].position > slot.time + 1
          /\ \A k \in slot.nextNote .. (c - 1) : t[k].position <= slot.time + 1
      BY <1>1, <1>4, AdvanceType
    <3>3. /\ slot.nextNote \in 1 .. (Len(t) + 1) /\ slot.time \in Nat
          /\ \A k \in 1 .. (slot.nextNote - 1) : t[k].position <= slot.time
      BY <1>4 DEF SlotOK, SlotsOf, Track
    <3> HIDE DEF t, c
    <3>4. c <= Len(t)
      BY <3>1, <3>2, <3>3
    <3> QED
      BY <3>2, <3>3, <3>4
  <2>2. Advance(slot) = [data |-> slot.data, nextNote |-> c, time |-> slot.time + 1,
                         priority |-> slot.priority]
    BY <1>4 DEF Advance
  <2> HIDE DEF t, c
  <2>3. \A k \in DOMAIN t : t[k].position \in Int
    <3>1. \A k \in DOMAIN t : t[k] \in Sample
      BY <2>1
    <3> QED
      BY <3>1 DEF Sample
  <2>4. \A k \in 1 .. (c - 1) : t[k].position <= slot.time + 1
    <3> SUFFICES ASSUME NEW k \in 1 .. (c - 1) PROVE t[k].position <= slot.time + 1
      OBVIOUS
    <3>1. t[k].position \in Int /\ slot.time \in Nat
      BY <2>1, <2>3
    <3>2. CASE k < slot.nextNote
      <4>1. t[k].position <= slot.time
        BY <2>1, <3>2
      <4> QED
        BY <3>1, <4>1
    <3>3. CASE ~ (k < slot.nextNote)
      BY <2>1, <3>3
    <3> QED
      BY <3>2, <3>3
  <2>5. Sorted(t) => \A k \in DOMAIN t : t[k].position <= slot.time + 1 => k < c
    <3> SUFFICES ASSUME Sorted(t), NEW k \in DOMAIN t, ~ (k < c)
                 PROVE  ~ (t[k].position <= slot.time + 1)
      OBVIOUS
    <3>1. c \in DOMAIN t /\ k \in 1 .. Len(t)
      BY <2>1
    <3>2. t[c].position <= t[k].position
      <4>1. CASE c < k
        BY <3>1, <4>1 DEF Sorted
      <4>2. CASE c = k
        BY <2>3, <3>1, <4>2
      <4> QED
        BY <2>1, <3>1, <4>1, <4>2
    <3> QED
      BY <2>1, <2>3, <3>1, <3>2
  <2>6. /\ c \in 1 .. (Len(t) + 1) /\ slot.time + 1 \in Nat /\ slot.time + 1 # 0
    BY <2>1
  <2>7. slot.data \in DOMAIN loadedAudio /\ slot.priority \in {Low, Medium, High}
    BY <1>1, <1>4 DEF SlotType
  <2>8. loadedAudio[slot.data] = t
    BY DEF t, Track
  <2> QED
    BY <2>2, <2>4, <2>5, <2>6, <2>7, <2>8 DEF SlotOK, SlotsOf
<1> QED
  BY <1>2, <1>3, <1>4

-----------------------------------------------------------------------------
(* The order of what is sent *)

\* First n calls of low priority, then calls of priority p.
TwoParts(calls, n, p) ==
    /\ calls \in Seq(Calls)
    /\ n \in 0 .. Len(calls)
    /\ \A i \in 1 .. n : calls[i].priority = Low
    /\ \A i \in (n + 1) .. Len(calls) : calls[i].priority = p

LEMMA TwoPartsGoOn ==
    ASSUME NEW a, NEW n, NEW p, TwoParts(a, n, p), NEW b \in Seq(Calls),
           \A i \in DOMAIN b : b[i].priority = p
    PROVE  TwoParts(a \o b, n, p)
<1>1. a \in Seq(Calls) /\ n \in 0 .. Len(a)
  BY DEF TwoParts
<1>2. a \o b \in Seq(Calls) /\ Len(a \o b) = Len(a) + Len(b)
  BY <1>1
<1>3. \A i \in 1 .. Len(a) : (a \o b)[i] = a[i]
  BY <1>1
<1>4. \A i \in (Len(a) + 1) .. (Len(a) + Len(b)) :
          (a \o b)[i] = b[i - Len(a)] /\ i - Len(a) \in DOMAIN b
  BY <1>1
<1>5. \A i \in 1 .. n : (a \o b)[i].priority = Low
  BY <1>1, <1>3 DEF TwoParts
<1>6. \A i \in (n + 1) .. (Len(a) + Len(b)) : (a \o b)[i].priority = p
  <2> SUFFICES ASSUME NEW i \in (n + 1) .. (Len(a) + Len(b))
               PROVE  (a \o b)[i].priority = p
    OBVIOUS
  <2>1. CASE i \in (n + 1) .. Len(a)
    <3>1. (a \o b)[i] = a[i]
      BY <1>1, <1>3, <2>1
    <3> QED
      BY <2>1, <3>1 DEF TwoParts
  <2>2. CASE i \in (Len(a) + 1) .. (Len(a) + Len(b))
    BY <1>4, <2>2
  <2> QED
    BY <1>1, <2>1, <2>2
<1> QED
  BY <1>1, <1>2, <1>5, <1>6 DEF TwoParts

LEMMA TwoPartsRise ==
    ASSUME NEW a, NEW n, NEW p \in {Low, Medium, High}, TwoParts(a, n, p)
    PROVE  \A i, j \in DOMAIN a : i < j => a[i].priority <= a[j].priority
<1> SUFFICES ASSUME NEW i \in 1 .. Len(a), NEW j \in 1 .. Len(a), i < j
             PROVE  a[i].priority <= a[j].priority
  BY DEF TwoParts
<1>1. n \in Nat /\ Len(a) \in Nat
  BY DEF TwoParts
<1>2. (i <= n => a[i].priority = Low) /\ (~ (i <= n) => a[i].priority = p)
  BY <1>1 DEF TwoParts
<1>3. (j <= n => a[j].priority = Low) /\ (~ (j <= n) => a[j].priority = p)
  BY <1>1 DEF TwoParts
<1> QED
  BY <1>1, <1>2, <1>3 DEF Low, Medium, High

-----------------------------------------------------------------------------
(* The slots as one *)

SlotsInv == DOMAIN slots = Slots /\ Lockstep

LEMMA SlotsStep == SlotsInv /\ [Next]_vars => SlotsInv'
  <1> SUFFICES ASSUME SlotsInv, [Next]_vars PROVE SlotsInv'
    OBVIOUS
  <1> USE DEF SlotsInv, Lockstep, Slots, SfxSlots
  <1>1. ASSUME NEW f \in Files, LoadFile(f) PROVE SlotsInv'
    BY <1>1 DEF LoadFile
  <1>2. ASSUME NEW n \in Names, PlayBGM(n) PROVE SlotsInv'
    BY <1>2 DEF PlayBGM
  <1>3. ASSUME NEW n \in Names, NEW p \in {Medium, High}, PlaySFX(n, p)
        PROVE  SlotsInv'
    <2>1. \A s \in SfxSlots :
              slots'[s] = IF slots[s].priority < p THEN Begin(slots[s], n, p)
                                                   ELSE slots[s]
      BY <1>3 DEF PlaySFX, Takes
    <2>2. DOMAIN slots' = Slots
      BY <1>3 DEF PlaySFX
    <2>3. QED
      BY <2>1, <2>2
  <1>4. CASE UpdateAudioFeeder
    <2>1. CASE tickCounter
      <3>1. \A s \in SfxSlots : slots'[s] = Advance(slots[s])
        BY <1>4, <2>1 DEF UpdateAudioFeeder
      <3>2. DOMAIN slots' = Slots
        BY <1>4, <2>1 DEF UpdateAudioFeeder
      <3>3. QED
        BY <3>1, <3>2
    <2>2. CASE ~tickCounter
      BY <1>4, <2>2 DEF UpdateAudioFeeder
    <2>3. QED
      BY <2>1, <2>2
  <1>5. CASE UNCHANGED vars
    BY <1>5 DEF vars
  <1>6. QED
    BY <1>1, <1>2, <1>3, <1>4, <1>5 DEF Next

\* The pool of effect slots (AudioLoader.cpp:27) never plays two effects: its
\* slots agree in track, place, time and priority, because PlaySFX takes every
\* slot it outranks (:149-158) and every tick treats all alike (:100-125).
THEOREM SlotsInLockstep == Spec => []Lockstep
  <1>1. Init => SlotsInv
    BY DEF Init, SlotsInv, Lockstep, Slots, SfxSlots
  <1>2. SlotsInv => Lockstep
    BY DEF SlotsInv
  <1>3. QED
    BY <1>1, <1>2, SlotsStep, PTL DEF Spec

-----------------------------------------------------------------------------
(* The invariant *)

SlotsOK == \A s \in Slots : SlotOK(slots[s], loadedAudio)

\* Nothing plays before everything is loaded.
LoadedFirst == unread # {} => \A s \in Slots : slots[s].data = None

SentType == sent \in Seq(Calls)

FeederInv ==
    /\ unread \subseteq Files /\ Library(loadedAudio) /\ tickCounter \in BOOLEAN
    /\ SlotsInv /\ SlotsOK /\ slots = [s \in Slots |-> slots[s]]
    /\ slots[0].priority = Low
    /\ LoadedFirst
    /\ SentType /\ SendsRise

LEMMA InvTypes == FeederInv => TypeOK
<1> SUFFICES ASSUME FeederInv PROVE TypeOK
  OBVIOUS
<1>1. \A s \in Slots : slots[s] \in SlotsOf(loadedAudio)
  BY DEF FeederInv, SlotsOK, SlotOK
<1>2. slots \in [Slots -> SlotsOf(loadedAudio)]
  BY <1>1 DEF FeederInv
<1>3. \A s \in Slots : slots[s].data # None =>
          slots[s].nextNote \in 1 .. (Len(loadedAudio[slots[s].data]) + 1)
  BY DEF FeederInv, SlotsOK, SlotOK
<1> QED
  BY <1>2, <1>3 DEF TypeOK, FeederInv, Library, SlotsOf, SentType, Calls

LEMMA InvInit == Init => FeederInv
<1> SUFFICES ASSUME Init PROVE FeederInv
  OBVIOUS
<1>1. \A s \in Slots : slots[s] = Rest
  BY DEF Init
<1>2. SlotsInv
  BY DEF Init, SlotsInv, Lockstep, Slots, SfxSlots
<1>3. SlotsOK
  BY <1>1 DEF SlotsOK, SlotOK, SlotsOf, Rest
<1>4. slots = [s \in Slots |-> slots[s]]
  BY DEF Init
<1>5. Library(loadedAudio)
  BY DEF Init, Library
<1>6. LoadedFirst /\ slots[0].priority = Low
  BY <1>1 DEF LoadedFirst, Rest, Slots
<1>7. SentType /\ SendsRise
  BY DEF Init, SentType, SendsRise
<1> QED
  BY <1>2, <1>3, <1>4, <1>5, <1>6, <1>7 DEF FeederInv, Init

\* What LoadFile does to the library, whether it takes the file or not.
LEMMA LoadKeeps ==
    ASSUME FeederInv, NEW f \in Files, LoadFile(f)
    PROVE  /\ Library(loadedAudio')
           /\ DOMAIN loadedAudio \subseteq DOMAIN loadedAudio'
           /\ \A n \in DOMAIN loadedAudio : loadedAudio'[n] = loadedAudio[n]
<1>1. CASE Valid(f) /\ f.name \notin DOMAIN loadedAudio
  <2> DEFINE D == DOMAIN loadedAudio \cup {f.name}
             t == Samples(f)
  <2>1. loadedAudio' = [n \in D |-> IF n = f.name THEN t ELSE loadedAudio[n]]
    BY <1>1 DEF LoadFile
  <2>2. t \in Seq(Sample)
    BY <1>1, SamplesType
  <2>3. D \subseteq Names
    BY DEF FeederInv, Library, Names
  <2> HIDE DEF t
  <2> QED
    BY <1>1, <2>1, <2>2, <2>3 DEF FeederInv, Library
<1>2. CASE ~ (Valid(f) /\ f.name \notin DOMAIN loadedAudio)
  BY <1>2 DEF LoadFile, FeederInv
<1> QED
  BY <1>1, <1>2

LEMMA LoadStep == ASSUME FeederInv, NEW f \in Files, LoadFile(f) PROVE FeederInv'
<1>1. SlotsInv'
  BY DEF LoadFile, FeederInv, SlotsInv, Lockstep
<1>2. slots' = slots /\ sent' = sent /\ tickCounter' = tickCounter /\ unread # {}
      /\ unread' \subseteq Files
  BY DEF LoadFile, FeederInv
<1>3. \A s \in Slots : slots[s].data = None /\ slots[s] \in SlotsOf(loadedAudio)
  BY <1>2 DEF FeederInv, LoadedFirst, SlotsOK, SlotOK
<1>4. SlotsOK'
  <2>1. DOMAIN loadedAudio \subseteq DOMAIN loadedAudio'
    BY LoadKeeps
  <2>2. \A s \in Slots : slots[s] \in SlotsOf(loadedAudio')
    BY <1>3, <2>1 DEF SlotsOf
  <2>3. \A s \in Slots : SlotOK(slots[s], loadedAudio')
    BY <1>3, <2>2 DEF SlotOK
  <2> QED
    BY <1>2, <2>3 DEF SlotsOK
<1>5. LoadedFirst'
  BY <1>2, <1>3 DEF LoadedFirst
<1>6. SentType' /\ SendsRise'
  BY <1>2 DEF SentType, SendsRise, FeederInv
<1> QED
  BY <1>1, <1>2, <1>4, <1>5, <1>6, LoadKeeps DEF FeederInv

LEMMA BGMStep == ASSUME FeederInv, NEW n, PlayBGM(n) PROVE FeederInv'
<1>1. /\ unread' = unread /\ loadedAudio' = loadedAudio /\ tickCounter' = tickCounter
      /\ sent' = sent /\ unread = {} /\ n \in DOMAIN loadedAudio
  BY DEF PlayBGM
<1>2. /\ slots'[0] = Begin(slots[0], n, Low)
      /\ \A s \in Slots \ {0} : slots'[s] = slots[s]
      /\ slots' = [s \in Slots |-> slots'[s]]
  <2>1. slots' = [slots EXCEPT ![0] = Begin(slots[0], n, Low)] /\ 0 \in Slots
    BY DEF PlayBGM, Slots
  <2>2. slots = [s \in Slots |-> slots[s]]
    BY DEF FeederInv
  <2> QED
    BY <2>1, <2>2
<1>3. SlotsInv'
  BY <1>2 DEF SlotsInv, Lockstep, SfxSlots, Slots, FeederInv
<1>4. SlotOK(slots'[0], loadedAudio) /\ slots'[0].priority = Low
  <2>1. SlotOK(slots[0], loadedAudio) /\ Library(loadedAudio)
    BY DEF FeederInv, SlotsOK, Slots
  <2>2. SlotOK(Begin(slots[0], n, Low), loadedAudio) /\ Begin(slots[0], n, Low).priority = Low
    BY <1>1, <2>1, BeginOK
  <2> QED
    BY <1>2, <2>2
<1>5. \A s \in Slots : SlotOK(slots'[s], loadedAudio)
  BY <1>2, <1>4 DEF FeederInv, SlotsOK
<1>6. SlotsOK'
  BY <1>1, <1>5 DEF SlotsOK
<1>7. LoadedFirst' /\ SentType' /\ SendsRise'
  BY <1>1 DEF LoadedFirst, SentType, SendsRise, FeederInv
<1> QED
  BY <1>1, <1>2, <1>3, <1>4, <1>6, <1>7 DEF FeederInv

LEMMA SFXStep ==
    ASSUME FeederInv, NEW n \in Names, NEW p \in {Medium, High}, PlaySFX(n, p) PROVE FeederInv'
<1>1. /\ unread' = unread /\ loadedAudio' = loadedAudio /\ tickCounter' = tickCounter
      /\ sent' = sent /\ unread = {} /\ n \in DOMAIN loadedAudio
  BY DEF PlaySFX
<1>2. /\ slots'[0] = slots[0]
      /\ slots' = [s \in Slots |-> slots'[s]]
      /\ \A s \in Slots : slots'[s] = slots[s] \/ slots'[s] = Begin(slots[s], n, p)
  BY DEF PlaySFX, Slots, SfxSlots
<1>3. SlotsInv'
  BY SlotsStep DEF FeederInv, Next
<1>4. \A s \in Slots : SlotOK(slots'[s], loadedAudio)
  <2> SUFFICES ASSUME NEW s \in Slots PROVE SlotOK(slots'[s], loadedAudio)
    OBVIOUS
  <2>1. SlotOK(slots[s], loadedAudio) /\ Library(loadedAudio)
    BY DEF FeederInv, SlotsOK
  <2>2. SlotOK(Begin(slots[s], n, p), loadedAudio)
    BY <1>1, <2>1, BeginOK
  <2> QED
    BY <1>2, <2>1, <2>2
<1>5. SlotsOK'
  BY <1>1, <1>4 DEF SlotsOK
<1>6. LoadedFirst' /\ SentType' /\ SendsRise'
  BY <1>1 DEF LoadedFirst, SentType, SendsRise, FeederInv
<1> QED
  BY <1>1, <1>2, <1>3, <1>5, <1>6 DEF FeederInv

\* The calls of one tick, and their order.
LEMMA TickSends ==
    ASSUME FeederInv
    PROVE  LET calls == Due(0) \o Due(1) \o Due(2) \o Due(3)
           IN  /\ calls \in Seq(Calls)
               /\ \A i, j \in DOMAIN calls : i < j => calls[i].priority <= calls[j].priority
<1> DEFINE a == Due(0)
           b == Due(1)
           c == Due(2)
           d == Due(3)
           p == slots[1].priority
<1>1. ASSUME NEW s \in Slots
      PROVE  /\ Due(s) \in Seq(Calls)
             /\ \A i \in DOMAIN Due(s) : Due(s)[i].priority = slots[s].priority
  <2>1. slots[s] \in SlotType /\ Placed(slots[s])
    BY DEF FeederInv, SlotsOK, SlotOK, SlotsOf, SlotType, Placed, Track
  <2> QED
    BY <2>1, DueType, InvTypes
<1>2. 0 \in Slots /\ 1 \in Slots /\ 2 \in Slots /\ 3 \in Slots
  BY DEF Slots
<1>3. slots[0].priority = Low /\ slots[2] = slots[1] /\ slots[3] = slots[1]
  BY DEF FeederInv, SlotsInv, Lockstep, SfxSlots
<1>4. p \in {Low, Medium, High}
  BY <1>2 DEF FeederInv, SlotsOK, SlotOK, SlotsOf
<1>5. /\ a \in Seq(Calls) /\ b \in Seq(Calls) /\ c \in Seq(Calls) /\ d \in Seq(Calls)
      /\ \A i \in DOMAIN a : a[i].priority = Low
      /\ \A i \in DOMAIN b : b[i].priority = p
      /\ \A i \in DOMAIN c : c[i].priority = p
      /\ \A i \in DOMAIN d : d[i].priority = p
  BY <1>1, <1>2, <1>3
<1> HIDE DEF a, b, c, d, p
<1>6. TwoParts(a, Len(a), p)
  BY <1>5 DEF TwoParts
<1>7. TwoParts(a \o b, Len(a), p)
  BY <1>5, <1>6, TwoPartsGoOn
<1>8. TwoParts((a \o b) \o c, Len(a), p)
  BY <1>5, <1>7, TwoPartsGoOn
<1>9. TwoParts(((a \o b) \o c) \o d, Len(a), p)
  BY <1>5, <1>8, TwoPartsGoOn
<1> DEFINE calls == ((a \o b) \o c) \o d
<1> HIDE DEF calls
<1>10. TwoParts(calls, Len(a), p)
  BY <1>9 DEF calls
<1>11. calls \in Seq(Calls)
  BY <1>10 DEF TwoParts
<1>12. \A i, j \in DOMAIN calls : i < j => calls[i].priority <= calls[j].priority
  BY <1>4, <1>10, TwoPartsRise
<1> QED
  BY <1>11, <1>12 DEF calls, a, b, c, d

\* The samples of slot s among calls.
Mine(calls, s) == {calls[i].sample : i \in {i \in DOMAIN calls : calls[i].slot = s}}

\* The calls of a sequence that is put together from two.
LEMMA CallsOfBoth ==
    ASSUME NEW a \in Seq(Calls), NEW b \in Seq(Calls), NEW s
    PROVE  /\ a \o b \in Seq(Calls)
           /\ Mine(a \o b, s) = Mine(a, s) \cup Mine(b, s)
<1>1. a \o b \in Seq(Calls) /\ Len(a \o b) = Len(a) + Len(b)
  OBVIOUS
<1>2. \A i \in DOMAIN a : i \in DOMAIN (a \o b) /\ (a \o b)[i] = a[i]
  BY <1>1
<1>3. \A i \in DOMAIN b : Len(a) + i \in DOMAIN (a \o b) /\ (a \o b)[Len(a) + i] = b[i]
  <2> SUFFICES ASSUME NEW i \in DOMAIN b
               PROVE  Len(a) + i \in DOMAIN (a \o b) /\ (a \o b)[Len(a) + i] = b[i]
    OBVIOUS
  <2>1. i \in 1 .. Len(b) /\ Len(a) \in Nat /\ Len(b) \in Nat
    OBVIOUS
  <2>2. Len(a) + i \in 1 .. (Len(a) + Len(b)) /\ ~ (Len(a) + i <= Len(a)) /\ Len(a) + i - Len(a) = i
    BY <2>1
  <2> QED
    BY <1>1, <2>2
<1>4. \A i \in DOMAIN (a \o b) :
          (i \in DOMAIN a /\ (a \o b)[i] = a[i]) \/ \E j \in DOMAIN b : (a \o b)[i] = b[j]
  <2> SUFFICES ASSUME NEW i \in DOMAIN (a \o b), i \notin DOMAIN a
               PROVE  \E j \in DOMAIN b : (a \o b)[i] = b[j]
    BY <1>2
  <2>1. i - Len(a) \in DOMAIN b /\ (a \o b)[i] = b[i - Len(a)]
    BY <1>1
  <2> QED
    BY <2>1
<1> DEFINE c == a \o b
<1> HIDE DEF c
<1>5. \A x : (\E i \in DOMAIN c : c[i] = x) <=> (\E i \in DOMAIN a : a[i] = x) \/ (\E i \in DOMAIN b : b[i] = x)
  BY <1>2, <1>3, <1>4 DEF c
<1>6. Mine(c, s) = Mine(a, s) \cup Mine(b, s)
  <2>1. ASSUME NEW x \in Mine(c, s) PROVE x \in Mine(a, s) \cup Mine(b, s)
    <3>1. PICK i \in DOMAIN c : c[i].slot = s /\ x = c[i].sample
      BY <2>1 DEF Mine
    <3>2. (\E j \in DOMAIN a : a[j] = c[i]) \/ (\E j \in DOMAIN b : b[j] = c[i])
      BY <1>5
    <3> QED
      BY <3>1, <3>2 DEF Mine
  <2>2. ASSUME NEW x \in Mine(a, s) PROVE x \in Mine(c, s)
    <3>1. PICK i \in DOMAIN a : a[i].slot = s /\ x = a[i].sample
      BY <2>2 DEF Mine
    <3>2. \E j \in DOMAIN c : c[j] = a[i]
      BY <1>5
    <3> QED
      BY <3>1, <3>2 DEF Mine
  <2>3. ASSUME NEW x \in Mine(b, s) PROVE x \in Mine(c, s)
    <3>1. PICK i \in DOMAIN b : b[i].slot = s /\ x = b[i].sample
      BY <2>3 DEF Mine
    <3>2. \E j \in DOMAIN c : c[j] = b[i]
      BY <1>5
    <3> QED
      BY <3>1, <3>2 DEF Mine
  <2> QED
    BY <2>1, <2>2, <2>3
<1> QED
  BY <1>1, <1>6 DEF c

\* The samples of slot s among the calls of a tick.
LEMMA TickSamples ==
    ASSUME FeederInv, NEW s \in Slots, slots[s].data # None
    PROVE  LET calls == Due(0) \o Due(1) \o Due(2) \o Due(3)
           IN  Mine(calls, s) = slots[s].nextNote .. (Cursor(slots[s]) - 1)
<1>1. ASSUME NEW t \in Slots
      PROVE  /\ Due(t) \in Seq(Calls)
             /\ Mine(Due(t), s) = IF t = s THEN slots[s].nextNote .. (Cursor(slots[s]) - 1) ELSE {}
  <2>1. slots[t] \in SlotType /\ Placed(slots[t])
    BY DEF FeederInv, SlotsOK, SlotOK, SlotsOf, SlotType, Placed, Track
  <2>2. /\ Due(t) \in Seq(Calls)
        /\ \A i \in DOMAIN Due(t) : Due(t)[i].slot = t
        /\ slots[t].data # None =>
              {Due(t)[i].sample : i \in DOMAIN Due(t)} = slots[t].nextNote .. (Cursor(slots[t]) - 1)
    BY <2>1, DueType, InvTypes
  <2>3. CASE t = s
    <3>1. {i \in DOMAIN Due(t) : Due(t)[i].slot = s} = DOMAIN Due(t)
      BY <2>2, <2>3
    <3> QED
      BY <2>2, <2>3, <3>1 DEF Mine
  <2>4. CASE t # s
    <3>1. {i \in DOMAIN Due(t) : Due(t)[i].slot = s} = {}
      BY <2>2, <2>4
    <3> QED
      BY <2>2, <2>4, <3>1 DEF Mine
  <2> QED
    BY <2>3, <2>4
<1>2. 0 \in Slots /\ 1 \in Slots /\ 2 \in Slots /\ 3 \in Slots
  BY DEF Slots
<1> DEFINE a == Due(0)
           b == Due(1)
           c == Due(2)
           d == Due(3)
<1>3. a \in Seq(Calls) /\ b \in Seq(Calls) /\ c \in Seq(Calls) /\ d \in Seq(Calls)
  BY <1>1, <1>2
<1>4. Mine(a, s) \cup Mine(b, s) \cup Mine(c, s) \cup Mine(d, s) = slots[s].nextNote .. (Cursor(slots[s]) - 1)
  <2>1. s \in {0, 1, 2, 3}
    BY DEF Slots
  <2> QED
    BY <1>1, <1>2, <2>1
<1> HIDE DEF a, b, c, d
<1>5. a \o b \in Seq(Calls) /\ Mine(a \o b, s) = Mine(a, s) \cup Mine(b, s)
  BY <1>3, CallsOfBoth
<1>6. (a \o b) \o c \in Seq(Calls) /\ Mine((a \o b) \o c, s) = Mine(a \o b, s) \cup Mine(c, s)
  <2> DEFINE ab == a \o b
  <2>1. ab \in Seq(Calls)
    BY <1>5
  <2> HIDE DEF ab
  <2>2. ab \o c \in Seq(Calls) /\ Mine(ab \o c, s) = Mine(ab, s) \cup Mine(c, s)
    BY <1>3, <2>1, CallsOfBoth
  <2> QED
    BY <2>2 DEF ab
<1>7. Mine(((a \o b) \o c) \o d, s) = Mine((a \o b) \o c, s) \cup Mine(d, s)
  <2> DEFINE abc == (a \o b) \o c
  <2>1. abc \in Seq(Calls)
    BY <1>6
  <2> HIDE DEF abc
  <2>2. Mine(abc \o d, s) = Mine(abc, s) \cup Mine(d, s)
    BY <1>3, <2>1, CallsOfBoth
  <2> QED
    BY <2>2 DEF abc
<1>8. Mine(((a \o b) \o c) \o d, s) = slots[s].nextNote .. (Cursor(slots[s]) - 1)
  BY <1>4, <1>5, <1>6, <1>7
<1> QED
  BY <1>8 DEF a, b, c, d

LEMMA TickStep == ASSUME FeederInv, UpdateAudioFeeder PROVE FeederInv'
<1>1. unread' = unread /\ loadedAudio' = loadedAudio /\ tickCounter' \in BOOLEAN /\ unread = {}
  BY DEF UpdateAudioFeeder, FeederInv
<1>2. SlotsInv'
  BY SlotsStep DEF FeederInv, Next
<1>3. LoadedFirst'
  BY <1>1 DEF LoadedFirst
<1>4. CASE tickCounter
  <2>1. /\ slots' = [s \in Slots |-> Advance(slots[s])]
        /\ sent' = Due(0) \o Due(1) \o Due(2) \o Due(3)
    BY <1>4 DEF UpdateAudioFeeder
  <2>2. \A s \in Slots : slots'[s] = Advance(slots[s])
    BY <2>1
  <2>3. slots' = [s \in Slots |-> slots'[s]]
    <3> DEFINE g(s) == Advance(slots[s])
    <3>1. slots' = [s \in Slots |-> g(s)]
      BY <2>1
    <3> HIDE DEF g
    <3> QED
      BY <3>1
  <2>4. \A s \in Slots : SlotOK(slots'[s], loadedAudio)
    BY <2>2, AdvanceOK, InvTypes DEF FeederInv, SlotsOK
  <2>5. SlotsOK'
    BY <1>1, <2>4 DEF SlotsOK
  <2>6. slots'[0].priority = Low
    <3>1. slots[0].priority = Low /\ 0 \in Slots
      BY DEF FeederInv, Slots
    <3>2. ASSUME NEW slot, slot.priority = Low PROVE Advance(slot).priority = Low
      <4>1. CASE slot.data = None
        BY <3>2, <4>1 DEF Advance
      <4>2. CASE slot.data # None
        <5>1. Advance(slot) = [data |-> IF Ended(slot) THEN None ELSE slot.data,
                               nextNote |-> Cursor(slot),
                               time |-> slot.time + 1,
                               priority |-> IF Ended(slot) THEN Low ELSE slot.priority]
          BY <4>2 DEF Advance
        <5> QED
          BY <3>2, <5>1
      <4> QED
        BY <4>1, <4>2
    <3> QED
      BY <2>2, <3>1, <3>2
  <2>7. SentType' /\ SendsRise'
    BY <2>1, TickSends DEF SentType, SendsRise
  <2> QED
    BY <1>1, <1>2, <1>3, <2>3, <2>5, <2>6, <2>7 DEF FeederInv
<1>5. CASE ~tickCounter
  <2>1. slots' = slots /\ sent' = <<>>
    BY <1>5 DEF UpdateAudioFeeder
  <2>2. SentType' /\ SendsRise'
    BY <2>1 DEF SentType, SendsRise
  <2> QED
    BY <1>1, <1>2, <1>3, <2>1, <2>2 DEF FeederInv, SlotsOK
<1> QED
  BY <1>4, <1>5

LEMMA FeederStep == FeederInv /\ [Next]_vars => FeederInv'
<1> SUFFICES ASSUME FeederInv, [Next]_vars PROVE FeederInv'
  OBVIOUS
<1>1. CASE UNCHANGED vars
  BY <1>1 DEF vars, FeederInv, SlotsInv, Lockstep, SlotsOK, LoadedFirst, SentType, SendsRise
<1> QED
  BY <1>1, LoadStep, BGMStep, SFXStep, TickStep DEF Next

LEMMA FeederInvariance == Spec => []FeederInv
  BY InvInit, FeederStep, PTL DEF Spec

\* The slots refer to tracks that are loaded and stand at a sample of theirs or
\* behind the last one: the iterators of nowPlayingSlots never leave their track
\* (AudioLoader.cpp:105-122).
THEOREM FeederTypes == Spec => []TypeOK
  BY FeederInvariance, InvTypes, PTL

\* Nothing is sent before its time, in the tick that ends a track either, and of a
\* sorted track each sample in the one tick it belongs to, for every set of files,
\* whatever a script plays in between (AudioLoader.cpp:96-123).
THEOREM SendsOnTime == Spec => SentOnTime
<1>1. FeederInv /\ [Next]_vars =>
          [\A s \in Slots : UpdateAudioFeeder /\ tickCounter /\ slots[s].data # None =>
              LET track == loadedAudio[slots[s].data]
                  t == slots[s].time
                  now == {sent'[i].sample : i \in {i \in DOMAIN sent' : sent'[i].slot = s}}
              IN  /\ \A n \in now : track[n].position <= t + 1
                  /\ Sorted(track) =>
                        now = {n \in DOMAIN track :
                                  track[n].position <= t + 1 /\ (t = 0 \/ track[n].position > t)}]_vars
  <2> SUFFICES ASSUME FeederInv, NEW s \in Slots, UpdateAudioFeeder, tickCounter, slots[s].data # None
               PROVE  LET track == loadedAudio[slots[s].data]
                          t == slots[s].time
                          now == {sent'[i].sample : i \in {i \in DOMAIN sent' : sent'[i].slot = s}}
                      IN  /\ \A n \in now : track[n].position <= t + 1
                          /\ Sorted(track) =>
                                now = {n \in DOMAIN track :
                                          track[n].position <= t + 1 /\ (t = 0 \/ track[n].position > t)}
    OBVIOUS
  <2> DEFINE track == loadedAudio[slots[s].data]
             t == slots[s].time
             first == slots[s].nextNote
             c == Cursor(slots[s])
             now == {sent'[i].sample : i \in {i \in DOMAIN sent' : sent'[i].slot = s}}
  <2>1. now = first .. (c - 1)
    <3>1. sent' = Due(0) \o Due(1) \o Due(2) \o Due(3)
      BY DEF UpdateAudioFeeder
    <3> QED
      BY <3>1, TickSamples DEF Mine
  <2>2. slots[s] \in SlotType /\ Placed(slots[s]) /\ SlotOK(slots[s], loadedAudio)
    BY DEF FeederInv, SlotsOK, SlotOK, SlotsOf, SlotType, Placed, Track
  <2>3. /\ track \in Seq(Sample) /\ c \in first .. (Len(track) + 1)
        /\ c <= Len(track) => track[c].position > t + 1
        /\ \A k \in first .. (c - 1) : track[k].position <= t + 1
    BY <2>2, InvTypes, AdvanceType DEF Track
  <2>4. /\ first \in 1 .. (Len(track) + 1) /\ t \in Nat
        /\ t = 0 => first = 1
        /\ \A i \in 1 .. (first - 1) : track[i].position <= t
        /\ t > 0 /\ Sorted(track) => \A i \in DOMAIN track : track[i].position <= t => i < first
    BY <2>2 DEF SlotOK, SlotsOf
  <2> HIDE DEF track, t, first, c, now
  <2>5. \A k \in DOMAIN track : track[k].position \in Int
    <3>1. \A k \in DOMAIN track : track[k] \in Sample
      BY <2>3
    <3> QED
      BY <3>1 DEF Sample
  <2>6. \A n \in now : track[n].position <= t + 1
    BY <2>1, <2>3
  <2>7. ASSUME Sorted(track)
        PROVE  now = {n \in DOMAIN track : track[n].position <= t + 1 /\ (t = 0 \/ track[n].position > t)}
    <3>1. ASSUME NEW n \in now
          PROVE  n \in DOMAIN track /\ track[n].position <= t + 1 /\ (t = 0 \/ track[n].position > t)
      <4>1. n \in first .. (c - 1) /\ n \in 1 .. Len(track) /\ ~ (n < first)
        BY <2>1, <2>3, <2>4, <3>1
      <4>2. t > 0 => ~ (track[n].position <= t)
        BY <2>4, <2>7, <4>1
      <4> QED
        BY <2>3, <2>4, <2>5, <4>1, <4>2
    <3>2. ASSUME NEW n \in DOMAIN track, track[n].position <= t + 1, t = 0 \/ track[n].position > t
          PROVE  n \in now
      <4>1. n \in 1 .. Len(track)
        BY <2>3
      <4>2. n >= first
        <5>1. CASE t = 0
          BY <2>4, <4>1, <5>1
        <5>2. CASE t # 0
          <6>1. ~ (track[n].position <= t)
            BY <2>4, <2>5, <3>2, <5>2
          <6>2. n \notin 1 .. (first - 1)
            BY <2>4, <6>1
          <6> QED
            BY <2>4, <4>1, <6>2
        <5> QED
          BY <5>1, <5>2
      <4>3. n < c
        <5> SUFFICES ASSUME ~ (n < c) PROVE FALSE
          OBVIOUS
        <5>1. c \in DOMAIN track /\ c <= n
          BY <2>3, <2>4, <4>1
        <5>2. track[c].position > t + 1
          BY <2>3, <5>1
        <5>3. track[c].position <= track[n].position
          <6>1. CASE c = n
            BY <2>5, <5>1, <6>1
          <6>2. CASE c < n
            BY <2>7, <3>2, <5>1, <6>2 DEF Sorted
          <6> QED
            BY <2>3, <2>4, <4>1, <5>1, <6>1, <6>2
        <5> QED
          BY <2>4, <2>5, <3>2, <5>1, <5>2, <5>3
      <4> QED
        BY <2>1, <2>3, <2>4, <4>1, <4>2, <4>3
    <3> QED
      BY <3>1, <3>2
  <2> QED
    BY <2>6, <2>7 DEF track, t, now
<1> QED
  BY <1>1, FeederInvariance, PTL DEF Spec, SentOnTime

\* In one tick music is sent before effects, so that on a channel they share the
\* effect is what SetNote keeps (AudioLoader.cpp:100).
THEOREM PrioritiesRise == Spec => []SendsRise
  BY FeederInvariance, PTL DEF FeederInv

-----------------------------------------------------------------------------
(* The three slots implement one player of effects *)

lengths == [n \in DOMAIN loadedAudio |-> Len(loadedAudio[n])]

\* In lockstep the player is slot 1.
LEMMA PlayerIsSlot ==
    Lockstep => /\ Player(DataOf) = slots[1].data
                /\ Player(RankOf) = slots[1].priority
                /\ Player(LeftOf) = LeftOf(slots[1])
  BY DEF Player, DataOf, RankOf

LEMMA PlayerIsSlotNext ==
    Lockstep' => /\ Player(DataOf)' = slots'[1].data
                 /\ Player(RankOf)' = slots'[1].priority
                 /\ Player(LeftOf)' = LeftOf(slots[1])'
  BY DEF Player, DataOf, RankOf

LEMMA PlayerStutters ==
    ASSUME FeederInv, FeederInv', slots'[1] = slots[1], loadedAudio' = loadedAudio
    PROVE  UNCHANGED OnePlayer!playerVars
<1>1. LeftOf(slots[1])' = LeftOf(slots[1])
  BY DEF LeftOf
<1>2. lengths' = lengths
  BY DEF lengths
<1> QED
  BY <1>1, <1>2, PlayerIsSlot, PlayerIsSlotNext
     DEF OnePlayer!playerVars, FeederInv, SlotsInv, lengths

LEMMA PlayerLoads ==
    ASSUME FeederInv, FeederInv', NEW f \in Files, LoadFile(f) PROVE OnePlayer!Load
<1>1. slots[1].data = None /\ slots' = slots
  BY DEF LoadFile, FeederInv, LoadedFirst, Slots
<1>2. LeftOf(slots[1]) = 0 /\ LeftOf(slots[1])' = 0
  BY <1>1 DEF LeftOf
<1>3. DOMAIN lengths \subseteq DOMAIN lengths' /\ \A e \in DOMAIN lengths : lengths'[e] = lengths[e]
  BY LoadKeeps DEF lengths
<1>4. Player(DataOf) = None /\ UNCHANGED <<Player(DataOf), Player(RankOf), Player(LeftOf)>>
  BY <1>1, <1>2, PlayerIsSlot, PlayerIsSlotNext DEF FeederInv, SlotsInv
<1> QED
  BY <1>3, <1>4 DEF OnePlayer!Load, lengths

LEMMA PlayerStarts ==
    ASSUME FeederInv, FeederInv', NEW n \in Names, NEW p \in {Medium, High}, PlaySFX(n, p),
           Takes(1, p)
    PROVE  OnePlayer!Next
<1>1. /\ loadedAudio' = loadedAudio /\ n \in DOMAIN loadedAudio /\ n # None
      /\ slots'[1] = Begin(slots[1], n, p)
  BY NamesAreTracks DEF PlaySFX, Slots, SfxSlots
<1>2. SlotOK(slots[1], loadedAudio) /\ Library(loadedAudio)
  BY DEF FeederInv, SlotsOK, Slots
<1>3. slots'[1].data = n /\ slots'[1].nextNote = 1 /\ slots'[1].priority = p
  BY <1>1, <1>2, BeginOK
<1>4. lengths' = lengths /\ n \in DOMAIN lengths /\ lengths[n] = Len(loadedAudio[n]) /\ Len(loadedAudio[n]) \in Nat
  BY <1>1, <1>2 DEF lengths, Library
<1>5. LeftOf(slots[1])' = lengths[n]
  BY <1>1, <1>3, <1>4 DEF LeftOf
<1>6. p > slots[1].priority
  BY <1>2 DEF Takes, SlotOK, SlotsOf, Low, Medium, High
<1>7. /\ p > Player(RankOf) /\ Player(DataOf)' = n /\ Player(RankOf)' = p
      /\ Player(LeftOf)' = lengths[n]
  BY <1>3, <1>5, <1>6, PlayerIsSlot, PlayerIsSlotNext DEF FeederInv, SlotsInv
<1>8. OnePlayer!Start(n, p)
  BY <1>4, <1>7 DEF OnePlayer!Start, lengths
<1> QED
  BY <1>4, <1>8 DEF OnePlayer!Next, lengths

LEMMA PlayerAdvances ==
    ASSUME FeederInv, FeederInv', UpdateAudioFeeder, tickCounter, slots[1].data # None
    PROVE  OnePlayer!Next
<1> DEFINE slot == slots[1]
           c == Cursor(slot)
           len == Len(Track(slot))
           k == c - slot.nextNote
           left == len + 1 - slot.nextNote
<1>1. loadedAudio' = loadedAudio /\ slots'[1] = Advance(slot)
  BY DEF UpdateAudioFeeder, Slots
<1>2. slot \in SlotType /\ Placed(slot)
  BY DEF FeederInv, SlotsOK, SlotOK, SlotsOf, SlotType, Placed, Track, Slots
<1>3. /\ c \in slot.nextNote .. (len + 1) /\ len \in Nat
      /\ slot.nextNote \in 1 .. (len + 1)
  <2>1. Track(slot) \in Seq(Sample) /\ c \in slot.nextNote .. (len + 1)
    BY <1>2, InvTypes, AdvanceType
  <2>2. slot.nextNote \in 1 .. (len + 1)
    BY <1>2 DEF Placed
  <2> QED
    BY <2>1, <2>2
<1>4. k \in 0 .. left /\ (c > len <=> k = left) /\ left - k = len + 1 - c
  <2> HIDE DEF c, len
  <2> QED
    BY <1>3
<1>5. slots'[1] = [data |-> IF c > len THEN None ELSE slot.data, nextNote |-> c,
                   time |-> slot.time + 1,
                   priority |-> IF c > len THEN Low ELSE slot.priority]
  BY <1>1 DEF Advance, Ended, Track
<1>6. LeftOf(slot) = left /\ Player(LeftOf) = left /\ Player(DataOf) # None
  BY PlayerIsSlot DEF LeftOf, Track, FeederInv, SlotsInv
<1> HIDE DEF c, len, k, left, slot
<1>7. /\ slots'[1].data = IF k = left THEN None ELSE slot.data
      /\ slots'[1].priority = IF k = left THEN Low ELSE slot.priority
      /\ slots'[1].nextNote = c
  BY <1>4, <1>5
<1>8. LeftOf(slots[1])' = left - k
  <2>1. CASE k = left
    <3>1. LeftOf(slots[1])' = 0
      BY <1>7, <2>1 DEF LeftOf
    <3> QED
      BY <1>4, <2>1, <3>1 DEF left
  <2>2. CASE k # left
    <3>1. slots'[1].data = slot.data /\ slot.data # None
      BY <1>7, <2>2 DEF slot
    <3>2. LeftOf(slots[1])' = Len(loadedAudio[slot.data]) + 1 - c
      BY <1>1, <1>7, <3>1 DEF LeftOf
    <3> QED
      BY <1>4, <3>2 DEF len, Track
  <2> QED
    BY <2>1, <2>2
<1>9. /\ Player(LeftOf)' = left - k
      /\ Player(DataOf)' = IF k = left THEN None ELSE Player(DataOf)
      /\ Player(RankOf)' = IF k = left THEN 0 ELSE Player(RankOf)
  BY <1>7, <1>8, PlayerIsSlot, PlayerIsSlotNext DEF FeederInv, SlotsInv, slot, Low
<1>10. lengths' = lengths
  BY <1>1 DEF lengths
<1>11. OnePlayer!Advance(k)
  <2>1. k <= left
    BY <1>4 DEF left
  <2> QED
    BY <1>6, <1>9, <1>10, <2>1 DEF OnePlayer!Advance, lengths
<1>12. k \in 0 .. Player(LeftOf)
  BY <1>4, <1>6
<1> QED
  BY <1>11, <1>12 DEF OnePlayer!Next

LEMMA PlayerStep ==
    ASSUME FeederInv, FeederInv', [Next]_vars
    PROVE  [OnePlayer!Next]_(OnePlayer!playerVars)
<1>1. ASSUME NEW f \in Files, LoadFile(f) PROVE OnePlayer!Next
  BY <1>1, PlayerLoads DEF OnePlayer!Next
<1>2. ASSUME NEW n \in Names, PlayBGM(n) PROVE UNCHANGED OnePlayer!playerVars
  <2>1. loadedAudio' = loadedAudio /\ slots'[1] = slots[1]
    BY <1>2 DEF PlayBGM
  <2> QED
    BY <2>1, PlayerStutters
<1>3. ASSUME NEW n \in Names, NEW p \in {Medium, High}, PlaySFX(n, p)
      PROVE  [OnePlayer!Next]_(OnePlayer!playerVars)
  <2>1. CASE Takes(1, p)
    BY <1>3, <2>1, PlayerStarts
  <2>2. CASE ~Takes(1, p)
    <3>1. loadedAudio' = loadedAudio /\ slots'[1] = slots[1]
      BY <1>3, <2>2 DEF PlaySFX, Slots
    <3> QED
      BY <3>1, PlayerStutters
  <2> QED
    BY <2>1, <2>2
<1>4. ASSUME UpdateAudioFeeder PROVE [OnePlayer!Next]_(OnePlayer!playerVars)
  <2>1. CASE tickCounter /\ slots[1].data # None
    BY <1>4, <2>1, PlayerAdvances
  <2>2. CASE tickCounter /\ slots[1].data = None
    <3>1. loadedAudio' = loadedAudio /\ slots'[1] = Advance(slots[1])
      BY <1>4, <2>2 DEF UpdateAudioFeeder, Slots
    <3>2. Advance(slots[1]) = slots[1]
      BY <2>2 DEF Advance
    <3> QED
      BY <3>1, <3>2, PlayerStutters
  <2>3. CASE ~tickCounter
    <3>1. loadedAudio' = loadedAudio /\ slots'[1] = slots[1]
      BY <1>4, <2>3 DEF UpdateAudioFeeder
    <3> QED
      BY <3>1, PlayerStutters
  <2> QED
    BY <2>1, <2>2, <2>3
<1>5. ASSUME UNCHANGED vars PROVE UNCHANGED OnePlayer!playerVars
  <2>1. loadedAudio' = loadedAudio /\ slots'[1] = slots[1]
    BY <1>5 DEF vars
  <2> QED
    BY <2>1, PlayerStutters
<1> QED
  BY <1>1, <1>2, <1>3, <1>4, <1>5 DEF Next

\* The pool of AudioLoader.cpp:27 is one player of effects: what PlaySFX and the
\* loop of UpdateAudioFeeder do to the three slots are steps of SfxPlayer.
THEOREM FeederPlaysOneEffect == Spec => PlaysOneEffect
<1>1. Init => OnePlayer!Init
  <2> SUFFICES ASSUME Init PROVE OnePlayer!Init
    OBVIOUS
  <2>1. FeederInv /\ slots[1] = Rest
    BY InvInit DEF Init, Slots
  <2>2. Player(DataOf) = None /\ Player(RankOf) = 0 /\ Player(LeftOf) = 0
    <3>1. Rest.data = None /\ Rest.priority = 0
      BY DEF Rest, Low
    <3>2. LeftOf(slots[1]) = 0
      BY <2>1, <3>1 DEF LeftOf
    <3> QED
      BY <2>1, <3>1, <3>2, PlayerIsSlot DEF FeederInv, SlotsInv
  <2>3. DOMAIN lengths = {}
    BY DEF Init, lengths
  <2> QED
    BY <2>2, <2>3 DEF OnePlayer!Init, lengths
<1> QED
  BY <1>1, PlayerStep, FeederInvariance, PTL DEF Spec, PlaysOneEffect, OnePlayer!Spec
=============================================================================
