---------------------------- MODULE SfxEditProofs ----------------------------
(* Theorems about SfxEdit, for any channels and Cycles, any files and any      *)
(* number of notes, positions and events.                                     *)
EXTENDS SfxEdit, FiniteSetTheorems, SequenceTheorems, WellFoundedInduction, TLAPS

-----------------------------------------------------------------------------
(* Numbers *)

LEMMA LeastNumber ==
    ASSUME NEW T \in SUBSET Nat, T # {}
    PROVE  \E n \in T : \A m \in T : n <= m
<1> DEFINE R == {ss \in Nat \X Nat : ss[1] < ss[2]}
<1>1. IsWellFoundedOn(R, Nat)
  BY NatLessThanWellFounded DEF OpToRel
<1> HIDE DEF R
<1>2. PICK n \in T : \A m \in T : ~ (<<m, n>> \in R)
  BY <1>1, WFMin
<1>3. \A m \in T : ~ (m < n)
  BY <1>2 DEF R
<1> QED
  BY <1>3

\* A finite set of numbers has a largest and a smallest one.  A set without
\* either of least size would lose one of its numbers and have them still.
LEMMA Extremes ==
    ASSUME NEW S \in SUBSET Int, IsFiniteSet(S), S # {}
    PROVE  /\ \E x \in S : \A y \in S : y <= x
           /\ \E x \in S : \A y \in S : x <= y
<1> DEFINE Has(T) == (\E x \in T : \A y \in T : y <= x) /\ (\E x \in T : \A y \in T : x <= y)
           Bad == {n \in Nat : \E T \in SUBSET Int :
                      IsFiniteSet(T) /\ T # {} /\ ~Has(T) /\ n = Cardinality(T)}
<1>1. SUFFICES ASSUME ~Has(S) PROVE FALSE
  OBVIOUS
<1>2. Cardinality(S) \in Bad
  <2> HIDE DEF Has
  <2>1. Cardinality(S) \in Nat
    BY FS_CardinalityType
  <2> QED
    BY <1>1, <2>1
<1>3. PICK n \in Bad : \A m \in Bad : n <= m
  <2> Bad \in SUBSET Nat
    OBVIOUS
  <2> HIDE DEF Bad
  <2> QED
    BY <1>2, LeastNumber
<1>4. PICK T \in SUBSET Int : IsFiniteSet(T) /\ T # {} /\ ~Has(T) /\ n = Cardinality(T)
  <2> HIDE DEF Has
  <2> QED
    BY <1>3
<1>5. PICK t \in T : TRUE
  BY <1>4
<1> DEFINE U == T \ {t}
<1>6. IsFiniteSet(U) /\ Cardinality(U) = n - 1
  BY <1>4, <1>5, FS_RemoveElement
<1>7. U # {}
  BY <1>4, <1>5
<1>8. Has(U)
  <2> HIDE DEF Has
  <2>1. n - 1 \in Nat /\ ~ (n <= n - 1)
    <3>1. Cardinality(U) \in Nat
      BY <1>6, FS_CardinalityType
    <3> QED
      BY <1>3, <1>6, <3>1
  <2>2. n - 1 \notin Bad
    <3> HIDE DEF Bad
    <3> QED
      BY <1>3, <2>1
  <2> QED
    BY <1>6, <1>7, <2>1, <2>2
<1>9. PICK a \in U, b \in U : (\A y \in U : y <= a) /\ (\A y \in U : b <= y)
  BY <1>8
<1>10. \E x \in T : \A y \in T : y <= x
  <2>1. t \in Int /\ a \in Int /\ \A y \in T : y \in Int /\ (y = t \/ y \in U)
    BY <1>5, <1>9
  <2>2. CASE t <= a
    BY <1>9, <2>1, <2>2
  <2>3. CASE a <= t
    BY <1>5, <1>9, <2>1, <2>3
  <2> QED
    BY <2>1, <2>2, <2>3
<1>11. \E x \in T : \A y \in T : x <= y
  <2>1. t \in Int /\ b \in Int /\ \A y \in T : y \in Int /\ (y = t \/ y \in U)
    BY <1>5, <1>9
  <2>2. CASE b <= t
    BY <1>9, <2>1, <2>2
  <2>3. CASE t <= b
    BY <1>5, <1>9, <2>1, <2>3
  <2> QED
    BY <2>1, <2>2, <2>3
<1> QED
  BY <1>4, <1>10, <1>11

LEMMA LargestIs ==
    ASSUME NEW S \in SUBSET Int, IsFiniteSet(S), S # {}
    PROVE  Largest(S) \in S /\ \A y \in S : y <= Largest(S)
<1>1. \E x \in S : \A y \in S : y <= x
  BY Extremes
<1> QED
  BY <1>1 DEF Largest

\* Of a finite set with one element at most, any two are one.
LEMMA AtMostOne ==
    ASSUME NEW S, IsFiniteSet(S), Cardinality(S) <= 1
    PROVE  \A x, y \in S : x = y
<1> SUFFICES ASSUME NEW x \in S, NEW y \in S, x # y
             PROVE  FALSE
  OBVIOUS
<1>1. Cardinality(S) \in Nat
  BY FS_CardinalityType
<1>2. IsFiniteSet(S \ {x}) /\ Cardinality(S \ {x}) = Cardinality(S) - 1
  BY FS_RemoveElement
<1>3. Cardinality(S \ {x}) \in Nat
  BY <1>2, FS_CardinalityType
<1>4. Cardinality(S \ {x}) = 0
  BY <1>1, <1>2, <1>3
<1> QED
  BY <1>2, <1>4, FS_EmptySet

\* What a function makes of a finite set is finite.
LEMMA FiniteImage ==
    ASSUME NEW S, IsFiniteSet(S), NEW f, DOMAIN f = S, f = [x \in S |-> f[x]]
    PROVE  IsFiniteSet({f[x] : x \in S})
<1> DEFINE T == {f[x] : x \in S}
<1>1. f \in [S -> T] /\ \A t \in T : \E x \in S : f[x] = t
  OBVIOUS
<1> HIDE DEF T
<1>2. f \in Surjection(S, T)
  BY <1>1 DEF Surjection
<1> QED
  BY <1>2, FS_Surjection DEF T

-----------------------------------------------------------------------------
(* Sequences *)

LEMMA SetOf ==
    ASSUME NEW S, NEW s \in Seq(S)
    PROVE  /\ ToSet(s) \in SUBSET S /\ IsFiniteSet(ToSet(s))
           /\ DOMAIN s = 1 .. Len(s) /\ Len(s) \in Nat
           /\ \A x : x \in ToSet(s) <=> \E i \in 1 .. Len(s) : s[i] = x
<1>1. DOMAIN s = 1 .. Len(s) /\ Len(s) \in Nat
  OBVIOUS
<1>2. \A x : x \in ToSet(s) <=> \E i \in 1 .. Len(s) : s[i] = x
  BY <1>1 DEF ToSet
<1>3. ToSet(s) \in SUBSET S
  BY <1>1, <1>2
<1>4. IsFiniteSet(ToSet(s))
  <2>1. IsFiniteSet(1 .. Len(s))
    BY <1>1, FS_Interval
  <2>2. s = [i \in 1 .. Len(s) |-> s[i]]
    BY <1>1
  <2> QED
    BY <1>1, <2>1, <2>2, FiniteImage DEF ToSet
<1> QED
  BY <1>1, <1>2, <1>3, <1>4

LEMMA Removed ==
    ASSUME NEW S, NEW s \in Seq(S), NEW i \in 1 .. Len(s)
    PROVE  /\ RemoveAt(s, i) \in Seq(S) /\ Len(RemoveAt(s, i)) = Len(s) - 1
           /\ \A j \in 1 .. Len(s) - 1 : RemoveAt(s, i)[j] = IF j < i THEN s[j] ELSE s[j + 1]
<1> DEFINE a == SubSeq(s, 1, i - 1)
           b == SubSeq(s, i + 1, Len(s))
<1>1. Len(s) \in Nat /\ i \in Nat /\ 1 <= i /\ i <= Len(s)
  OBVIOUS
<1>2. /\ a \in Seq(S) /\ Len(a) = i - 1
      /\ \A j \in 1 .. i - 1 : a[j] = s[j]
  <2>1. \A j \in 1 .. i - 1 : j \in 1 .. Len(s)
    BY <1>1
  <2> QED
    BY <1>1, <2>1, SubSeqProperties
<1>3. /\ b \in Seq(S) /\ Len(b) = Len(s) - i
      /\ \A j \in 1 .. Len(s) - i : b[j] = s[i + j]
  <2>1. \A j \in i + 1 .. Len(s) : j \in 1 .. Len(s)
    BY <1>1
  <2>2. b \in Seq(S) /\ Len(b) = IF i + 1 <= Len(s) THEN Len(s) - (i + 1) + 1 ELSE 0
    BY <1>1, <2>1, SubSeqProperties
  <2>3. \A j \in 1 .. Len(s) - (i + 1) + 1 : b[j] = s[(i + 1) + j - 1]
    BY <1>1, <2>1, SubSeqProperties
  <2> QED
    BY <1>1, <2>2, <2>3
<1> HIDE DEF a, b
<1>4. RemoveAt(s, i) = a \o b
  BY DEF RemoveAt, a, b
<1>5. /\ a \o b \in Seq(S) /\ Len(a \o b) = Len(a) + Len(b)
      /\ \A j \in 1 .. Len(a) + Len(b) : (a \o b)[j] = IF j <= Len(a) THEN a[j] ELSE b[j - Len(a)]
  BY <1>2, <1>3, ConcatProperties
<1>6. Len(a) + Len(b) = Len(s) - 1
  BY <1>1, <1>2, <1>3
<1>7. ASSUME NEW j \in 1 .. Len(s) - 1
      PROVE  (a \o b)[j] = IF j < i THEN s[j] ELSE s[j + 1]
  <2>1. CASE j < i
    BY <1>1, <1>2, <1>5, <1>6, <2>1
  <2>2. CASE ~ (j < i)
    <3>1. ~ (j <= Len(a)) /\ j - Len(a) \in 1 .. Len(s) - i /\ i + (j - Len(a)) = j + 1
      BY <1>1, <1>2, <2>2
    <3> QED
      BY <1>3, <1>5, <1>6, <2>2, <3>1
  <2> QED
    BY <2>1, <2>2
<1> QED
  BY <1>4, <1>5, <1>6, <1>7

\* Without one of its elements a sequence has the others still.
LEMMA Rest ==
    ASSUME NEW S, NEW s \in Seq(S), NEW i \in 1 .. Len(s)
    PROVE  ToSet(s) = ToSet(RemoveAt(s, i)) \cup {s[i]}
<1> DEFINE r == RemoveAt(s, i)
<1>1. /\ r \in Seq(S) /\ Len(r) = Len(s) - 1 /\ Len(s) \in Nat
      /\ \A j \in 1 .. Len(s) - 1 : r[j] = IF j < i THEN s[j] ELSE s[j + 1]
  BY Removed
<1> HIDE DEF r
<1>2. ASSUME NEW x \in ToSet(r)
      PROVE  x \in ToSet(s)
  <2>1. PICK j \in 1 .. Len(s) - 1 : r[j] = x
    BY <1>1, SetOf
  <2>2. j \in 1 .. Len(s) /\ j + 1 \in 1 .. Len(s)
    BY <1>1
  <2>3. x = s[j] \/ x = s[j + 1]
    BY <1>1, <2>1
  <2> QED
    BY <2>2, <2>3, SetOf
<1>3. ASSUME NEW x \in ToSet(s), x # s[i]
      PROVE  x \in ToSet(r)
  <2>1. PICK j \in 1 .. Len(s) : s[j] = x
    BY SetOf
  <2>2. CASE j < i
    <3>1. j \in 1 .. Len(s) - 1 /\ r[j] = x
      BY <1>1, <2>1, <2>2
    <3> QED
      BY <1>1, <3>1, SetOf
  <2>3. CASE j > i
    <3>1. j - 1 \in 1 .. Len(s) - 1 /\ ~ (j - 1 < i) /\ (j - 1) + 1 = j
      BY <1>1, <2>3
    <3>2. r[j - 1] = x
      BY <1>1, <2>1, <3>1
    <3> QED
      BY <1>1, <3>1, <3>2, SetOf
  <2>4. j < i \/ j > i
    BY <1>3, <2>1
  <2> QED
    BY <2>2, <2>3, <2>4
<1>4. s[i] \in ToSet(s)
  BY SetOf
<1> QED
  BY <1>2, <1>3, <1>4 DEF r

LEMMA Joined ==
    ASSUME NEW S, NEW s \in Seq(S), NEW t \in Seq(S)
    PROVE  /\ s \o t \in Seq(S) /\ Len(s \o t) = Len(s) + Len(t)
           /\ ToSet(s \o t) = ToSet(s) \cup ToSet(t)
<1>1. /\ s \o t \in Seq(S) /\ Len(s \o t) = Len(s) + Len(t)
      /\ \A j \in 1 .. Len(s) + Len(t) : (s \o t)[j] = IF j <= Len(s) THEN s[j] ELSE t[j - Len(s)]
  BY ConcatProperties
<1>2. Len(s) \in Nat /\ Len(t) \in Nat
  OBVIOUS
<1>3. ASSUME NEW x \in ToSet(s \o t)
      PROVE  x \in ToSet(s) \cup ToSet(t)
  <2>1. PICK j \in 1 .. Len(s) + Len(t) : (s \o t)[j] = x
    BY <1>1, SetOf
  <2>2. CASE j <= Len(s)
    BY <1>1, <1>2, <2>1, <2>2, SetOf
  <2>3. CASE ~ (j <= Len(s))
    <3>1. j - Len(s) \in 1 .. Len(t) /\ t[j - Len(s)] = x
      BY <1>1, <1>2, <2>1, <2>3
    <3> QED
      BY <3>1, SetOf
  <2> QED
    BY <2>2, <2>3
<1>4. ASSUME NEW x \in ToSet(s)
      PROVE  x \in ToSet(s \o t)
  <2>1. PICK j \in 1 .. Len(s) : s[j] = x
    BY SetOf
  <2>2. j \in 1 .. Len(s) + Len(t) /\ j <= Len(s)
    BY <1>2
  <2> QED
    BY <1>1, <2>1, <2>2, SetOf
<1>5. ASSUME NEW x \in ToSet(t)
      PROVE  x \in ToSet(s \o t)
  <2>1. PICK j \in 1 .. Len(t) : t[j] = x
    BY SetOf
  <2>2. j + Len(s) \in 1 .. Len(s) + Len(t) /\ ~ (j + Len(s) <= Len(s)) /\ (j + Len(s)) - Len(s) = j
    BY <1>2
  <2>3. (s \o t)[j + Len(s)] = x
    BY <1>1, <2>1, <2>2
  <2> QED
    BY <1>1, <2>2, <2>3, SetOf
<1> QED
  BY <1>1, <1>3, <1>4, <1>5

LEMMA SmallSeqs ==
    ASSUME NEW S, NEW x \in S
    PROVE  /\ <<>> \in Seq(S) /\ Len(<<>>) = 0 /\ ToSet(<<>>) = {}
           /\ <<x>> \in Seq(S) /\ Len(<<x>>) = 1 /\ <<x>>[1] = x /\ ToSet(<<x>>) = {x}
<1>1. <<>> \in Seq(S) /\ Len(<<>>) = 0 /\ <<x>> \in Seq(S) /\ Len(<<x>>) = 1 /\ <<x>>[1] = x
  OBVIOUS
<1>2. ToSet(<<>>) = {}
  BY DEF ToSet
<1>3. ToSet(<<x>>) = {x}
  <2>1. DOMAIN <<x>> = {1}
    OBVIOUS
  <2> QED
    BY <1>1, <2>1 DEF ToSet
<1> QED
  BY <1>1, <1>2, <1>3

-----------------------------------------------------------------------------
(* Notes *)

\* A note that a file or the window can place, and one of the clipboard.
Placed == [pos : {p \in Int : p >= -1}, length : Int, freq : Int, mode : Int]

Copied == [pos : Nat, length : Int, freq : Int, mode : Int]

\* The code's map has its positions as keys.
OnePerPosition(S) == \A n, m \in S : n.pos = m.pos => n = m

LEMMA NoteFields ==
    /\ \A n \in Placed : n.pos \in Int /\ n.pos >= -1 /\ n.length \in Int /\ n.freq \in Int /\ n.mode \in Int
    /\ \A n \in Copied : n.pos \in Nat /\ n.length \in Int /\ n.freq \in Int /\ n.mode \in Int
    /\ Copied \in SUBSET Placed
    /\ \A n, m \in Placed :
          n.pos = m.pos /\ n.length = m.length /\ n.freq = m.freq /\ n.mode = m.mode => n = m
  BY DEF Placed, Copied

\* Two stretches of time that share a point overlap.
LEMMA SharedPoint ==
    ASSUME NEW x \in Int, NEW y \in Int, NEW i \in Int, NEW k \in Int, NEW p \in Int,
           x <= p, p < x + i, y <= p, p < y + k
    PROVE  ~(y + k <= x \/ x + i <= y)
  OBVIOUS

LEMMA NoteAt ==
    ASSUME NEW n \in Placed, NEW p \in Int
    PROVE  LET m == [n EXCEPT !.pos = p]
           IN  /\ p >= -1 => m \in Placed
               /\ p >= 0 => m \in Copied
               /\ m.pos = p /\ m.length = n.length /\ m.freq = n.freq /\ m.mode = n.mode
  BY DEF Placed, Copied

LEMMA NoteLong ==
    ASSUME NEW n \in Placed, NEW l \in Int
    PROVE  LET m == [n EXCEPT !.length = l]
           IN  m \in Placed /\ m.pos = n.pos /\ m.length = l /\ m.freq = n.freq /\ m.mode = n.mode
  BY DEF Placed

LEMMA FlattenedIs ==
    ASSUME NEW under \in SUBSET Placed, NEW sel \in Seq(Placed),
           IsFiniteSet(under), OnePerPosition(under)
    PROVE  /\ Flattened(under, sel) \in SUBSET (under \cup ToSet(sel))
           /\ Flattened(under, sel) \in SUBSET Placed
           /\ IsFiniteSet(Flattened(under, sel))
           /\ OnePerPosition(Flattened(under, sel))
           /\ \A n \in under : (\A m \in ToSet(sel) : m.pos # n.pos) => n \in Flattened(under, sel)
           /\ \A n \in Flattened(under, sel) :
                 n \in ToSet(sel) \/ (n \in under /\ \A m \in ToSet(sel) : m.pos # n.pos)
           /\ \A n \in ToSet(sel) : \E m \in ToSet(sel) : m.pos = n.pos /\ m \in Flattened(under, sel)
<1> DEFINE K == {n \in under : \A i \in DOMAIN sel : sel[i].pos # n.pos}
           IsLast(i) == \A j \in DOMAIN sel : j > i => sel[j].pos # sel[i].pos
           L == {sel[i] : i \in {i \in DOMAIN sel : IsLast(i)}}
           F == Flattened(under, sel)
<1>1. /\ ToSet(sel) \in SUBSET Placed /\ IsFiniteSet(ToSet(sel))
      /\ DOMAIN sel = 1 .. Len(sel) /\ Len(sel) \in Nat
      /\ \A x : x \in ToSet(sel) <=> \E i \in 1 .. Len(sel) : sel[i] = x
  BY SetOf
<1>2. F = K \cup L
  BY DEF Flattened
<1>3. K \in SUBSET under /\ L \in SUBSET ToSet(sel)
  <2> HIDE DEF IsLast
  <2> QED
    BY <1>1
<1>4. \A n \in under : n \in K <=> \A m \in ToSet(sel) : m.pos # n.pos
  BY <1>1
<1>5. \A n \in L : \E i \in 1 .. Len(sel) : sel[i] = n /\ IsLast(i)
  <2> HIDE DEF IsLast
  <2> QED
    BY <1>1
<1>6. \A i \in 1 .. Len(sel) : IsLast(i) => sel[i] \in L
  <2> HIDE DEF IsLast
  <2> QED
    BY <1>1
<1>7. IsFiniteSet(F)
  <2>1. IsFiniteSet(under \cup ToSet(sel))
    BY <1>1, FS_Union
  <2>2. F \in SUBSET (under \cup ToSet(sel))
    BY <1>2, <1>3
  <2> HIDE DEF F
  <2> QED
    BY <2>1, <2>2, FS_Subset
<1>8. ASSUME NEW n \in L, NEW m \in L, n.pos = m.pos
      PROVE  n = m
  <2>1. PICK i \in 1 .. Len(sel), j \in 1 .. Len(sel) : sel[i] = n /\ IsLast(i) /\ sel[j] = m /\ IsLast(j)
    <3> HIDE DEF IsLast, L
    <3> QED
      BY <1>5, <1>8
  <2>2. ~ (j > i) /\ ~ (i > j)
    BY <1>1, <1>8, <2>1
  <2> QED
    BY <2>1, <2>2
<1>9. ASSUME NEW n \in F, NEW m \in F, n.pos = m.pos
      PROVE  n = m
  <2>1. CASE n \in K /\ m \in K
    BY <1>3, <1>9, <2>1 DEF OnePerPosition
  <2>2. CASE n \in L /\ m \in L
    BY <1>8, <1>9, <2>2
  <2>3. CASE n \in K /\ m \in L
    BY <1>3, <1>4, <1>9, <2>3
  <2>4. CASE n \in L /\ m \in K
    BY <1>3, <1>4, <1>9, <2>4
  <2> QED
    BY <1>2, <1>9, <2>1, <2>2, <2>3, <2>4
<1>10. ASSUME NEW n \in ToSet(sel)
       PROVE  \E m \in ToSet(sel) : m.pos = n.pos /\ m \in F
  <2> DEFINE I == {i \in 1 .. Len(sel) : sel[i].pos = n.pos}
  <2>1. I \in SUBSET Int /\ I # {}
    BY <1>1, <1>10
  <2>2. IsFiniteSet(I)
    <3>1. IsFiniteSet(1 .. Len(sel))
      BY <1>1, FS_Interval
    <3> QED
      BY <3>1, FS_Subset
  <2>3. PICK i \in I : \A j \in I : j <= i
    <3> HIDE DEF I
    <3> QED
      BY <2>1, <2>2, Extremes
  <2>4. ASSUME NEW j \in 1 .. Len(sel), j > i
        PROVE  sel[j].pos # sel[i].pos
    <3>1. i \in Int /\ j \in Int /\ sel[i].pos = n.pos
      BY <1>1, <2>3
    <3>2. j \notin I
      BY <2>3, <2>4, <3>1
    <3> QED
      BY <3>1, <3>2
  <2>5. sel[i] \in L
    BY <1>1, <1>6, <2>3, <2>4
  <2> HIDE DEF L
  <2> QED
    BY <1>2, <1>3, <2>3, <2>5
<1> HIDE DEF K, L
<1>11. F \in SUBSET Placed
  BY <1>1, <1>2, <1>3
<1> QED
  BY <1>2, <1>3, <1>4, <1>7, <1>9, <1>10, <1>11 DEF OnePerPosition

-----------------------------------------------------------------------------
(* The invariant *)

TypeInv ==
    /\ notes \in [Channels -> SUBSET Placed]
    /\ select \in [Channels -> Seq(Placed)]
    /\ clipBoard \in [Channels -> Seq(Copied)]
    /\ refresh \in [Channels -> BOOLEAN] /\ active \in [Channels -> BOOLEAN]
    /\ turned \in [Channels -> BOOLEAN] /\ pasted \in [Channels -> BOOLEAN]
    /\ widget \in [Channels -> [freq : Int, mode : Int]]
    /\ currentPos \in Nat /\ screenPos \in Nat /\ playingStartPos \in Nat
    /\ playingStatus \in BOOLEAN /\ edited \in BOOLEAN

\* What a Cycle shows it offers.
OfferedInv == \A c \in Channels : HasCycle(c) => widget[c].mode \in ToSet(Offered[c])

MapInv == \A c \in Channels : IsFiniteSet(notes[c]) /\ OnePerPosition(notes[c])

\* The sliders show a note, as far as its Cycle offers it.
Shown(c) ==
    /\ widget[c].freq = select[c][1].freq
    /\ HasCycle(c) /\ select[c][1].mode \in ToSet(Offered[c]) => widget[c].mode = select[c][1].mode

\* One note alone is shown, or will be, or was turned; of several that were not
\* pasted none was left when the flag was last cleared.
ShownAt(c) ==
    select[c] # <<>> =>
        \/ refresh[c] \/ pasted[c]
        \/ Single(c) /\ (turned[c] \/ Shown(c))

ShownInv == \A c \in Channels : ShownAt(c)

\* Since PlayStop the playback has passed no note without playing it.
SentInv ==
    playingStatus /\ ~edited =>
        \A c \in Channels : \A n \in Everything(c) :
            playingStartPos <= n.pos /\ n.pos < currentPos => <<c, n.pos>> \in sent

IInv == TypeInv /\ OfferedInv /\ MapInv /\ ShownInv /\ SentInv

-----------------------------------------------------------------------------
(* The file that Save writes *)

Line == [position : Int, length : Int, channel : Int, freq : Int, mode : Int]

WellFormed(f) == f.size \in Int /\ f.records \in Seq(Line)

LineOf(c, n) ==
    [position |-> n.pos, length |-> n.length, channel |-> c, freq |-> n.freq, mode |-> n.mode]

LEMMA LineFields ==
    ASSUME NEW n \in Placed, NEW c \in Int
    PROVE  LET r == LineOf(c, n)
           IN  /\ r \in Line /\ r.position = n.pos /\ r.length = n.length /\ r.channel = c
               /\ r.freq = n.freq /\ r.mode = n.mode
<1>1. n.pos \in Int /\ n.length \in Int /\ n.freq \in Int /\ n.mode \in Int
  BY NoteFields
<1> QED
  BY <1>1 DEF LineOf, Line

\* One note of a channel at a position.
OneEach(S) == \A r, q \in S : r.channel = q.channel /\ r.position = q.position => r = q

LEMMA EarlierOrders ==
    ASSUME NEW S \in SUBSET Line, OneEach(S)
    PROVE  /\ \A r \in S : ~Earlier(r, r)
           /\ \A r, q, t \in S : Earlier(r, q) /\ Earlier(q, t) => Earlier(r, t)
           /\ \A r, q \in S : r = q \/ Earlier(r, q) \/ Earlier(q, r)
<1>1. \A r \in S : r.position \in Int /\ r.channel \in Int
  BY DEF Line
<1>2. \A r \in S : AtLeast(r.position, 0) \in Int
  BY <1>1 DEF AtLeast
<1>3. \A r \in S : ~Earlier(r, r)
  BY <1>1, <1>2 DEF Earlier
<1>4. ASSUME NEW r \in S, NEW q \in S, NEW t \in S, Earlier(r, q), Earlier(q, t)
      PROVE  Earlier(r, t)
  BY <1>1, <1>2, <1>4 DEF Earlier
<1>5. ASSUME NEW r \in S, NEW q \in S, r # q
      PROVE  Earlier(r, q) \/ Earlier(q, r)
  <2>1. r.channel # q.channel \/ r.position # q.position
    BY <1>5 DEF OneEach
  <2> QED
    BY <1>1, <1>2, <2>1 DEF Earlier
<1> QED
  BY <1>3, <1>4, <1>5

\* In an order, how many come before one tells it from all others, and every
\* number below the size of the set is somebody's.
LEMMA Ranks ==
    ASSUME NEW S \in SUBSET Line, IsFiniteSet(S), OneEach(S),
           NEW rank, rank = [r \in S |-> Cardinality({q \in S : Earlier(q, r)})]
    PROVE  /\ Cardinality(S) \in Nat
           /\ \A r \in S : rank[r] \in 0 .. Cardinality(S) - 1
           /\ \A r, q \in S : Earlier(r, q) => rank[r] < rank[q]
           /\ \A i \in 1 .. Cardinality(S) : \E r \in S : rank[r] = i - 1
<1> DEFINE before(r) == {q \in S : Earlier(q, r)}
           N == Cardinality(S)
<1>1. N \in Nat
  BY FS_CardinalityType
<1>2. ASSUME NEW r \in S
      PROVE  /\ IsFiniteSet(before(r)) /\ Cardinality(before(r)) \in Nat
             /\ rank[r] = Cardinality(before(r)) /\ r \notin before(r)
  <2>1. before(r) \in SUBSET S
    OBVIOUS
  <2>2. r \notin before(r)
    BY EarlierOrders
  <2>3. rank[r] = Cardinality(before(r))
    OBVIOUS
  <2> HIDE DEF before
  <2> QED
    BY <2>1, <2>2, <2>3, FS_Subset, FS_CardinalityType
<1>3. ASSUME NEW r \in S
      PROVE  rank[r] \in 0 .. N - 1
  <2>1. before(r) \in SUBSET (S \ {r})
    BY <1>2
  <2>2. IsFiniteSet(S \ {r}) /\ Cardinality(S \ {r}) = N - 1
    BY FS_RemoveElement
  <2> HIDE DEF before
  <2>3. Cardinality(before(r)) <= N - 1
    BY <2>1, <2>2, FS_Subset
  <2> HIDE DEF N
  <2> QED
    BY <1>1, <1>2, <2>3
<1>4. ASSUME NEW r \in S, NEW q \in S, Earlier(r, q)
      PROVE  rank[r] < rank[q]
  <2>1. before(r) \cup {r} \in SUBSET before(q)
    BY <1>4, EarlierOrders
  <2>2. /\ IsFiniteSet(before(r)) /\ IsFiniteSet(before(q))
        /\ Cardinality(before(r)) \in Nat /\ Cardinality(before(q)) \in Nat
        /\ rank[r] = Cardinality(before(r)) /\ rank[q] = Cardinality(before(q)) /\ r \notin before(r)
    BY <1>2
  <2> HIDE DEF before
  <2>3. Cardinality(before(r) \cup {r}) = Cardinality(before(r)) + 1
    BY <2>2, FS_AddElement
  <2>4. Cardinality(before(r) \cup {r}) <= Cardinality(before(q))
    BY <2>1, <2>2, FS_Subset
  <2> QED
    BY <2>2, <2>3, <2>4
<1>5. ASSUME NEW i \in 1 .. N
      PROVE  \E r \in S : rank[r] = i - 1
  <2> DEFINE f == [r \in S |-> rank[r] + 1]
  <2> HIDE DEF N
  <2>1. f \in [S -> 1 .. N]
    <3>1. \A r \in S : rank[r] + 1 \in 1 .. N
      BY <1>1, <1>3
    <3> QED
      BY <3>1
  <2>2. ASSUME NEW r \in S, NEW q \in S, f[r] = f[q]
        PROVE  r = q
    <3>1. rank[r] \in Int /\ rank[q] \in Int
      BY <1>1, <1>3
    <3>2. rank[r] = rank[q]
      BY <2>2, <3>1
    <3>3. ~Earlier(r, q) /\ ~Earlier(q, r)
      BY <1>4, <3>1, <3>2
    <3> QED
      BY <3>3, EarlierOrders
  <2>3. f \in Injection(S, 1 .. N)
    BY <2>1, <2>2 DEF Injection, IsInjective
  <2>4. IsFiniteSet(1 .. N) /\ Cardinality(1 .. N) = N
    BY <1>1, FS_Interval
  <2>5. f \in Surjection(S, 1 .. N)
    BY <2>3, <2>4, FS_Injection DEF N
  <2>6. PICK r \in S : f[r] = i
    BY <2>5 DEF Surjection
  <2>7. rank[r] \in Int
    BY <1>1, <1>3
  <2> QED
    BY <1>1, <2>6, <2>7
<1> HIDE DEF before
<1> QED
  BY <1>1, <1>3, <1>4, <1>5

\* The records of the file are those of the notes, in their order.
LEMMA EncodingIs ==
    ASSUME Records \in SUBSET Line, IsFiniteSet(Records), OneEach(Records)
    PROVE  /\ WellFormed(Encoding) /\ Encoding.size \in Nat
           /\ DOMAIN Encoding.records = 1 .. Encoding.size
           /\ \A i \in 1 .. Encoding.size : Encoding.records[i] \in Records
           /\ \A i, j \in 1 .. Encoding.size : i < j => Earlier(Encoding.records[i], Encoding.records[j])
           /\ \A r \in Records : \E i \in 1 .. Encoding.size : Encoding.records[i] = r
<1> DEFINE S == Records
           rank == [r \in S |-> Cardinality({q \in S : Earlier(q, r)})]
           N == Cardinality(S)
           recs == [i \in 1 .. N |-> CHOOSE r \in S : Cardinality({q \in S : Earlier(q, r)}) = i - 1]
<1>1. Encoding.size = N /\ Encoding.records = recs
  BY DEF Encoding
<1>2. S \in SUBSET Line /\ IsFiniteSet(S) /\ OneEach(S)
  OBVIOUS
<1> HIDE DEF S
<1>3. /\ N \in Nat
      /\ \A r \in S : rank[r] \in 0 .. N - 1
      /\ \A r, q \in S : Earlier(r, q) => rank[r] < rank[q]
      /\ \A i \in 1 .. N : \E r \in S : rank[r] = i - 1
  <2> HIDE DEF rank
  <2>1. rank = [r \in S |-> Cardinality({q \in S : Earlier(q, r)})]
    BY DEF rank
  <2> QED
    BY <1>2, <2>1, Ranks
<1> HIDE DEF N, rank
<1>4. ASSUME NEW i \in 1 .. N
      PROVE  recs[i] \in S /\ rank[recs[i]] = i - 1
  <2>1. PICK r \in S : rank[r] = i - 1
    BY <1>3
  <2>2. \A q \in S : rank[q] = Cardinality({t \in S : Earlier(t, q)})
    BY DEF rank
  <2>3. recs[i] = CHOOSE q \in S : Cardinality({t \in S : Earlier(t, q)}) = i - 1
    OBVIOUS
  <2>4. \E q \in S : Cardinality({t \in S : Earlier(t, q)}) = i - 1
    BY <2>1, <2>2
  <2>5. recs[i] \in S /\ Cardinality({t \in S : Earlier(t, recs[i])}) = i - 1
    <3> HIDE DEF recs
    <3> QED
      BY <2>3, <2>4
  <2> QED
    BY <2>2, <2>5
<1>5. DOMAIN recs = 1 .. N
  OBVIOUS
<1>6. recs \in Seq(Line)
  <2>1. recs = [i \in 1 .. N |-> recs[i]]
    OBVIOUS
  <2>2. \A i \in 1 .. N : recs[i] \in Line
    BY <1>2, <1>4
  <2> HIDE DEF recs
  <2>3. recs \in [1 .. N -> Line]
    BY <2>1, <2>2
  <2> QED
    BY <1>3, <2>3
<1> HIDE DEF recs
<1>7. ASSUME NEW i \in 1 .. N, NEW j \in 1 .. N, i < j
      PROVE  Earlier(recs[i], recs[j])
  <2>1. rank[recs[i]] = i - 1 /\ rank[recs[j]] = j - 1 /\ recs[i] \in S /\ recs[j] \in S
    BY <1>4
  <2>2. i \in Int /\ j \in Int
    BY <1>3
  <2>3. recs[i] # recs[j]
    BY <1>7, <2>1, <2>2
  <2>4. ~Earlier(recs[j], recs[i])
    BY <1>3, <1>7, <2>1, <2>2
  <2> QED
    BY <1>2, <2>1, <2>3, <2>4, EarlierOrders
<1>8. ASSUME NEW r \in S
      PROVE  \E i \in 1 .. N : recs[i] = r
  <2>1. rank[r] \in 0 .. N - 1
    BY <1>3
  <2>2. rank[r] + 1 \in 1 .. N /\ (rank[r] + 1) - 1 = rank[r]
    BY <1>3, <2>1
  <2>3. recs[rank[r] + 1] \in S /\ rank[recs[rank[r] + 1]] = rank[r]
    BY <1>4, <2>2
  <2>4. ~Earlier(recs[rank[r] + 1], r) /\ ~Earlier(r, recs[rank[r] + 1])
    BY <1>3, <2>1, <2>3
  <2>5. recs[rank[r] + 1] = r
    BY <1>2, <2>3, <2>4, EarlierOrders
  <2> QED
    BY <2>2, <2>5
<1>9. \A i \in 1 .. N : recs[i] \in S
  BY <1>4
<1>10. N \in Int
  BY <1>3
<1> QED
  BY <1>1, <1>3, <1>5, <1>6, <1>7, <1>8, <1>9, <1>10 DEF WellFormed, S

LEMMA FiniteChannels == IsFiniteSet(Channels) /\ \A c \in Channels : c \in Int
<1>1. Channels \in SUBSET (1 .. 4)
  <2>1. DOMAIN ChannelOf = 1 .. 4
    BY DEF ChannelOf
  <2> QED
    BY <2>1, ChannelsAssumption
<1>2. IsFiniteSet(1 .. 4)
  <2>1. 1 \in Int /\ 4 \in Int
    OBVIOUS
  <2> QED
    BY <2>1, FS_Interval
<1>3. IsFiniteSet(Channels)
  BY <1>1, <1>2, FS_Subset
<1>4. \A c \in Channels : c \in Int
  BY <1>1
<1> QED
  BY <1>1, <1>3, <1>4

LEMMA RecordsAre ==
    ASSUME TypeInv, MapInv
    PROVE  /\ Records \in SUBSET Line /\ IsFiniteSet(Records) /\ OneEach(Records)
           /\ \A r \in Records : \E c \in Channels : \E n \in Flattened(notes[c], select[c]) :
                 n \in Placed /\ r = LineOf(c, n)
           /\ \A c \in Channels : \A n \in Flattened(notes[c], select[c]) : LineOf(c, n) \in Records
<1> DEFINE Part(c) == {LineOf(c, n) : n \in Flattened(notes[c], select[c])}
<1>1. Records = UNION {Part(c) : c \in Channels}
  BY DEF Records, LineOf
<1>2. IsFiniteSet(Channels) /\ \A c \in Channels : c \in Int
  BY FiniteChannels
<1>3. ASSUME NEW c \in Channels
      PROVE  LET F == Flattened(notes[c], select[c])
             IN  F \in SUBSET Placed /\ IsFiniteSet(F) /\ OnePerPosition(F)
  <2>1. notes[c] \in SUBSET Placed /\ select[c] \in Seq(Placed) /\ IsFiniteSet(notes[c]) /\ OnePerPosition(notes[c])
    BY DEF TypeInv, MapInv
  <2> QED
    BY <2>1, FlattenedIs
<1>4. ASSUME NEW c \in Channels
      PROVE  IsFiniteSet(Part(c))
  <2> DEFINE F == Flattened(notes[c], select[c])
             f == [n \in F |-> LineOf(c, n)]
  <2>1. IsFiniteSet(F)
    BY <1>3
  <2> HIDE DEF F
  <2>2. DOMAIN f = F /\ f = [n \in F |-> f[n]] /\ {f[n] : n \in F} = {LineOf(c, n) : n \in F}
    OBVIOUS
  <2>3. IsFiniteSet({f[n] : n \in F})
    <3> HIDE DEF f
    <3> QED
      BY <2>1, <2>2, FiniteImage
  <2> QED
    BY <2>2, <2>3 DEF F
<1>5. IsFiniteSet(Records)
  <2> DEFINE g == [c \in Channels |-> Part(c)]
  <2> HIDE DEF Part
  <2>1. DOMAIN g = Channels /\ g = [c \in Channels |-> g[c]] /\ {g[c] : c \in Channels} = {Part(c) : c \in Channels}
    OBVIOUS
  <2>2. IsFiniteSet({g[c] : c \in Channels})
    <3> HIDE DEF g
    <3> QED
      BY <1>2, <2>1, FiniteImage
  <2>3. \A T \in {Part(c) : c \in Channels} : IsFiniteSet(T)
    BY <1>4
  <2> QED
    BY <1>1, <2>1, <2>2, <2>3, FS_UNION
<1>6. ASSUME NEW r \in Records
      PROVE  \E c \in Channels : \E n \in Flattened(notes[c], select[c]) : n \in Placed /\ r = LineOf(c, n)
  <2>1. PICK c \in Channels : r \in Part(c)
    BY <1>1
  <2> QED
    BY <1>3, <2>1
<1>7. ASSUME NEW c \in Channels, NEW n \in Flattened(notes[c], select[c])
      PROVE  LineOf(c, n) \in Records
  BY <1>1
<1>8. Records \in SUBSET Line
  BY <1>2, <1>6, LineFields
<1>9. ASSUME NEW r \in Records, NEW q \in Records, r.channel = q.channel, r.position = q.position
      PROVE  r = q
  <2>1. PICK c \in Channels : \E n \in Flattened(notes[c], select[c]) : n \in Placed /\ r = LineOf(c, n)
    BY <1>6
  <2>2. PICK d \in Channels : \E m \in Flattened(notes[d], select[d]) : m \in Placed /\ q = LineOf(d, m)
    BY <1>6
  <2>3. PICK n \in Flattened(notes[c], select[c]) : n \in Placed /\ r = LineOf(c, n)
    BY <2>1
  <2>4. PICK m \in Flattened(notes[d], select[d]) : m \in Placed /\ q = LineOf(d, m)
    BY <2>2
  <2>5. r.channel = c /\ r.position = n.pos /\ q.channel = d /\ q.position = m.pos
    BY <1>2, <2>3, <2>4, LineFields
  <2>6. c = d /\ n = m
    BY <1>3, <1>9, <2>5 DEF OnePerPosition
  <2> QED
    BY <2>3, <2>4, <2>6
<1> QED
  BY <1>5, <1>6, <1>7, <1>8, <1>9 DEF OneEach

-----------------------------------------------------------------------------
(* What keeps the parts of the invariant *)

LEMMA ChannelTypes ==
    ASSUME TypeInv, NEW c \in Channels
    PROVE  /\ notes[c] \in SUBSET Placed /\ select[c] \in Seq(Placed) /\ clipBoard[c] \in Seq(Copied)
           /\ refresh[c] \in BOOLEAN /\ active[c] \in BOOLEAN /\ turned[c] \in BOOLEAN /\ pasted[c] \in BOOLEAN
           /\ widget[c] \in [freq : Int, mode : Int]
           /\ ToSet(select[c]) \in SUBSET Placed /\ Everything(c) \in SUBSET Placed
           /\ DOMAIN select[c] = 1 .. Len(select[c]) /\ Len(select[c]) \in Nat
<1>1. notes[c] \in SUBSET Placed /\ select[c] \in Seq(Placed) /\ clipBoard[c] \in Seq(Copied)
      /\ widget[c] \in [freq : Int, mode : Int]
  BY DEF TypeInv
<1>2. refresh[c] \in BOOLEAN /\ active[c] \in BOOLEAN /\ turned[c] \in BOOLEAN /\ pasted[c] \in BOOLEAN
  BY DEF TypeInv
<1>3. ToSet(select[c]) \in SUBSET Placed /\ DOMAIN select[c] = 1 .. Len(select[c]) /\ Len(select[c]) \in Nat
  BY <1>1, SetOf
<1> QED
  BY <1>1, <1>2, <1>3 DEF Everything

LEMMA SentKept ==
    ASSUME SentInv, UNCHANGED <<currentPos, playingStatus, playingStartPos, sent, edited>>,
           \A c \in Channels : \A n \in Everything(c)' : \E m \in Everything(c) : m.pos = n.pos
    PROVE  SentInv'
<1> SUFFICES ASSUME playingStatus', ~edited', NEW c \in Channels, NEW n \in Everything(c)',
                    playingStartPos' <= n.pos, n.pos < currentPos'
             PROVE  <<c, n.pos>> \in sent'
  BY DEF SentInv
<1>1. PICK m \in Everything(c) : m.pos = n.pos
  OBVIOUS
<1> QED
  BY <1>1 DEF SentInv

LEMMA ShownKept ==
    ASSUME NEW c \in Channels, ShownAt(c), select'[c] = select[c], widget'[c] = widget[c],
           refresh'[c] = refresh[c], pasted'[c] = pasted[c], turned'[c] = turned[c]
    PROVE  ShownAt(c)'
  BY DEF ShownAt, Shown, Single

LEMMA OfferedKept ==
    ASSUME OfferedInv, widget' = widget
    PROVE  OfferedInv'
  BY DEF OfferedInv, HasCycle

-----------------------------------------------------------------------------
(* CLICKNOTES *)

LEMMA SelectedAtIs ==
    ASSUME TypeInv, NEW c \in Channels, NEW point \in Int
    PROVE  SelectedAt(c, point) \in 0 .. Len(select[c])
<1> DEFINE I == {i \in 1 .. Len(select[c]) : Hit(select[c][i], point)}
<1>1. SelectedAt(c, point) = IF I # {} THEN Min(I) ELSE 0
  BY DEF SelectedAt, SelectInSeq
<1>2. Len(select[c]) \in Nat
  BY ChannelTypes
<1>3. I \in SUBSET (1 .. Len(select[c])) /\ I \in SUBSET Nat
  BY <1>2
<1> HIDE DEF I
<1>4. CASE I # {}
  <2>1. \E i \in I : \A j \in I : i <= j
    BY <1>3, <1>4, LeastNumber
  <2>2. Min(I) \in I
    BY <2>1 DEF Min
  <2>3. SelectedAt(c, point) = Min(I)
    BY <1>1, <1>4
  <2>4. SelectedAt(c, point) \in 1 .. Len(select[c])
    BY <1>3, <2>2, <2>3
  <2> QED
    BY <1>2, <2>4
<1> QED
  BY <1>1, <1>2, <1>4

LEMMA SavedIs ==
    ASSUME NEW taken \in Seq(Placed), Len(taken) <= 1,
           NEW hits \in SUBSET Placed, IsFiniteSet(hits)
    PROVE  /\ Saved(taken, hits) \in Seq(Placed) /\ Len(Saved(taken, hits)) <= 1
           /\ ToSet(Saved(taken, hits)) \in SUBSET (hits \cup ToSet(taken))
           /\ hits = {} => \/ Saved(taken, hits) = taken
                           \/ Saved(taken, hits) = <<>> /\ \E n \in ToSet(taken) : n.pos = -1
           /\ \A n \in hits : hits = {n} /\ n.pos # -1 => Saved(taken, hits) = <<n>>
<1> DEFINE most == CHOOSE n \in hits : \A m \in hits : m.pos <= n.pos
<1>1. CASE hits = {}
  <2>1. \/ Saved(taken, hits) = taken
        \/ Saved(taken, hits) = <<>> /\ \E n \in ToSet(taken) : n.pos = -1
    BY <1>1 DEF Saved
  <2>2. <<>> \in Seq(Placed) /\ Len(<<>>) = 0 /\ ToSet(<<>>) = {}
    <3>1. ToSet(<<>>) = {}
      BY DEF ToSet
    <3> QED
      BY <3>1
  <2>3. Saved(taken, hits) \in Seq(Placed) /\ Len(Saved(taken, hits)) <= 1
    <3>1. CASE Saved(taken, hits) = taken
      BY <3>1
    <3>2. CASE Saved(taken, hits) = <<>>
      BY <2>2, <3>2
    <3> QED
      BY <2>1, <3>1, <3>2
  <2>4. ToSet(Saved(taken, hits)) \in SUBSET (hits \cup ToSet(taken))
    BY <2>1, <2>2
  <2> QED
    BY <1>1, <2>1, <2>3, <2>4
<1>2. CASE hits # {}
  <2>1. \E n \in hits : \A m \in hits : m.pos <= n.pos
    <3> DEFINE f == [n \in hits |-> n.pos]
               S == {f[n] : n \in hits}
    <3>1. IsFiniteSet(S)
      <4>1. DOMAIN f = hits /\ f = [n \in hits |-> f[n]]
        OBVIOUS
      <4> HIDE DEF f
      <4> QED
        BY <4>1, FiniteImage
    <3>2. \A n \in hits : n.pos \in Int /\ n.pos \in S
      BY NoteFields
    <3>3. S \in SUBSET Int /\ S # {}
      BY <1>2, <3>2
    <3>4. \A x \in S : \E n \in hits : x = n.pos
      OBVIOUS
    <3> HIDE DEF S
    <3>5. PICK x \in S : \A y \in S : y <= x
      BY <3>1, <3>3, Extremes
    <3> QED
      BY <3>2, <3>4, <3>5
  <2>2. most \in hits
    BY <2>1
  <2>3. Saved(taken, hits) = IF \E n \in ToSet(<<most>>) : n.pos = -1 THEN <<>> ELSE <<most>>
    <3> DEFINE save == IF hits = {} THEN taken ELSE <<most>>
    <3>1. Saved(taken, hits) = IF \E n \in ToSet(save) : n.pos = -1 THEN <<>> ELSE save
      BY DEF Saved
    <3>2. save = <<most>>
      BY <1>2
    <3> HIDE DEF save, most
    <3> QED
      BY <3>1, <3>2
  <2> HIDE DEF most
  <2>4. /\ <<>> \in Seq(Placed) /\ Len(<<>>) = 0 /\ ToSet(<<>>) = {}
        /\ <<most>> \in Seq(Placed) /\ Len(<<most>>) = 1 /\ ToSet(<<most>>) = {most}
    BY <2>2, SmallSeqs
  <2>5. Saved(taken, hits) = <<>> \/ Saved(taken, hits) = <<most>>
    BY <2>3
  <2>6. ASSUME NEW n \in hits, hits = {n}, n.pos # -1
        PROVE  Saved(taken, hits) = <<n>>
    BY <2>2, <2>3, <2>4, <2>6
  <2>7. Saved(taken, hits) \in Seq(Placed) /\ Len(Saved(taken, hits)) <= 1
    <3>1. CASE Saved(taken, hits) = <<>>
      BY <2>4, <3>1
    <3>2. CASE Saved(taken, hits) = <<most>>
      BY <2>4, <3>2
    <3> QED
      BY <2>5, <3>1, <3>2
  <2>8. ToSet(Saved(taken, hits)) \in SUBSET (hits \cup ToSet(taken))
    BY <2>2, <2>4, <2>5
  <2> QED
    BY <1>2, <2>6, <2>7, <2>8
<1> QED
  BY <1>1, <1>2

\* What a click does to its channel: of the selected notes one may be taken, of
\* the map some are hit, but not beside a taken one that Save can push back.
Clicked(c, point, alt, taken, left, hits) ==
    /\ ToSet(select[c]) = ToSet(left) \cup ToSet(taken)
    /\ Len(select[c]) = Len(left) + Len(taken)
    /\ Len(taken) <= 1
    /\ (\E n \in ToSet(taken) : n.pos # -1) => hits = {}
    /\ \A n \in hits : Hit(n, point)
    /\ notes' = [notes EXCEPT ![c] = IF alt THEN @ \ hits ELSE Flattened(@ \ hits, left)]
    /\ select' = [select EXCEPT ![c] = (IF alt THEN left ELSE <<>>) \o Saved(taken, hits)]
    /\ refresh' = [refresh EXCEPT ![c] = @ \/ hits # {}]
    /\ pasted' = [pasted EXCEPT ![c] = @ /\ hits = {} /\ select'[c] # <<>>]

LEMMA ClickIs ==
    ASSUME TypeInv, NEW c \in Channels, NEW point \in Int, NEW late, NEW alt,
           ClickNotes(c, point, late, alt)
    PROVE  \E taken \in Seq(Placed), left \in Seq(Placed), hits \in SUBSET notes[c] :
              Clicked(c, point, alt, taken, left, hits)
<1> DEFINE s == select[c]
           i == SelectedAt(c, point)
           taken == IF i = 0 THEN <<>> ELSE <<s[i]>>
           left == IF i = 0 THEN s ELSE RemoveAt(s, i)
           hits == IF i # 0 /\ s[i].pos # -1 THEN {} ELSE {n \in Reachable(c) : Hit(n, point)}
<1>1. s \in Seq(Placed) /\ i \in 0 .. Len(s) /\ Len(s) \in Nat
  BY SelectedAtIs, ChannelTypes
<1>2. /\ notes' = [notes EXCEPT ![c] = IF alt THEN @ \ hits ELSE Flattened(@ \ hits, left)]
      /\ select' = [select EXCEPT ![c] = (IF alt THEN left ELSE <<>>) \o Saved(taken, hits)]
      /\ refresh' = [refresh EXCEPT ![c] = @ \/ hits # {}]
      /\ pasted' = [pasted EXCEPT ![c] = @ /\ hits = {} /\ select'[c] # <<>>]
  BY DEF ClickNotes
<1>3. hits \in SUBSET notes[c] /\ \A n \in hits : Hit(n, point)
  BY DEF Reachable
<1>4. i # 0 /\ s[i].pos # -1 => hits = {}
  OBVIOUS
<1> HIDE DEF i, hits
<1>5. CASE i = 0
  <2>1. taken = <<>> /\ left = s
    BY <1>5
  <2>2. <<>> \in Seq(Placed) /\ Len(<<>>) = 0
    OBVIOUS
  <2>3. ToSet(<<>>) = {}
    BY DEF ToSet
  <2> HIDE DEF taken, left
  <2>4. Len(s) = Len(left) + Len(taken) /\ Len(taken) <= 1 /\ ToSet(s) = ToSet(left) \cup ToSet(taken)
        /\ ~ \E n \in ToSet(taken) : n.pos # -1
    BY <1>1, <2>1, <2>2, <2>3
  <2>5. Clicked(c, point, alt, taken, left, hits)
    BY <1>2, <1>3, <2>4 DEF Clicked
  <2> QED
    BY <1>1, <1>3, <2>1, <2>2, <2>5
<1>6. CASE i # 0
  <2>1. taken = <<s[i]>> /\ left = RemoveAt(s, i) /\ i \in 1 .. Len(s) /\ s[i] \in Placed
    BY <1>1, <1>6
  <2> HIDE DEF s, taken, left
  <2>2. /\ taken \in Seq(Placed) /\ Len(taken) = 1 /\ ToSet(taken) = {s[i]}
        /\ left \in Seq(Placed) /\ Len(left) = Len(s) - 1 /\ ToSet(s) = ToSet(left) \cup {s[i]}
    BY <1>1, <2>1, SmallSeqs, Removed, Rest
  <2>3. Len(s) = Len(left) + Len(taken) /\ Len(taken) <= 1 /\ ToSet(s) = ToSet(left) \cup ToSet(taken)
    BY <1>1, <2>2
  <2>4. (\E n \in ToSet(taken) : n.pos # -1) => hits = {}
    BY <1>4, <1>6, <2>2
  <2>5. Clicked(c, point, alt, taken, left, hits)
    BY <1>2, <1>3, <2>3, <2>4 DEF Clicked, s
  <2> QED
    BY <1>3, <2>2, <2>5
<1> QED
  BY <1>5, <1>6

\* A note of a channel that lies alone is one of its notes still.
Safe(c) == \A n \in Everything(c) : Alone(c, n) => n \in notes'[c] \cup ToSet(select'[c])

LEMMA ClickEffect ==
    ASSUME TypeInv, MapInv, ShownInv, NEW c \in Channels, NEW point \in Int, NEW late, NEW alt \in BOOLEAN,
           ClickNotes(c, point, late, alt), turned' = turned \/ turned'[c],
           widget'[c] = widget[c] \/ turned'[c]
    PROVE  /\ notes' \in [Channels -> SUBSET Placed] /\ select' \in [Channels -> Seq(Placed)]
           /\ refresh' \in [Channels -> BOOLEAN] /\ pasted' \in [Channels -> BOOLEAN]
           /\ MapInv'
           /\ \A d \in Channels : d # c => /\ notes'[d] = notes[d] /\ select'[d] = select[d]
                                           /\ refresh'[d] = refresh[d] /\ pasted'[d] = pasted[d]
           /\ \A d \in Channels : Everything(d)' \in SUBSET Everything(d)
           /\ ShownAt(c)'
           /\ \A d \in Channels : Safe(d)
<1>1. PICK taken \in Seq(Placed), left \in Seq(Placed), hits \in SUBSET notes[c] :
         Clicked(c, point, alt, taken, left, hits)
  BY ClickIs
<1> DEFINE N == IF alt THEN notes[c] \ hits ELSE Flattened(notes[c] \ hits, left)
           first == IF alt THEN left ELSE <<>>
           back == Saved(taken, hits)
           s == select[c]
<1>2. /\ notes[c] \in SUBSET Placed /\ s \in Seq(Placed) /\ IsFiniteSet(notes[c]) /\ OnePerPosition(notes[c])
      /\ Len(s) \in Nat
  BY ChannelTypes DEF MapInv
<1>3. /\ ToSet(s) = ToSet(left) \cup ToSet(taken) /\ Len(s) = Len(left) + Len(taken) /\ Len(taken) <= 1
      /\ (\E n \in ToSet(taken) : n.pos # -1) => hits = {}
      /\ \A n \in hits : Hit(n, point)
  BY <1>1 DEF Clicked
<1>4. /\ notes' = [notes EXCEPT ![c] = N]
      /\ select' = [select EXCEPT ![c] = first \o back]
      /\ refresh' = [refresh EXCEPT ![c] = refresh[c] \/ hits # {}]
      /\ pasted' = [pasted EXCEPT ![c] = pasted[c] /\ hits = {} /\ select'[c] # <<>>]
  BY <1>1 DEF Clicked
<1>5. /\ notes \in [Channels -> SUBSET Placed] /\ select \in [Channels -> Seq(Placed)]
      /\ refresh \in [Channels -> BOOLEAN] /\ pasted \in [Channels -> BOOLEAN]
  BY DEF TypeInv
\* The notes that stay below, and those on top.
<1>6. LET U == notes[c] \ hits
      IN  U \in SUBSET Placed /\ IsFiniteSet(U) /\ OnePerPosition(U)
  BY <1>2, FS_Difference DEF OnePerPosition
<1>7. LET F == Flattened(notes[c] \ hits, left)
      IN  /\ F \in SUBSET ((notes[c] \ hits) \cup ToSet(left))
          /\ F \in SUBSET Placed /\ IsFiniteSet(F) /\ OnePerPosition(F)
          /\ \A n \in notes[c] \ hits : (\A m \in ToSet(left) : m.pos # n.pos) => n \in F
          /\ \A n \in ToSet(left) : \E m \in ToSet(left) : m.pos = n.pos /\ m \in F
  <2> HIDE DEF s
  <2> QED
    BY <1>6, FlattenedIs
<1>8. N \in SUBSET Placed /\ IsFiniteSet(N) /\ OnePerPosition(N) /\ N \in SUBSET ((notes[c] \ hits) \cup ToSet(left))
  <2>1. CASE alt
    BY <1>6, <2>1
  <2>2. CASE ~alt
    BY <1>7, <2>2
  <2> QED
    BY <2>1, <2>2
<1>9. /\ back \in Seq(Placed) /\ Len(back) <= 1 /\ ToSet(back) \in SUBSET (hits \cup ToSet(taken))
      /\ hits = {} => back = taken \/ (back = <<>> /\ \E n \in ToSet(taken) : n.pos = -1)
      /\ \A n \in hits : hits = {n} /\ n.pos # -1 => back = <<n>>
  <2>1. hits \in SUBSET Placed /\ IsFiniteSet(hits)
    BY <1>2, FS_Subset
  <2> QED
    BY <1>3, <2>1, SavedIs
<1>10. first \in Seq(Placed) /\ ToSet(first) \in SUBSET ToSet(left) /\ (alt => first = left)
       /\ Len(first) <= Len(left)
  <2>1. CASE alt
    BY <2>1
  <2>2. CASE ~alt
    <3>1. first = <<>>
      BY <2>2
    <3>2. ToSet(<<>>) = {} /\ Len(<<>>) = 0 /\ <<>> \in Seq(Placed) /\ Len(left) \in Nat
      BY DEF ToSet
    <3> HIDE DEF first
    <3> QED
      BY <2>2, <3>1, <3>2
  <2> QED
    BY <2>1, <2>2
<1> HIDE DEF N, first, back
<1>11. /\ first \o back \in Seq(Placed) /\ Len(first \o back) = Len(first) + Len(back)
       /\ ToSet(first \o back) = ToSet(first) \cup ToSet(back)
  BY <1>9, <1>10, Joined
<1>12. notes' \in [Channels -> SUBSET Placed] /\ notes'[c] = N
       /\ \A d \in Channels : d # c => notes'[d] = notes[d]
  BY <1>4, <1>5, <1>8
<1>13. select' \in [Channels -> Seq(Placed)] /\ select'[c] = first \o back
       /\ \A d \in Channels : d # c => select'[d] = select[d]
  <2> DEFINE j == first \o back
  <2>1. select' = [select EXCEPT ![c] = j] /\ j \in Seq(Placed)
    BY <1>4, <1>11
  <2> HIDE DEF j
  <2>2. select' \in [Channels -> Seq(Placed)] /\ select'[c] = j
        /\ \A d \in Channels : d # c => select'[d] = select[d]
    BY <1>5, <2>1
  <2> QED
    BY <2>2 DEF j
<1>14. refresh' \in [Channels -> BOOLEAN] /\ refresh'[c] = (refresh[c] \/ hits # {})
       /\ \A d \in Channels : d # c => refresh'[d] = refresh[d]
  BY <1>4, <1>5
<1>15. pasted' \in [Channels -> BOOLEAN] /\ pasted'[c] = (pasted[c] /\ hits = {} /\ select'[c] # <<>>)
       /\ \A d \in Channels : d # c => pasted'[d] = pasted[d]
  BY <1>4, <1>5
<1>16. MapInv'
  <2> SUFFICES ASSUME NEW d \in Channels PROVE IsFiniteSet(notes'[d]) /\ OnePerPosition(notes'[d])
    BY DEF MapInv
  <2>1. CASE d = c
    BY <1>8, <1>12, <2>1
  <2>2. CASE d # c
    BY <1>12, <2>2 DEF MapInv
  <2> QED
    BY <2>1, <2>2
<1>17. ASSUME NEW d \in Channels
       PROVE  Everything(d)' \in SUBSET Everything(d)
  <2>1. CASE d = c
    BY <1>3, <1>8, <1>9, <1>10, <1>11, <1>12, <1>13, <2>1 DEF Everything
  <2>2. CASE d # c
    BY <1>12, <1>13, <2>2 DEF Everything
  <2> QED
    BY <2>1, <2>2
<1>18. ShownAt(c)'
  <2> SUFFICES ASSUME select'[c] # <<>>, ~refresh'[c], ~pasted'[c]
               PROVE  Single(c)' /\ (turned'[c] \/ Shown(c)')
    BY DEF ShownAt
  <2>1. hits = {} /\ ~refresh[c] /\ ~pasted[c]
    BY <1>14, <1>15
  <2>2. /\ Len(first) \in Nat /\ Len(back) \in Nat /\ Len(left) \in Nat /\ Len(taken) \in Nat
        /\ Len(first \o back) > 0
    <3>1. Len(first) \in Nat /\ Len(back) \in Nat /\ Len(left) \in Nat /\ Len(taken) \in Nat
      BY <1>9, <1>10
    <3>2. first \o back \in Seq(Placed) /\ first \o back # <<>>
      BY <1>11, <1>13
    <3>3. \A q \in Seq(Placed) : q # <<>> => Len(q) \in Nat /\ Len(q) > 0
      OBVIOUS
    <3> QED
      BY <3>1, <3>2, <3>3
  <2>3. Len(back) <= Len(taken)
    <3>1. Len(<<>>) = 0
      OBVIOUS
    <3> QED
      BY <1>9, <2>1, <2>2, <3>1
  <2>4. Len(s) > 0 /\ Len(first \o back) <= Len(s)
    BY <1>2, <1>3, <1>10, <1>11, <2>2, <2>3
  <2>5. s # <<>>
    BY <1>2, <2>4
  <2>6. Single(c) /\ (turned[c] \/ Shown(c))
    BY <2>1, <2>5 DEF ShownInv, ShownAt
  <2>7. Len(s) = 1 /\ Len(first \o back) = 1
    BY <1>11, <2>2, <2>4, <2>6 DEF Single
  <2>8. (first \o back)[1] = s[1]
    <3> DEFINE j == first \o back
    <3>1. j \in Seq(Placed) /\ Len(j) = 1 /\ ToSet(j) \in SUBSET ToSet(s)
      BY <1>3, <1>9, <1>10, <1>11, <2>1, <2>7
    <3> HIDE DEF j
    <3>2. j[1] \in ToSet(j)
      BY <3>1, SetOf
    <3>3. \A x \in ToSet(s) : x = s[1]
      BY <1>2, <2>7, SetOf
    <3> QED
      BY <3>1, <3>2, <3>3 DEF j
  <2>9. Single(c)' /\ select'[c][1] = select[c][1]
    BY <1>13, <2>7, <2>8 DEF Single
  <2>10. CASE turned'[c]
    BY <2>9, <2>10
  <2>11. CASE ~turned'[c]
    <3>1. turned' = turned /\ widget'[c] = widget[c]
      BY <2>11
    <3>2. Shown(c)
      BY <2>6, <2>11, <3>1
    <3> QED
      BY <2>9, <3>1, <3>2 DEF Shown, HasCycle
  <2> QED
    BY <2>10, <2>11
<1>19. ASSUME NEW d \in Channels
       PROVE  Safe(d)
  <2> SUFFICES ASSUME NEW n \in Everything(d), Alone(d, n)
               PROVE  n \in notes'[d] \cup ToSet(select'[d])
    BY DEF Safe
  <2>1. CASE d # c
    BY <1>12, <1>13, <2>1 DEF Everything
  <2>2. CASE d = c
    <3>1. n.pos # -1 /\ (n \notin notes[c] \/ n \notin ToSet(s))
      BY <2>2 DEF Alone
    <3>2. \A m \in Everything(c) : m # n =>
             m.pos # n.pos /\ (2 * m.pos + m.length <= 2 * n.pos \/ 2 * n.pos + n.length <= 2 * m.pos)
      BY <2>2 DEF Alone
    <3>3. CASE n \in hits
      <4>1. ASSUME NEW m \in hits, m # n
            PROVE  FALSE
        <5>1. /\ 2 * n.pos <= point /\ point < 2 * n.pos + n.length
              /\ 2 * m.pos <= point /\ point < 2 * m.pos + m.length
          BY <1>3, <3>3 DEF Hit
        <5>2. n.pos \in Int /\ m.pos \in Int /\ n.length \in Int /\ m.length \in Int
          BY <1>2, <3>3, NoteFields
        <5>3. 2 * m.pos + m.length <= 2 * n.pos \/ 2 * n.pos + n.length <= 2 * m.pos
          BY <3>2, <4>1 DEF Everything
        <5>4. \A x, y, i, k \in Int :
                 x <= point /\ point < x + i /\ y <= point /\ point < y + k
                   => ~(y + k <= x \/ x + i <= y)
          BY SharedPoint
        <5>5. PICK x \in Int, y \in Int : x = 2 * n.pos /\ y = 2 * m.pos
          BY <5>2
        <5>6. /\ x <= point /\ point < x + n.length
              /\ y <= point /\ point < y + m.length
          BY <5>1, <5>5
        <5>7. ~(y + m.length <= x \/ x + n.length <= y)
          BY <5>2, <5>4, <5>6
        <5> QED
          BY <5>3, <5>5, <5>7
      <4>2. back = <<n>>
        BY <1>9, <3>1, <3>3, <4>1
      <4>3. n \in ToSet(back)
        BY <1>2, <3>3, <4>2, SmallSeqs
      <4> QED
        BY <1>11, <1>13, <2>2, <4>3
    <3>4. CASE n \in notes[c] /\ n \notin hits
      <4>1. \A m \in ToSet(left) : m.pos # n.pos
        BY <1>3, <3>1, <3>2, <3>4 DEF Everything
      <4>2. n \in N
        BY <1>7, <3>4, <4>1 DEF N
      <4> QED
        BY <1>12, <2>2, <4>2
    <3>5. CASE n \in ToSet(left)
      <4>1. CASE alt
        BY <1>10, <1>11, <1>13, <2>2, <3>5, <4>1
      <4>2. CASE ~alt
        <5>1. PICK m \in ToSet(left) : m.pos = n.pos /\ m \in Flattened(notes[c] \ hits, left)
          BY <1>7, <3>5
        <5>2. m = n
          BY <1>3, <3>2, <5>1 DEF Everything
        <5> QED
          BY <1>12, <2>2, <4>2, <5>1, <5>2 DEF N
      <4> QED
        BY <4>1, <4>2
    <3>6. CASE n \in ToSet(taken)
      <4>1. hits = {}
        BY <1>3, <3>1, <3>6
      <4>2. \A m \in ToSet(taken) : m = n
        <5>1. Len(taken) \in Nat /\ Len(taken) <= 1
          BY <1>3
        <5>2. \A i, j \in 1 .. Len(taken) : i = j
          BY <5>1
        <5> QED
          BY <3>6, <5>2, SetOf
      <4>3. back = taken
        BY <1>9, <3>1, <4>1, <4>2
      <4> QED
        BY <1>11, <1>13, <2>2, <3>6, <4>3
    <3> QED
      BY <1>3, <2>2, <3>3, <3>4, <3>5, <3>6 DEF Everything
  <2> QED
    BY <2>1, <2>2
<1> QED
  BY <1>12, <1>13, <1>14, <1>15, <1>16, <1>17, <1>18, <1>19

-----------------------------------------------------------------------------
(* The clicks *)

LEMMA PointsAre ==
    ASSUME TypeInv
    PROVE  Points \in SUBSET Int /\ \A u \in SliderUnits : 2 * screenPos - u \in Int
<1>1. screenPos \in Nat /\ ScreenWidth \in Nat
  BY BoundsAssumption DEF TypeInv
<1>2. Margin \in Nat /\ \A u \in SliderUnits : u \in Int
  BY WindowAssumption
<1> QED
  BY <1>1, <1>2 DEF Points

LEMMA PressKeeps ==
    ASSUME IInv, Press
    PROVE  IInv' /\ \A d \in Channels : Safe(d)
<1>1. PICK c \in Channels, point \in Points, late \in BOOLEAN, alt \in BOOLEAN : ClickNotes(c, point, late, alt)
  BY DEF Press
<1>2. UNCHANGED <<active, widget, clipBoard, session, screenPos, turned, edited>>
  BY DEF Press
<1>3. TypeInv /\ OfferedInv /\ MapInv /\ ShownInv /\ SentInv /\ point \in Int
  BY <1>1, PointsAre DEF IInv
<1>4. /\ notes' \in [Channels -> SUBSET Placed] /\ select' \in [Channels -> Seq(Placed)]
      /\ refresh' \in [Channels -> BOOLEAN] /\ pasted' \in [Channels -> BOOLEAN]
      /\ MapInv'
      /\ \A d \in Channels : d # c => /\ notes'[d] = notes[d] /\ select'[d] = select[d]
                                      /\ refresh'[d] = refresh[d] /\ pasted'[d] = pasted[d]
      /\ \A d \in Channels : Everything(d)' \in SUBSET Everything(d)
      /\ ShownAt(c)'
      /\ \A d \in Channels : Safe(d)
  BY <1>1, <1>2, <1>3, ClickEffect
<1>5. TypeInv'
  BY <1>2, <1>3, <1>4 DEF TypeInv, session
<1>6. OfferedInv'
  BY <1>2, <1>3, OfferedKept
<1>7. ShownInv'
  <2> SUFFICES ASSUME NEW d \in Channels, d # c PROVE ShownAt(d)'
    BY <1>4 DEF ShownInv
  <2>1. ShownAt(d)
    BY <1>3 DEF ShownInv
  <2> QED
    BY <1>2, <1>4, <2>1, ShownKept
<1>8. SentInv'
  BY <1>2, <1>3, <1>4, SentKept DEF session
<1> QED
  BY <1>4, <1>5, <1>6, <1>7, <1>8 DEF IInv

LEMMA TurnIs ==
    ASSUME TypeInv, OfferedInv, NEW c \in Channels, NEW value \in [freq : Int, mode : Int], Turn(c, value),
           HasCycle(c) => value.mode \in ToSet(Offered[c])
    PROVE  /\ widget' \in [Channels -> [freq : Int, mode : Int]] /\ turned' \in [Channels -> BOOLEAN]
           /\ turned'[c] /\ \A d \in Channels : d # c => widget'[d] = widget[d] /\ turned'[d] = turned[d]
           /\ OfferedInv'
<1>1. widget' = [widget EXCEPT ![c] = value] /\ turned' = [turned EXCEPT ![c] = TRUE]
  BY DEF Turn
<1>2. widget \in [Channels -> [freq : Int, mode : Int]] /\ turned \in [Channels -> BOOLEAN]
  BY DEF TypeInv
<1>3. /\ widget' \in [Channels -> [freq : Int, mode : Int]]
      /\ widget'[c] = value /\ \A d \in Channels : d # c => widget'[d] = widget[d]
  BY <1>1, <1>2
<1>4. /\ turned' \in [Channels -> BOOLEAN]
      /\ turned'[c] /\ \A d \in Channels : d # c => turned'[d] = turned[d]
  BY <1>1, <1>2
<1>5. OfferedInv'
  <2> SUFFICES ASSUME NEW d \in Channels, HasCycle(d) PROVE widget'[d].mode \in ToSet(Offered[d])
    BY DEF OfferedInv, HasCycle
  <2> QED
    BY <1>3 DEF OfferedInv
<1> QED
  BY <1>3, <1>4, <1>5

\* A slider and a Cycle keep what they do not set.
LEMMA SlideValue ==
    ASSUME TypeInv, OfferedInv, NEW c \in Channels, NEW f \in Freqs
    PROVE  LET value == [widget[c] EXCEPT !.freq = f]
           IN  value \in [freq : Int, mode : Int] /\ (HasCycle(c) => value.mode \in ToSet(Offered[c]))
<1>1. widget[c] \in [freq : Int, mode : Int] /\ f \in Int
  BY ChannelTypes, FreqsAssumption
<1>2. LET value == [widget[c] EXCEPT !.freq = f]
      IN  value \in [freq : Int, mode : Int] /\ value.mode = widget[c].mode
  BY <1>1
<1> QED
  BY <1>2 DEF OfferedInv

LEMMA CycleValue ==
    ASSUME TypeInv, OfferedInv, NEW c \in Channels, HasCycle(c)
    PROVE  LET value == [widget[c] EXCEPT !.mode = Following(c, @)]
           IN  value \in [freq : Int, mode : Int] /\ value.mode \in ToSet(Offered[c])
<1> DEFINE o == Offered[c]
           mode == widget[c].mode
           i == CHOOSE i \in DOMAIN o : o[i] = mode
<1>1. widget[c] \in [freq : Int, mode : Int] /\ o \in Seq(Int) /\ mode \in ToSet(o)
  BY ChannelTypes, OfferedAssumption DEF OfferedInv
<1>2. Following(c, mode) = o[IF i = Len(o) THEN 1 ELSE i + 1]
  BY DEF Following
<1> HIDE DEF o, mode
<1>3. DOMAIN o = 1 .. Len(o) /\ Len(o) \in Nat /\ \E j \in DOMAIN o : o[j] = mode
  BY <1>1, SetOf
<1>4. i \in 1 .. Len(o)
  BY <1>3
<1> HIDE DEF i
<1>5. (IF i = Len(o) THEN 1 ELSE i + 1) \in 1 .. Len(o)
  <2> DEFINE l == Len(o)
  <2>1. i \in Int /\ 1 <= i /\ i <= l /\ l \in Int
    BY <1>3, <1>4
  <2> HIDE DEF l
  <2>2. CASE i = l
    BY <2>1, <2>2 DEF l
  <2>3. CASE i # l
    <3>1. i + 1 \in 1 .. l
      BY <2>1, <2>3
    <3> QED
      BY <2>3, <3>1 DEF l
  <2> QED
    BY <2>2, <2>3
<1>6. Following(c, mode) \in ToSet(o) /\ Following(c, mode) \in Int
  <2> DEFINE k == IF i = Len(o) THEN 1 ELSE i + 1
  <2>1. k \in 1 .. Len(o) /\ Following(c, mode) = o[k]
    BY <1>2, <1>5
  <2> HIDE DEF k
  <2> QED
    BY <1>1, <2>1, SetOf
<1>7. \A x \in Int : LET value == [widget[c] EXCEPT !.mode = x]
                     IN  value \in [freq : Int, mode : Int] /\ value.mode = x
  BY <1>1
<1> QED
  BY <1>6, <1>7 DEF o, mode

LEMMA TypeFreqKeeps ==
    ASSUME IInv, TypeFreq
    PROVE  IInv' /\ \A d \in Channels : Safe(d)
<1>1. PICK c \in Channels, f \in Freqs, u \in SliderUnits, late \in BOOLEAN, alt \in BOOLEAN :
         Turn(c, [widget[c] EXCEPT !.freq = f]) /\ ClickNotes(c, 2 * screenPos - u, late, alt)
  BY DEF TypeFreq
<1>2. UNCHANGED <<active, clipBoard, session, screenPos, edited>>
  BY DEF TypeFreq
<1>3. TypeInv /\ OfferedInv /\ MapInv /\ ShownInv /\ SentInv /\ 2 * screenPos - u \in Int
  BY <1>1, PointsAre DEF IInv
<1>4. /\ widget' \in [Channels -> [freq : Int, mode : Int]] /\ turned' \in [Channels -> BOOLEAN]
      /\ turned'[c] /\ \A d \in Channels : d # c => widget'[d] = widget[d] /\ turned'[d] = turned[d]
      /\ OfferedInv'
  <2> DEFINE value == [widget[c] EXCEPT !.freq = f]
  <2>1. value \in [freq : Int, mode : Int] /\ (HasCycle(c) => value.mode \in ToSet(Offered[c]))
    BY <1>3, SlideValue
  <2>2. Turn(c, value)
    BY <1>1
  <2> HIDE DEF value
  <2> QED
    BY <1>3, <2>1, <2>2, TurnIs
<1>5. /\ notes' \in [Channels -> SUBSET Placed] /\ select' \in [Channels -> Seq(Placed)]
      /\ refresh' \in [Channels -> BOOLEAN] /\ pasted' \in [Channels -> BOOLEAN]
      /\ MapInv'
      /\ \A d \in Channels : d # c => /\ notes'[d] = notes[d] /\ select'[d] = select[d]
                                      /\ refresh'[d] = refresh[d] /\ pasted'[d] = pasted[d]
      /\ \A d \in Channels : Everything(d)' \in SUBSET Everything(d)
      /\ ShownAt(c)'
      /\ \A d \in Channels : Safe(d)
  BY <1>1, <1>3, <1>4, ClickEffect
<1>6. TypeInv'
  BY <1>2, <1>3, <1>4, <1>5 DEF TypeInv, session
<1>7. ShownInv'
  <2> SUFFICES ASSUME NEW d \in Channels, d # c PROVE ShownAt(d)'
    BY <1>5 DEF ShownInv
  <2>1. ShownAt(d)
    BY <1>3 DEF ShownInv
  <2> QED
    BY <1>4, <1>5, <2>1, ShownKept
<1>8. SentInv'
  BY <1>2, <1>3, <1>5, SentKept DEF session
<1> QED
  BY <1>4, <1>5, <1>6, <1>7, <1>8 DEF IInv

LEMMA TurnKeeps ==
    ASSUME IInv, Slide \/ CycleClick
    PROVE  IInv' /\ \A d \in Channels : Safe(d)
<1>1. UNCHANGED <<notes, select, refresh, active, clipBoard, session, screenPos, pasted, edited>>
  BY DEF Slide, CycleClick
<1>2. TypeInv /\ OfferedInv /\ MapInv /\ ShownInv /\ SentInv
  BY DEF IInv
<1>3. PICK c \in Channels :
         /\ widget' \in [Channels -> [freq : Int, mode : Int]] /\ turned' \in [Channels -> BOOLEAN]
         /\ turned'[c] /\ \A d \in Channels : d # c => widget'[d] = widget[d] /\ turned'[d] = turned[d]
         /\ OfferedInv'
  <2>1. CASE Slide
    <3>1. PICK c \in Channels, f \in Freqs : Turn(c, [widget[c] EXCEPT !.freq = f])
      BY <2>1 DEF Slide
    <3> DEFINE value == [widget[c] EXCEPT !.freq = f]
    <3>2. value \in [freq : Int, mode : Int] /\ (HasCycle(c) => value.mode \in ToSet(Offered[c]))
      BY <1>2, SlideValue
    <3>3. Turn(c, value)
      BY <3>1
    <3> HIDE DEF value
    <3> QED
      BY <1>2, <3>2, <3>3, TurnIs
  <2>2. CASE CycleClick
    <3>1. PICK c \in Channels : HasCycle(c) /\ Turn(c, [widget[c] EXCEPT !.mode = Following(c, @)])
      BY <2>2 DEF CycleClick
    <3> DEFINE value == [widget[c] EXCEPT !.mode = Following(c, @)]
    <3>2. value \in [freq : Int, mode : Int] /\ value.mode \in ToSet(Offered[c])
      BY <1>2, <3>1, CycleValue
    <3>3. Turn(c, value)
      BY <3>1
    <3> HIDE DEF value
    <3> QED
      BY <1>2, <3>2, <3>3, TurnIs
  <2> QED
    BY <2>1, <2>2
<1>4. TypeInv'
  BY <1>1, <1>2, <1>3 DEF TypeInv, session
<1>5. MapInv' /\ \A d \in Channels : Everything(d)' = Everything(d) /\ Safe(d)
  BY <1>1, <1>2 DEF MapInv, Everything, Safe, OnePerPosition
<1>6. ShownInv'
  <2> SUFFICES ASSUME NEW d \in Channels PROVE ShownAt(d)'
    BY DEF ShownInv
  <2>1. ShownAt(d)
    BY <1>2 DEF ShownInv
  <2>2. CASE d # c
    BY <1>1, <1>3, <2>1, <2>2, ShownKept
  <2>3. CASE d = c
    BY <1>1, <1>3, <2>1, <2>3 DEF ShownAt, Single
  <2> QED
    BY <2>2, <2>3
<1>7. SentInv'
  BY <1>1, <1>2, <1>5, SentKept DEF session
<1> QED
  BY <1>3, <1>4, <1>5, <1>6, <1>7 DEF IInv

LEMMA CreateDeleteKeeps ==
    ASSUME IInv, DoublePress
    PROVE  IInv'
<1>1. PICK c \in Channels, point \in Points : CreateDelete(c, point)
  BY DEF DoublePress
<1>2. UNCHANGED <<active, widget, clipBoard, session, screenPos, turned, notes>> /\ edited' = TRUE
  BY <1>1 DEF DoublePress, CreateDelete
<1>3. TypeInv /\ OfferedInv /\ MapInv /\ ShownInv /\ SentInv
  BY DEF IInv
<1> DEFINE s == select[c]
           i == SelectedAt(c, point)
           new == [Default[c] EXCEPT !.pos = point \div 2]
<1>4. point \in Int /\ i \in 0 .. Len(s) /\ s \in Seq(Placed) /\ Len(s) \in Nat
  BY <1>3, PointsAre, SelectedAtIs, ChannelTypes
<1>5. /\ select \in [Channels -> Seq(Placed)]
      /\ refresh \in [Channels -> BOOLEAN] /\ pasted \in [Channels -> BOOLEAN]
  BY <1>3 DEF TypeInv
<1>6. new \in Placed
  <2>1. Default[c] \in Note /\ screenPos \in Nat /\ point >= 2 * screenPos
    BY <1>1, <1>3, DefaultAssumption DEF TypeInv, CreateDelete
  <2>2. point \div 2 \in Int /\ point \div 2 >= -1
    BY <1>4, <2>1
  <2> HIDE DEF s, i
  <2> QED
    BY <2>1, <2>2 DEF Note, Placed
<1>7. SentInv' /\ MapInv' /\ OfferedInv'
  <2>1. MapInv'
    BY <1>2, <1>3 DEF MapInv, OnePerPosition
  <2>2. OfferedInv'
    BY <1>2, <1>3, OfferedKept
  <2> QED
    BY <1>2, <2>1, <2>2 DEF SentInv
<1>8. CASE i # 0 /\ select' = [select EXCEPT ![c] = RemoveAt(s, i)] /\ UNCHANGED <<refresh, pasted>>
  <2> DEFINE r == RemoveAt(s, i)
  <2>1. i \in 1 .. Len(s)
    BY <1>4, <1>8
  <2> HIDE DEF s, i
  <2>2. r \in Seq(Placed) /\ Len(r) = Len(s) - 1
    BY <1>4, <2>1, Removed
  <2>3. select' = [select EXCEPT ![c] = r]
    BY <1>8
  <2> HIDE DEF r
  <2>4. select' \in [Channels -> Seq(Placed)] /\ select'[c] = r
        /\ \A d \in Channels : d # c => select'[d] = select[d]
    BY <1>5, <2>2, <2>3
  <2>5. TypeInv'
    BY <1>2, <1>3, <1>8, <2>4 DEF TypeInv, session
  <2>6. ShownInv'
    <3> SUFFICES ASSUME NEW d \in Channels PROVE ShownAt(d)'
      BY DEF ShownInv
    <3>1. ShownAt(d)
      BY <1>3 DEF ShownInv
    <3>2. CASE d # c
      BY <1>2, <1>8, <2>4, <3>1, <3>2, ShownKept
    <3>3. CASE d = c
      <4>1. CASE Len(s) = 1
        <5>1. r = <<>>
          BY <2>2, <4>1
        <5> QED
          BY <2>4, <3>3, <5>1 DEF ShownAt
      <4>2. CASE Len(s) # 1
        <5>1. s # <<>> /\ ~Single(c)
          BY <1>4, <2>1, <4>2 DEF Single, s
        <5>2. refresh[c] \/ pasted[c]
          BY <3>1, <3>3, <5>1 DEF ShownAt, s
        <5> QED
          BY <1>8, <3>3, <5>2 DEF ShownAt
      <4> QED
        BY <4>1, <4>2
    <3> QED
      BY <3>2, <3>3
  <2> QED
    BY <1>7, <2>5, <2>6 DEF IInv
<1>9. CASE /\ select' = [select EXCEPT ![c] = Append(s, new)]
           /\ refresh' = [refresh EXCEPT ![c] = TRUE] /\ pasted' = [pasted EXCEPT ![c] = FALSE]
  <2> DEFINE r == Append(s, new)
  <2> HIDE DEF s, i, new
  <2>1. r \in Seq(Placed)
    BY <1>4, <1>6
  <2>2. select' = [select EXCEPT ![c] = r]
    BY <1>9
  <2> HIDE DEF r
  <2>3. select' \in [Channels -> Seq(Placed)]
        /\ \A d \in Channels : d # c => select'[d] = select[d]
    BY <1>5, <2>1, <2>2
  <2>4. refresh' \in [Channels -> BOOLEAN] /\ refresh'[c] /\ \A d \in Channels : d # c => refresh'[d] = refresh[d]
    BY <1>5, <1>9
  <2>5. pasted' \in [Channels -> BOOLEAN] /\ \A d \in Channels : d # c => pasted'[d] = pasted[d]
    BY <1>5, <1>9
  <2>6. TypeInv'
    BY <1>2, <1>3, <2>3, <2>4, <2>5 DEF TypeInv, session
  <2>7. ShownInv'
    <3> SUFFICES ASSUME NEW d \in Channels PROVE ShownAt(d)'
      BY DEF ShownInv
    <3>1. ShownAt(d)
      BY <1>3 DEF ShownInv
    <3>2. CASE d # c
      BY <1>2, <2>3, <2>4, <2>5, <3>1, <3>2, ShownKept
    <3>3. CASE d = c
      BY <2>4, <3>3 DEF ShownAt
    <3> QED
      BY <3>2, <3>3
  <2> QED
    BY <1>7, <2>6, <2>7 DEF IInv
<1> QED
  BY <1>1, <1>8, <1>9 DEF CreateDelete

-----------------------------------------------------------------------------
(* OnUpdate *)

LEMMA WrittenIs ==
    ASSUME TypeInv, NEW c \in Channels, NEW n \in Placed
    PROVE  LET m == Written(c, n)
           IN  /\ m \in Placed /\ m.pos = n.pos /\ m.length = n.length /\ m.freq = widget[c].freq
               /\ m.mode = IF HasCycle(c) THEN widget[c].mode ELSE n.mode
<1> DEFINE d == IF HasCycle(c) THEN widget[c].mode ELSE n.mode
<1>1. widget[c].freq \in Int /\ widget[c].mode \in Int /\ n.mode \in Int
  BY ChannelTypes, NoteFields
<1>2. d \in Int
  BY <1>1
<1>3. Written(c, n) = [n EXCEPT !.freq = widget[c].freq, !.mode = d]
  BY DEF Written
<1> HIDE DEF d
<1>4. LET m == [n EXCEPT !.freq = widget[c].freq, !.mode = d]
      IN  m \in Placed /\ m.pos = n.pos /\ m.length = n.length /\ m.freq = widget[c].freq /\ m.mode = d
  <2> DEFINE f == widget[c].freq
  <2>1. f \in Int
    BY <1>1
  <2> HIDE DEF f
  <2>2. LET m == [n EXCEPT !.freq = f, !.mode = d]
        IN  m \in Placed /\ m.pos = n.pos /\ m.length = n.length /\ m.freq = f /\ m.mode = d
    BY <1>2, <2>1 DEF Placed
  <2> QED
    BY <2>2 DEF f
<1> QED
  BY <1>3, <1>4 DEF d

\* The positions do not change, and one selected note is shown afterwards.
LEMMA UpdateIs ==
    ASSUME TypeInv, OfferedInv, OnUpdate, NEW c \in Channels
    PROVE  /\ notes'[c] = notes[c] /\ select'[c] \in Seq(Placed)
           /\ Len(select'[c]) = Len(select[c])
           /\ widget'[c] \in [freq : Int, mode : Int] /\ active'[c] \in BOOLEAN /\ refresh'[c] \in BOOLEAN
           /\ HasCycle(c) => widget'[c].mode \in ToSet(Offered[c])
           /\ \A i \in 1 .. Len(select[c]) : select'[c][i].pos = select[c][i].pos
           /\ Single(c) => Shown(c)'
           /\ ~Single(c) => select'[c] = select[c] /\ refresh'[c] = refresh[c]
           /\ ~WritesBack(c) => select'[c] = select[c]
           /\ WritesBack(c) => select'[c][1] = Written(c, select[c][1]) /\ widget'[c] = widget[c]
<1> DEFINE s == select[c]
           n == s[1]
<1>1. /\ notes' = notes
      /\ select'[c] = IF WritesBack(c) THEN <<Written(c, n)>> ELSE s
      /\ widget'[c] = IF Single(c) /\ refresh[c] THEN Showing(c, n) ELSE widget[c]
      /\ active'[c] = (Single(c) /\ (active[c] \/ refresh[c]))
      /\ refresh'[c] = (refresh[c] /\ ~Single(c))
  BY DEF OnUpdate
<1>2. s \in Seq(Placed) /\ Len(s) \in Nat /\ widget[c] \in [freq : Int, mode : Int]
  BY ChannelTypes
<1>3. refresh[c] \in BOOLEAN
  BY ChannelTypes
<1>4. Single(c) => Len(s) = 1 /\ n \in Placed
  BY <1>2 DEF Single
<1>5. active'[c] \in BOOLEAN /\ refresh'[c] \in BOOLEAN
  BY <1>1
<1>6. CASE Single(c) /\ refresh[c]
  <2>1. ~WritesBack(c) /\ select'[c] = s /\ widget'[c] = Showing(c, n)
    BY <1>1, <1>6 DEF WritesBack
  <2>2. n.freq \in Int /\ n.mode \in Int /\ widget[c].mode \in Int
    BY <1>2, <1>4, <1>6, NoteFields
  <2>3. /\ widget'[c] \in [freq : Int, mode : Int] /\ widget'[c].freq = n.freq
        /\ widget'[c].mode = IF n.mode \in ToSet(Offered[c]) THEN n.mode ELSE widget[c].mode
    BY <2>1, <2>2 DEF Showing
  <2>4. HasCycle(c) => widget'[c].mode \in ToSet(Offered[c])
    BY <2>3 DEF OfferedInv
  <2>5. Shown(c)'
    BY <2>1, <2>3 DEF Shown, HasCycle
  <2> QED
    BY <1>1, <1>2, <1>5, <1>6, <2>1, <2>3, <2>4, <2>5
<1>7. CASE WritesBack(c)
  <2> DEFINE w == Written(c, n)
  <2>1. Single(c) /\ ~refresh[c] /\ select'[c] = <<w>> /\ widget'[c] = widget[c]
    BY <1>1, <1>7 DEF WritesBack
  <2>2. /\ w \in Placed /\ w.pos = n.pos /\ w.freq = widget[c].freq
        /\ w.mode = IF HasCycle(c) THEN widget[c].mode ELSE n.mode
    BY <1>4, <2>1, WrittenIs
  <2> HIDE DEF w
  <2>3. <<w>> \in Seq(Placed) /\ Len(<<w>>) = 1 /\ <<w>>[1] = w
    BY <2>2, SmallSeqs
  <2>4. \A i \in 1 .. Len(s) : i = 1
    <3>1. Len(s) = 1
      BY <1>4, <2>1
    <3> HIDE DEF s
    <3> QED
      BY <3>1
  <2>5. Shown(c)'
    <3>1. select'[c][1] = w
      BY <2>1, <2>3
    <3> QED
      BY <2>1, <2>2, <3>1 DEF Shown, HasCycle
  <2>6. HasCycle(c) => widget'[c].mode \in ToSet(Offered[c])
    BY <2>1 DEF OfferedInv
  <2>7. select'[c] \in Seq(Placed) /\ Len(select'[c]) = Len(s) /\ select'[c][1] = w
    BY <1>4, <2>1, <2>3
  <2>8. \A i \in 1 .. Len(s) : select'[c][i].pos = s[i].pos
    BY <2>2, <2>4, <2>7
  <2> QED
    BY <1>1, <1>2, <1>5, <1>7, <2>1, <2>5, <2>6, <2>7, <2>8 DEF w
<1>8. CASE ~Single(c)
  <2>1. ~WritesBack(c) /\ select'[c] = s /\ widget'[c] = widget[c]
    BY <1>1, <1>8 DEF WritesBack
  <2>2. refresh'[c] = refresh[c]
    BY <1>1, <1>3, <1>8
  <2>3. HasCycle(c) => widget'[c].mode \in ToSet(Offered[c])
    BY <2>1 DEF OfferedInv
  <2> QED
    BY <1>1, <1>2, <1>5, <1>8, <2>1, <2>2, <2>3
<1> QED
  BY <1>6, <1>7, <1>8 DEF WritesBack

LEMMA ScrolledIs ==
    ASSUME NEW pos \in Nat, NEW screen \in Nat
    PROVE  Scrolled(pos, screen) \in Nat
<1> DEFINE q == ScreenWidth \div 4
           left == IF pos < screen THEN AtLeast(pos - q, 0) ELSE screen
<1>1. ScreenWidth \in Nat /\ q \in Nat
  BY BoundsAssumption
<1> HIDE DEF q
<1>2. left \in Nat
  BY <1>1 DEF AtLeast
<1>3. Scrolled(pos, screen) = IF left + ScreenWidth < pos THEN pos - ScreenWidth + q ELSE left
  BY DEF Scrolled, q
<1> HIDE DEF left
<1> QED
  BY <1>1, <1>2, <1>3

LEMMA UpdateKeepsInv ==
    ASSUME IInv, OnUpdate
    PROVE  IInv'
<1>1. TypeInv /\ OfferedInv /\ MapInv /\ ShownInv /\ SentInv
  BY DEF IInv
<1>2. /\ UNCHANGED <<notes, clipBoard, playingStartPos, mouse, inputs, pasted, edited>>
      /\ turned' = [c \in Channels |-> FALSE]
  BY DEF OnUpdate
<1> DEFINE plays == playingStatus /\ tickCounter
           ends == plays /\ End < currentPos
<1>3. /\ playingStatus' = (playingStatus /\ ~ends)
      /\ currentPos' = IF ends THEN playingStartPos ELSE IF plays THEN currentPos + 1 ELSE currentPos
      /\ screenPos' = Scrolled(currentPos', screenPos)
      /\ sent' = IF plays
                 THEN sent \cup {<<c, currentPos>> :
                          c \in {c \in Channels : \E n \in Everything(c) : n.pos = currentPos}}
                 ELSE sent
  BY DEF OnUpdate, Tick
<1>4. currentPos \in Nat /\ playingStartPos \in Nat /\ screenPos \in Nat
  BY <1>1 DEF TypeInv
<1>5. currentPos' \in Nat /\ screenPos' \in Nat
  <2> HIDE DEF ends, plays
  <2>1. currentPos' \in Nat
    BY <1>3, <1>4
  <2> QED
    BY <1>3, <1>4, <2>1, ScrolledIs
<1>6. ASSUME NEW c \in Channels
      PROVE  /\ notes'[c] = notes[c] /\ select'[c] \in Seq(Placed)
             /\ Len(select'[c]) = Len(select[c])
             /\ widget'[c] \in [freq : Int, mode : Int] /\ active'[c] \in BOOLEAN /\ refresh'[c] \in BOOLEAN
             /\ HasCycle(c) => widget'[c].mode \in ToSet(Offered[c])
             /\ \A i \in 1 .. Len(select[c]) : select'[c][i].pos = select[c][i].pos
             /\ Single(c) => Shown(c)'
             /\ ~Single(c) => select'[c] = select[c] /\ refresh'[c] = refresh[c]
  BY <1>1, UpdateIs
<1>7. TypeInv'
  <2>1. select' = [c \in Channels |-> select'[c]] /\ widget' = [c \in Channels |-> widget'[c]]
    BY DEF OnUpdate
  <2>2. active' = [c \in Channels |-> active'[c]] /\ refresh' = [c \in Channels |-> refresh'[c]]
    BY DEF OnUpdate
  <2>3. select' \in [Channels -> Seq(Placed)]
    BY <1>6, <2>1
  <2>4. widget' \in [Channels -> [freq : Int, mode : Int]]
    BY <1>6, <2>1
  <2>5. active' \in [Channels -> BOOLEAN] /\ refresh' \in [Channels -> BOOLEAN]
    BY <1>6, <2>2
  <2>6. turned' \in [Channels -> BOOLEAN]
    BY <1>2
  <2>7. playingStatus' \in BOOLEAN
    BY <1>3
  <2> QED
    BY <1>1, <1>2, <1>5, <2>3, <2>4, <2>5, <2>6, <2>7 DEF TypeInv
<1>8. OfferedInv' /\ MapInv'
  BY <1>1, <1>2, <1>6 DEF OfferedInv, HasCycle, MapInv, OnePerPosition
<1>9. ShownInv'
  <2> SUFFICES ASSUME NEW c \in Channels PROVE ShownAt(c)'
    BY DEF ShownInv
  <2>1. ShownAt(c)
    BY <1>1 DEF ShownInv
  <2>2. CASE Single(c)
    <3>1. Single(c)' /\ Shown(c)'
      BY <1>6, <2>2 DEF Single
    <3> QED
      BY <3>1 DEF ShownAt
  <2>3. CASE ~Single(c)
    BY <1>2, <1>6, <2>1, <2>3 DEF ShownAt
  <2> QED
    BY <2>2, <2>3
<1>10. ASSUME NEW c \in Channels, NEW n \in Everything(c)'
       PROVE  \E m \in Everything(c) : m.pos = n.pos
  <2>1. CASE n \in notes'[c]
    BY <1>6, <2>1 DEF Everything
  <2>2. CASE n \in ToSet(select'[c])
    <3>1. PICK i \in 1 .. Len(select'[c]) : select'[c][i] = n
      BY <1>6, <2>2, SetOf
    <3>2. i \in 1 .. Len(select[c]) /\ select[c][i].pos = n.pos
      BY <1>6, <3>1
    <3>3. select[c][i] \in ToSet(select[c])
      BY <1>1, <3>2, ChannelTypes, SetOf
    <3> QED
      BY <3>2, <3>3 DEF Everything
  <2> QED
    BY <1>10, <2>1, <2>2 DEF Everything
<1>11. SentInv'
  <2> SUFFICES ASSUME playingStatus', ~edited', NEW c \in Channels, NEW n \in Everything(c)',
                      playingStartPos' <= n.pos, n.pos < currentPos'
               PROVE  <<c, n.pos>> \in sent'
    BY DEF SentInv
  <2>1. PICK m \in Everything(c) : m.pos = n.pos
    BY <1>10
  <2>2. playingStatus /\ ~ends /\ ~edited
    BY <1>2, <1>3
  <2>3. m.pos \in Int
    BY <1>1, <2>1, ChannelTypes, NoteFields
  <2>4. m.pos < currentPos => <<c, m.pos>> \in sent
    BY <1>1, <1>2, <2>1, <2>2 DEF SentInv
  <2>5. CASE plays
    <3>1. currentPos' = currentPos + 1
      BY <1>3, <2>2, <2>5
    <3>2. m.pos < currentPos \/ m.pos = currentPos
      BY <1>4, <2>1, <2>3, <3>1
    <3>3. m.pos = currentPos => <<c, m.pos>> \in sent'
      BY <1>3, <2>1, <2>5
    <3> QED
      BY <1>3, <2>1, <2>4, <2>5, <3>2, <3>3
  <2>6. CASE ~plays
    BY <1>3, <2>1, <2>2, <2>4, <2>6
  <2> QED
    BY <2>5, <2>6
<1> QED
  BY <1>7, <1>8, <1>9, <1>11 DEF IInv

-----------------------------------------------------------------------------
(* The other events *)

LEMMA DragKeeps ==
    ASSUME IInv, Drag
    PROVE  IInv'
<1>1. TypeInv /\ OfferedInv /\ MapInv /\ ShownInv /\ SentInv
  BY DEF IInv
<1>2. /\ UNCHANGED <<notes, refresh, active, widget, clipBoard, session, screenPos, mouse, turned, pasted>>
      /\ edited' = TRUE
  BY DEF Drag
<1>3. PICK c \in Channels, by \in {-1, 1} :
         select' = [select EXCEPT ![c] = [i \in DOMAIN @ |->
                       IF selectionOnEdge THEN Stretched(@[i], by) ELSE Moved(@[i], by)]]
  BY DEF Drag
<1> DEFINE s == select[c]
           t == [i \in DOMAIN s |-> IF selectionOnEdge THEN Stretched(s[i], by) ELSE Moved(s[i], by)]
<1>4. select \in [Channels -> Seq(Placed)] /\ s \in Seq(Placed) /\ DOMAIN s = 1 .. Len(s) /\ Len(s) \in Nat
  BY <1>1, ChannelTypes DEF TypeInv
<1>5. ASSUME NEW i \in 1 .. Len(s)
      PROVE  t[i] \in Placed /\ t[i].freq = s[i].freq /\ t[i].mode = s[i].mode
  <2>1. s[i] \in Placed /\ by \in Int
    BY <1>4
  <2> DEFINE n == s[i]
  <2>2. t[i] = IF selectionOnEdge THEN Stretched(n, by) ELSE Moved(n, by)
    BY <1>4
  <2>3. n \in Placed
    BY <2>1
  <2> HIDE DEF n, t
  <2>4. n.pos \in Int /\ n.length \in Int
    BY <2>3, NoteFields
  <2>5. CASE selectionOnEdge
    <3> DEFINE l == AtLeast(n.length + by, 1)
    <3>1. l \in Int
      BY <2>1, <2>4 DEF AtLeast
    <3>2. t[i] = [n EXCEPT !.length = l]
      BY <2>2, <2>5 DEF Stretched
    <3> HIDE DEF l
    <3>3. t[i] \in Placed /\ t[i].freq = n.freq /\ t[i].mode = n.mode
      BY <2>3, <3>1, <3>2 DEF Placed
    <3> QED
      BY <3>3 DEF n
  <2>6. CASE ~selectionOnEdge
    <3> DEFINE p == AtLeast(n.pos + by, 0)
    <3>1. p \in Int /\ p >= -1
      BY <2>1, <2>4 DEF AtLeast
    <3>2. t[i] = [n EXCEPT !.pos = p]
      BY <2>2, <2>6 DEF Moved
    <3> HIDE DEF p
    <3>3. t[i] \in Placed /\ t[i].freq = n.freq /\ t[i].mode = n.mode
      BY <2>3, <3>1, <3>2 DEF Placed
    <3> QED
      BY <3>3 DEF n
  <2> QED
    BY <2>5, <2>6
<1>6. select' = [select EXCEPT ![c] = t]
  BY <1>3
<1>7. t \in Seq(Placed) /\ Len(t) = Len(s)
  <2>1. t = [i \in 1 .. Len(s) |-> t[i]]
    BY <1>4
  <2> HIDE DEF t
  <2>2. t \in [1 .. Len(s) -> Placed]
    BY <1>5, <2>1
  <2> QED
    BY <1>4, <2>2
<1> HIDE DEF t
<1>8. select' \in [Channels -> Seq(Placed)] /\ select'[c] = t
      /\ \A d \in Channels : d # c => select'[d] = select[d]
  BY <1>4, <1>6, <1>7
<1>9. TypeInv'
  BY <1>1, <1>2, <1>8 DEF TypeInv, session
<1>10. OfferedInv' /\ MapInv' /\ SentInv'
  <2>1. OfferedInv'
    BY <1>1, <1>2, OfferedKept
  <2>2. MapInv'
    BY <1>1, <1>2 DEF MapInv, OnePerPosition
  <2> QED
    BY <1>2, <2>1, <2>2 DEF SentInv
<1>11. ShownInv'
  <2> SUFFICES ASSUME NEW d \in Channels PROVE ShownAt(d)'
    BY DEF ShownInv
  <2>1. ShownAt(d)
    BY <1>1 DEF ShownInv
  <2>2. CASE d # c
    BY <1>2, <1>8, <2>1, <2>2, ShownKept
  <2>3. CASE d = c
    <3> SUFFICES ASSUME select'[c] # <<>>, ~refresh'[c], ~pasted'[c]
                 PROVE  Single(c)' /\ (turned'[c] \/ Shown(c)')
      BY <2>3 DEF ShownAt
    <3>1. s # <<>>
      <4>1. t # <<>>
        BY <1>8
      <4> HIDE DEF s
      <4> QED
        BY <1>4, <1>7, <4>1
    <3>2. Single(c) /\ (turned[c] \/ Shown(c))
      BY <1>2, <2>1, <2>3, <3>1 DEF ShownAt
    <3>3. Len(s) = 1
      BY <3>2 DEF Single
    <3>4. t[1].freq = s[1].freq /\ t[1].mode = s[1].mode
      <4>1. 1 \in 1 .. Len(s)
        BY <3>3
      <4> QED
        BY <1>5, <4>1
    <3>5. Single(c)' /\ (Shown(c) => Shown(c)')
      BY <1>2, <1>7, <1>8, <3>3, <3>4 DEF Single, Shown, HasCycle
    <3> QED
      BY <1>2, <3>2, <3>5
  <2> QED
    BY <2>2, <2>3
<1> QED
  BY <1>9, <1>10, <1>11 DEF IInv

LEMMA FlattenAllIs ==
    ASSUME TypeInv, MapInv, FlattenAll
    PROVE  /\ notes' \in [Channels -> SUBSET Placed] /\ MapInv'
           /\ \A c \in Channels :
                 /\ notes'[c] \in SUBSET Everything(c)
                 /\ \A n \in Everything(c) : Alone(c, n) => n \in notes'[c]
<1>1. notes' = [c \in Channels |-> Flattened(notes[c], select[c])]
  BY DEF FlattenAll
<1>2. ASSUME NEW c \in Channels
      PROVE  LET F == Flattened(notes[c], select[c])
             IN  /\ F \in SUBSET Everything(c)
                 /\ F \in SUBSET Placed /\ IsFiniteSet(F) /\ OnePerPosition(F)
                 /\ \A n \in notes[c] : (\A m \in ToSet(select[c]) : m.pos # n.pos) => n \in F
                 /\ \A n \in ToSet(select[c]) : \E m \in ToSet(select[c]) : m.pos = n.pos /\ m \in F
  <2>1. notes[c] \in SUBSET Placed /\ select[c] \in Seq(Placed) /\ IsFiniteSet(notes[c]) /\ OnePerPosition(notes[c])
    BY ChannelTypes DEF MapInv
  <2> QED
    BY <2>1, FlattenedIs DEF Everything
<1>3. notes' \in [Channels -> SUBSET Placed]
  BY <1>1, <1>2
<1>4. MapInv'
  BY <1>1, <1>2 DEF MapInv
<1>5. ASSUME NEW c \in Channels, NEW n \in Everything(c), Alone(c, n)
      PROVE  n \in notes'[c]
  <2>1. n \notin notes[c] \/ n \notin ToSet(select[c])
    BY <1>5 DEF Alone
  <2>2. \A m \in Everything(c) : m # n => m.pos # n.pos
    BY <1>5 DEF Alone
  <2>3. CASE n \in notes[c]
    <3>1. \A m \in ToSet(select[c]) : m.pos # n.pos
      BY <2>1, <2>2, <2>3 DEF Everything
    <3> QED
      BY <1>1, <1>2, <2>3, <3>1
  <2>4. CASE n \in ToSet(select[c])
    <3>1. PICK m \in ToSet(select[c]) : m.pos = n.pos /\ m \in Flattened(notes[c], select[c])
      BY <1>2, <2>4
    <3> QED
      BY <1>1, <2>2, <3>1 DEF Everything
  <2> QED
    BY <1>5, <2>3, <2>4 DEF Everything
<1>6. \A c \in Channels : notes'[c] \in SUBSET Everything(c)
  BY <1>1, <1>2
<1> QED
  BY <1>3, <1>4, <1>5, <1>6

LEMMA NoneSelectedIs ==
    ASSUME select' = NoneSelected
    PROVE  /\ select' \in [Channels -> Seq(Placed)] /\ ShownInv'
           /\ \A c \in Channels : Everything(c)' = notes'[c]
<1>1. \A c \in Channels : select'[c] = <<>> /\ ToSet(select'[c]) = {}
  BY DEF NoneSelected, ToSet
<1>2. <<>> \in Seq(Placed)
  OBVIOUS
<1>3. select' \in [Channels -> Seq(Placed)]
  BY <1>2 DEF NoneSelected
<1>4. ShownInv'
  BY <1>1 DEF ShownInv, ShownAt
<1> QED
  BY <1>1, <1>3, <1>4 DEF Everything

LEMMA SaveKeeps ==
    ASSUME IInv, Save
    PROVE  IInv' /\ \A c \in Channels : Safe(c)
<1>1. TypeInv /\ OfferedInv /\ MapInv /\ ShownInv /\ SentInv
  BY DEF IInv
<1>2. /\ FlattenAll /\ select' = NoneSelected
      /\ UNCHANGED <<refresh, active, widget, clipBoard, session, screenPos, turned, pasted, edited>>
  BY DEF Save
<1>3. /\ notes' \in [Channels -> SUBSET Placed] /\ MapInv'
      /\ \A c \in Channels :
            /\ notes'[c] \in SUBSET Everything(c)
            /\ \A n \in Everything(c) : Alone(c, n) => n \in notes'[c]
  BY <1>1, <1>2, FlattenAllIs
<1>4. select' \in [Channels -> Seq(Placed)] /\ ShownInv' /\ \A c \in Channels : Everything(c)' = notes'[c]
  BY <1>2, NoneSelectedIs
<1>5. TypeInv'
  BY <1>1, <1>2, <1>3, <1>4 DEF TypeInv, session
<1>6. OfferedInv'
  BY <1>1, <1>2, OfferedKept
<1>7. SentInv'
  BY <1>1, <1>2, <1>3, <1>4, SentKept DEF session
<1> QED
  BY <1>3, <1>4, <1>5, <1>6, <1>7 DEF IInv, Safe

\* What a file that is taken makes of a channel.
LEMMA NotesOfIs ==
    ASSUME NEW f, WellFormed(f), Valid(f), NEW c
    PROVE  /\ NotesOf(f, c) \in SUBSET Placed /\ IsFiniteSet(NotesOf(f, c)) /\ OnePerPosition(NotesOf(f, c))
           /\ \A n \in NotesOf(f, c) : \E i \in 1 .. f.size :
                 f.records[i].channel = c /\ f.records[i] = LineOf(c, n)
<1> DEFINE r == f.records
           IsFirst(i) == \A j \in 1 .. i - 1 : r[j].channel = c => r[j].position # r[i].position
           I == {i \in 1 .. f.size : r[i].channel = c /\ IsFirst(i)}
           g == [i \in I |-> [pos |-> r[i].position, length |-> r[i].length, freq |-> r[i].freq,
                              mode |-> r[i].mode]]
           S == {g[i] : i \in I}
<1>1. f.size \in Int /\ r \in Seq(Line) /\ \A i \in 1 .. f.size : i \in DOMAIN r /\ r[i].position >= -1
  BY DEF WellFormed, Valid, Readable, lastPos
<1>2. NotesOf(f, c) = S
  BY DEF NotesOf
<1>3. ASSUME NEW i \in 1 .. f.size
      PROVE  r[i] \in Line /\ r[i].position >= -1 /\ i \in Int
  BY <1>1
<1>4. I \in SUBSET (1 .. f.size)
  OBVIOUS
<1>5. \A i \in I : r[i].channel = c /\ \A j \in 1 .. i - 1 : r[j].channel = c => r[j].position # r[i].position
  OBVIOUS
<1> HIDE DEF I
<1>6. ASSUME NEW i \in I
      PROVE  /\ g[i] \in Placed /\ g[i].pos = r[i].position
             /\ r[i] = LineOf(c, g[i])
  <2>1. r[i] \in Line /\ r[i].position >= -1 /\ r[i].channel = c
    BY <1>3, <1>4, <1>5
  <2> DEFINE q == r[i]
  <2>2. g[i] = [pos |-> q.position, length |-> q.length, freq |-> q.freq, mode |-> q.mode]
    OBVIOUS
  <2>3. q \in Line /\ q.position >= -1 /\ q.channel = c
    BY <2>1
  <2> HIDE DEF q, g
  <2>4. g[i] \in Placed /\ g[i].pos = q.position
    BY <2>2, <2>3 DEF Line, Placed
  <2>5. q = LineOf(c, g[i])
    BY <2>2, <2>3 DEF Line, LineOf
  <2> QED
    BY <2>4, <2>5 DEF q
<1>7. DOMAIN g = I /\ g = [i \in I |-> g[i]]
  OBVIOUS
<1> HIDE DEF g
<1>8. IsFiniteSet(S)
  <2>1. IsFiniteSet(1 .. f.size)
    <3>1. 1 \in Int
      OBVIOUS
    <3> QED
      BY <1>1, <3>1, FS_Interval
  <2>2. IsFiniteSet(I)
    BY <1>4, <2>1, FS_Subset
  <2> QED
    BY <1>7, <2>2, FiniteImage
<1>9. ASSUME NEW i \in I, NEW j \in I, g[i].pos = g[j].pos
      PROVE  i = j
  <2>1. i \in 1 .. f.size /\ j \in 1 .. f.size /\ i \in Int /\ j \in Int
    BY <1>3, <1>4
  <2>2. r[i].position = r[j].position /\ r[i].channel = c /\ r[j].channel = c
    BY <1>5, <1>6, <1>9
  <2>3. j \notin 1 .. i - 1 /\ i \notin 1 .. j - 1
    BY <1>5, <2>2
  <2> QED
    BY <2>1, <2>3
<1>10. OnePerPosition(S)
  BY <1>9 DEF OnePerPosition
<1>11. S \in SUBSET Placed
  BY <1>6
<1>12. \A n \in S : \E i \in 1 .. f.size : r[i].channel = c /\ r[i] = LineOf(c, n)
  BY <1>4, <1>5, <1>6
<1> QED
  BY <1>2, <1>8, <1>10, <1>11, <1>12

LEMMA LoadKeeps ==
    ASSUME IInv, Load
    PROVE  IInv'
<1>1. TypeInv /\ OfferedInv /\ MapInv /\ ShownInv /\ SentInv
  BY DEF IInv
<1>2. UNCHANGED <<refresh, active, widget, clipBoard, tickCounter, playingStartPos, sent, turned, pasted, edited>>
  BY DEF Load
<1>3. PICK f \in Files \cup (IF select = NoneSelected THEN {Encoding} ELSE {}) :
         \/ /\ Loads(f)
            /\ notes' = [c \in Channels |-> NotesOf(f, c)]
            /\ select' = NoneSelected
            /\ currentPos' = 0 /\ screenPos' = 0 /\ playingStatus' = FALSE
         \/ /\ ~Loads(f)
            /\ UNCHANGED <<notes, select, currentPos, screenPos, playingStatus>>
  BY DEF Load
<1>4. WellFormed(f)
  <2>1. CASE f \in Files
    BY <2>1, FilesAssumption DEF WellFormed, Line
  <2>2. CASE f = Encoding
    BY <1>1, <2>2, RecordsAre, EncodingIs
  <2> QED
    BY <2>1, <2>2
<1>5. OfferedInv'
  BY <1>1, <1>2, OfferedKept
<1>6. CASE Loads(f) /\ notes' = [c \in Channels |-> NotesOf(f, c)] /\ select' = NoneSelected
           /\ currentPos' = 0 /\ screenPos' = 0 /\ playingStatus' = FALSE
  <2>1. \A c \in Channels : NotesOf(f, c) \in SUBSET Placed /\ IsFiniteSet(NotesOf(f, c))
                            /\ OnePerPosition(NotesOf(f, c))
    BY <1>4, <1>6, NotesOfIs DEF Loads
  <2>2. notes' \in [Channels -> SUBSET Placed] /\ MapInv'
    BY <1>6, <2>1 DEF MapInv
  <2>3. select' \in [Channels -> Seq(Placed)] /\ ShownInv'
    BY <1>6, NoneSelectedIs
  <2>4. TypeInv'
    BY <1>1, <1>2, <1>6, <2>2, <2>3 DEF TypeInv
  <2>5. SentInv'
    BY <1>6 DEF SentInv
  <2> QED
    BY <1>5, <2>2, <2>3, <2>4, <2>5 DEF IInv
<1>7. CASE ~Loads(f) /\ UNCHANGED <<notes, select, currentPos, screenPos, playingStatus>>
  <2>1. TypeInv'
    BY <1>1, <1>2, <1>7 DEF TypeInv
  <2>2. MapInv'
    BY <1>1, <1>7 DEF MapInv, OnePerPosition
  <2>3. ShownInv'
    BY <1>1, <1>2, <1>7, ShownKept DEF ShownInv
  <2>4. \A c \in Channels : Everything(c)' = Everything(c)
    BY <1>7 DEF Everything
  <2>5. SentInv'
    BY <1>1, <1>2, <1>7, <2>4, SentKept
  <2> QED
    BY <1>5, <2>1, <2>2, <2>3, <2>5 DEF IInv
<1> QED
  BY <1>3, <1>6, <1>7

\* Events that leave notes, selection and sliders alone.
LEMMA RestKeeps ==
    ASSUME IInv,
           UNCHANGED <<notes, select, refresh, active, widget, turned, pasted>>,
           clipBoard' \in [Channels -> Seq(Copied)],
           currentPos' \in Nat /\ screenPos' \in Nat /\ playingStartPos' \in Nat,
           playingStatus' \in BOOLEAN /\ edited' \in BOOLEAN,
           SentInv'
    PROVE  IInv' /\ \A c \in Channels : Safe(c)
<1>1. TypeInv /\ OfferedInv /\ MapInv /\ ShownInv
  BY DEF IInv
<1>2. TypeInv'
  BY <1>1 DEF TypeInv
<1>3. OfferedInv' /\ MapInv'
  BY <1>1, OfferedKept DEF MapInv, OnePerPosition
<1>4. ShownInv'
  BY <1>1, ShownKept DEF ShownInv
<1> QED
  BY <1>2, <1>3, <1>4 DEF IInv, Safe, Everything

LEMMA NothingKeeps ==
    ASSUME IInv, PressNothing \/ Release
    PROVE  IInv' /\ \A c \in Channels : Safe(c)
<1>1. UNCHANGED <<notes, select, refresh, active, widget, clipBoard, session, screenPos, turned, pasted, edited>>
  BY DEF PressNothing, Release
<1>2. TypeInv /\ SentInv
  BY DEF IInv
<1>3. SentInv'
  BY <1>1, <1>2, SentKept DEF session, Everything
<1>4. UNCHANGED <<currentPos, playingStatus, playingStartPos>>
  BY <1>1 DEF session
<1>5. playingStatus' \in BOOLEAN /\ edited' \in BOOLEAN
  BY <1>1, <1>2, <1>4 DEF TypeInv
<1>6. /\ clipBoard' \in [Channels -> Seq(Copied)]
      /\ currentPos' \in Nat /\ screenPos' \in Nat /\ playingStartPos' \in Nat
  BY <1>1, <1>2, <1>4 DEF TypeInv
<1> QED
  BY <1>1, <1>3, <1>5, <1>6, RestKeeps

LEMMA SeekKeeps ==
    ASSUME IInv, Seek
    PROVE  IInv' /\ \A c \in Channels : Safe(c)
<1>1. /\ UNCHANGED <<notes, select, refresh, active, widget, clipBoard, screenPos, playingStatus,
                     tickCounter, playingStartPos, sent, turned, pasted, edited>>
      /\ ~playingStatus /\ currentPos' \in 0 .. MaxPosition
  BY DEF Seek
<1>2. TypeInv
  BY DEF IInv
<1>3. SentInv'
  BY <1>1 DEF SentInv
<1>4. playingStatus' \in BOOLEAN /\ edited' \in BOOLEAN
  BY <1>1, <1>2 DEF TypeInv
<1>5. /\ clipBoard' \in [Channels -> Seq(Copied)]
      /\ currentPos' \in Nat /\ screenPos' \in Nat /\ playingStartPos' \in Nat
  BY <1>1, <1>2 DEF TypeInv
<1> QED
  BY <1>1, <1>3, <1>4, <1>5, RestKeeps

LEMMA PlayStopKeeps ==
    ASSUME IInv, PlayStop
    PROVE  IInv' /\ \A c \in Channels : Safe(c)
<1>1. /\ UNCHANGED <<notes, select, refresh, active, widget, clipBoard, screenPos, tickCounter, turned, pasted>>
      /\ playingStatus' = ~playingStatus /\ sent' = {} /\ edited' = FALSE
      /\ \/ playingStatus /\ currentPos' = playingStartPos /\ playingStartPos' = playingStartPos
         \/ ~playingStatus /\ playingStartPos' = currentPos /\ currentPos' = currentPos
  BY DEF PlayStop
<1>2. TypeInv
  BY DEF IInv
<1>3. playingStatus' \in BOOLEAN /\ edited' \in BOOLEAN
  BY <1>1
<1>4. /\ clipBoard' \in [Channels -> Seq(Copied)]
      /\ currentPos' \in Nat /\ screenPos' \in Nat /\ playingStartPos' \in Nat
  BY <1>1, <1>2 DEF TypeInv
<1>5. SentInv'
  <2> SUFFICES ASSUME playingStatus', NEW c \in Channels, NEW n \in Everything(c)',
                      playingStartPos' <= n.pos, n.pos < currentPos'
               PROVE  FALSE
    BY DEF SentInv
  <2>1. n \in Everything(c)
    BY <1>1 DEF Everything
  <2>2. n.pos \in Int
    BY <1>2, <2>1, ChannelTypes, NoteFields
  <2>3. playingStartPos' = currentPos'
    BY <1>1
  <2> QED
    BY <1>4, <2>2, <2>3
<1> QED
  BY <1>1, <1>3, <1>4, <1>5, RestKeeps

LEMMA ClipIs ==
    ASSUME TypeInv
    PROVE  Clip \in [Channels -> Seq(Copied)]
<1> DEFINE clip(c) == [i \in DOMAIN select[c] |-> [select[c][i] EXCEPT !.pos = @ - First(c)]]
<1>1. Clip = [c \in Channels |-> clip(c)]
  BY DEF Clip
<1>2. ASSUME NEW c \in Channels
      PROVE  clip(c) \in Seq(Copied)
  <2> DEFINE s == select[c]
             P == {n.pos : n \in ToSet(s)}
  <2>1. /\ s \in Seq(Placed) /\ DOMAIN s = 1 .. Len(s) /\ Len(s) \in Nat
        /\ ToSet(s) \in SUBSET Placed /\ IsFiniteSet(ToSet(s))
    BY ChannelTypes, SetOf
  <2>2. First(c) = CHOOSE p \in P : \A n \in ToSet(s) : p <= n.pos
    BY DEF First
  <2> HIDE DEF s
  <2>3. IsFiniteSet(P)
    <3> DEFINE f == [n \in ToSet(s) |-> n.pos]
    <3>1. DOMAIN f = ToSet(s) /\ f = [n \in ToSet(s) |-> f[n]] /\ {f[n] : n \in ToSet(s)} = P
      OBVIOUS
    <3> HIDE DEF f, P
    <3>2. IsFiniteSet({f[n] : n \in ToSet(s)})
      BY <2>1, <3>1, FiniteImage
    <3> QED
      BY <3>1, <3>2
  <2>4. \A n \in ToSet(s) : n.pos \in Int /\ n.pos \in P
    BY <2>1, NoteFields
  <2>5. P \in SUBSET Int
    BY <2>4
  <2>6. ASSUME NEW i \in 1 .. Len(s)
        PROVE  [s[i] EXCEPT !.pos = @ - First(c)] \in Copied
    <3>1. s[i] \in ToSet(s) /\ s[i] \in Placed
      BY <2>1, SetOf
    <3>2. P # {}
      BY <2>4, <3>1
    <3>3. PICK x \in P : \A y \in P : x <= y
      <4> HIDE DEF P
      <4> QED
        BY <2>3, <2>5, <3>2, Extremes
    <3>4. First(c) \in P /\ \A n \in ToSet(s) : First(c) <= n.pos
      <4>1. \A n \in ToSet(s) : x <= n.pos
        BY <2>4, <3>3
      <4> HIDE DEF P
      <4> QED
        BY <2>2, <4>1
    <3> DEFINE n == s[i]
               p == n.pos - First(c)
    <3>5. n.pos \in Int /\ p \in Nat
      <4> HIDE DEF P
      <4>1. First(c) \in Int
        BY <2>5, <3>4
      <4>2. n.pos \in Int /\ First(c) <= n.pos
        BY <2>4, <3>1, <3>4
      <4> QED
        BY <4>1, <4>2
    <3>6. n \in Placed
      BY <3>1
    <3>7. [n EXCEPT !.pos = n.pos - First(c)] = [n EXCEPT !.pos = p]
      OBVIOUS
    <3> HIDE DEF n, p
    <3>8. [n EXCEPT !.pos = p] \in Copied
      BY <3>5, <3>6 DEF Placed, Copied
    <3> QED
      BY <3>7, <3>8 DEF n
  <2>7. clip(c) = [i \in 1 .. Len(s) |-> clip(c)[i]] /\ \A i \in 1 .. Len(s) : clip(c)[i] \in Copied
    BY <2>1, <2>6 DEF s
  <2> HIDE DEF clip
  <2>8. clip(c) \in [1 .. Len(s) -> Copied]
    BY <2>7
  <2> QED
    BY <2>1, <2>8
<1> HIDE DEF clip
<1> QED
  BY <1>1, <1>2

LEMMA CopyKeeps ==
    ASSUME IInv, Copy
    PROVE  IInv' /\ \A c \in Channels : Safe(c)
<1>1. /\ UNCHANGED <<notes, select, refresh, active, widget, session, screenPos, turned, pasted, edited>>
      /\ clipBoard' = IF select = NoneSelected THEN clipBoard ELSE Clip
  BY DEF Copy
<1>2. TypeInv /\ SentInv
  BY DEF IInv
<1>3. SentInv'
  BY <1>1, <1>2, SentKept DEF session, Everything
<1>4. UNCHANGED <<currentPos, playingStatus, playingStartPos>>
  BY <1>1 DEF session
<1>5. playingStatus' \in BOOLEAN /\ edited' \in BOOLEAN
  BY <1>1, <1>2, <1>4 DEF TypeInv
<1>6. clipBoard' \in [Channels -> Seq(Copied)]
  BY <1>1, <1>2, ClipIs DEF TypeInv
<1>7. currentPos' \in Nat /\ screenPos' \in Nat /\ playingStartPos' \in Nat
  BY <1>1, <1>2, <1>4 DEF TypeInv
<1> QED
  BY <1>1, <1>3, <1>5, <1>6, <1>7, RestKeeps

LEMMA PasteKeeps ==
    ASSUME IInv, Paste
    PROVE  IInv' /\ \A c \in Channels : Safe(c)
<1>1. TypeInv /\ OfferedInv /\ MapInv /\ ShownInv /\ SentInv
  BY DEF IInv
<1>2. /\ FlattenAll
      /\ select' = [c \in Channels |-> Pasted(c)]
      /\ pasted' = [c \in Channels |-> Pasted(c) # <<>>]
      /\ edited' = TRUE
      /\ UNCHANGED <<refresh, active, widget, clipBoard, session, screenPos, turned>>
  BY DEF Paste
<1>3. /\ notes' \in [Channels -> SUBSET Placed] /\ MapInv'
      /\ \A c \in Channels : \A n \in Everything(c) : Alone(c, n) => n \in notes'[c]
  BY <1>1, <1>2, FlattenAllIs
<1>4. ASSUME NEW c \in Channels
      PROVE  Pasted(c) \in Seq(Placed)
  <2> DEFINE s == clipBoard[c]
  <2>1. s \in Seq(Copied) /\ currentPos \in Nat
    BY <1>1 DEF TypeInv
  <2>2. Pasted(c) = [i \in DOMAIN s |-> [s[i] EXCEPT !.pos = @ + currentPos]]
    BY DEF Pasted
  <2> HIDE DEF s
  <2>3. DOMAIN s = 1 .. Len(s) /\ Len(s) \in Nat
    BY <2>1
  <2>4. ASSUME NEW i \in 1 .. Len(s)
        PROVE  [s[i] EXCEPT !.pos = @ + currentPos] \in Placed
    <3> DEFINE n == s[i]
               p == n.pos + currentPos
    <3>1. n \in Copied
      BY <2>1, <2>3
    <3>2. [s[i] EXCEPT !.pos = @ + currentPos] = [n EXCEPT !.pos = p]
      OBVIOUS
    <3> HIDE DEF n
    <3>3. p \in Int /\ p >= -1
      BY <2>1, <3>1, NoteFields
    <3> HIDE DEF p
    <3>4. [n EXCEPT !.pos = p] \in Placed
      BY <3>1, <3>3 DEF Placed, Copied
    <3> QED
      BY <3>2, <3>4
  <2>5. Pasted(c) \in [1 .. Len(s) -> Placed]
    BY <2>2, <2>3, <2>4
  <2> QED
    BY <2>3, <2>5
<1>5. select' \in [Channels -> Seq(Placed)] /\ pasted' \in [Channels -> BOOLEAN]
  BY <1>2, <1>4
<1>6. TypeInv'
  BY <1>1, <1>2, <1>3, <1>5 DEF TypeInv, session
<1>7. OfferedInv'
  BY <1>1, <1>2, OfferedKept
<1>8. ShownInv'
  BY <1>2 DEF ShownInv, ShownAt
<1>9. SentInv'
  BY <1>2 DEF SentInv
<1> QED
  BY <1>3, <1>6, <1>7, <1>8, <1>9 DEF IInv, Safe

-----------------------------------------------------------------------------
(* The invariant holds *)

LEMMA InitInv == Init => IInv
<1> SUFFICES ASSUME Init PROVE IInv
  OBVIOUS
<1>1. <<>> \in Seq(Placed) /\ <<>> \in Seq(Copied)
  OBVIOUS
<1>2. /\ notes \in [Channels -> SUBSET Placed] /\ select \in [Channels -> Seq(Placed)]
      /\ clipBoard \in [Channels -> Seq(Copied)]
  BY <1>1 DEF Init, NoneSelected
<1>3. /\ refresh \in [Channels -> BOOLEAN] /\ active \in [Channels -> BOOLEAN]
      /\ turned \in [Channels -> BOOLEAN] /\ pasted \in [Channels -> BOOLEAN]
      /\ playingStatus \in BOOLEAN /\ edited \in BOOLEAN
  BY DEF Init
<1>4. ASSUME NEW c \in Channels
      PROVE  /\ widget[c] \in [freq : Int, mode : Int]
             /\ HasCycle(c) => widget[c].mode \in ToSet(Offered[c])
  <2>1. Default[c].freq \in Int /\ Offered[c] \in Seq(Int)
    BY DefaultAssumption, OfferedAssumption DEF Note
  <2>2. widget[c] = [freq |-> Default[c].freq, mode |-> IF HasCycle(c) THEN Offered[c][1] ELSE 0]
    BY DEF Init
  <2>3. CASE HasCycle(c)
    <3>1. Offered[c][1] \in Int /\ Offered[c][1] \in ToSet(Offered[c])
      <4> DEFINE o == Offered[c]
      <4>1. o \in Seq(Int) /\ o # <<>>
        BY <2>1, <2>3 DEF HasCycle
      <4> HIDE DEF o
      <4>2. 1 \in 1 .. Len(o)
        BY <4>1
      <4>3. o[1] \in Int /\ o[1] \in ToSet(o)
        BY <4>1, <4>2, SetOf
      <4> QED
        BY <4>3 DEF o
    <3> QED
      BY <2>1, <2>2, <2>3, <3>1
  <2>4. CASE ~HasCycle(c)
    BY <2>1, <2>2, <2>4
  <2> QED
    BY <2>3, <2>4
<1>5. widget \in [Channels -> [freq : Int, mode : Int]]
  <2>1. widget = [c \in Channels |-> widget[c]]
    BY DEF Init
  <2> QED
    BY <1>4, <2>1
<1>6. TypeInv
  BY <1>2, <1>3, <1>5 DEF TypeInv, Init
<1>7. OfferedInv
  BY <1>4 DEF OfferedInv
<1>8. MapInv
  BY FS_EmptySet DEF Init, MapInv, OnePerPosition
<1>9. ShownInv
  BY DEF Init, NoneSelected, ShownInv, ShownAt
<1>10. SentInv
  BY DEF Init, SentInv
<1> QED
  BY <1>6, <1>7, <1>8, <1>9, <1>10 DEF IInv

LEMMA StutterKeeps ==
    ASSUME IInv, UNCHANGED vars
    PROVE  IInv'
<1>1. /\ UNCHANGED <<notes, select, refresh, active, widget, turned, pasted, clipBoard, screenPos, edited>>
      /\ UNCHANGED <<currentPos, playingStatus, playingStartPos, sent>>
  BY DEF vars, session
<1>2. TypeInv /\ SentInv
  BY DEF IInv
<1>3. SentInv'
  BY <1>1, <1>2, SentKept DEF Everything
<1>4. playingStatus' \in BOOLEAN /\ edited' \in BOOLEAN
  BY <1>1, <1>2 DEF TypeInv
<1>5. /\ clipBoard' \in [Channels -> Seq(Copied)]
      /\ currentPos' \in Nat /\ screenPos' \in Nat /\ playingStartPos' \in Nat
  BY <1>1, <1>2 DEF TypeInv
<1> QED
  BY <1>1, <1>3, <1>4, <1>5, RestKeeps

LEMMA NextInv == IInv /\ [Next]_vars => IInv'
<1> SUFFICES ASSUME IInv, [Next]_vars PROVE IInv'
  OBVIOUS
<1>1. CASE OnUpdate
  BY <1>1, UpdateKeepsInv
<1>2. CASE Press
  BY <1>2, PressKeeps
<1>3. CASE DoublePress
  BY <1>3, CreateDeleteKeeps
<1>4. CASE PressNothing \/ Release
  BY <1>4, NothingKeeps
<1>5. CASE Drag
  BY <1>5, DragKeeps
<1>6. CASE Slide \/ CycleClick
  BY <1>6, TurnKeeps
<1>7. CASE TypeFreq
  BY <1>7, TypeFreqKeeps
<1>8. CASE Save
  BY <1>8, SaveKeeps
<1>9. CASE Load
  BY <1>9, LoadKeeps
<1>10. CASE Seek
  BY <1>10, SeekKeeps
<1>11. CASE PlayStop
  BY <1>11, PlayStopKeeps
<1>12. CASE Copy
  BY <1>12, CopyKeeps
<1>13. CASE Paste
  BY <1>13, PasteKeeps
<1>14. CASE UNCHANGED vars
  BY <1>14, StutterKeeps
<1> QED
  BY <1>1, <1>2, <1>3, <1>4, <1>5, <1>6, <1>7, <1>8, <1>9, <1>10, <1>11, <1>12, <1>13, <1>14 DEF Next

\* Whatever the events, maps and selections hold notes at positions a file can
\* have, sliders show what they offer, one note alone is shown or will be, and
\* the playback has passed no note without playing it.
THEOREM SfxInvariant == Spec => []IInv
  BY InitInv, NextInv, PTL DEF Spec

-----------------------------------------------------------------------------
(* The sliders *)

LEMMA KeptIs ==
    ASSUME NEW c, NEW n \in Placed, NEW m \in Placed,
           m.pos = n.pos, m.length = n.length, m.freq = n.freq,
           m.mode = n.mode \/ (HasCycle(c) /\ n.mode \notin ToSet(Offered[c]))
    PROVE  Kept(c, n, m)
<1>1. CASE HasCycle(c) /\ n.mode \notin ToSet(Offered[c])
  <2> DEFINE k == [n EXCEPT !.mode = m.mode]
  <2>1. m.mode \in Int
    BY NoteFields
  <2>2. k \in Placed /\ k.pos = n.pos /\ k.length = n.length /\ k.freq = n.freq /\ k.mode = m.mode
    BY <2>1 DEF Placed
  <2> HIDE DEF k
  <2>3. m = k
    BY <2>2, NoteFields
  <2> QED
    BY <1>1, <2>3 DEF Kept, k
<1>2. CASE ~(HasCycle(c) /\ n.mode \notin ToSet(Offered[c]))
  <2>1. m = n
    BY <1>2, NoteFields
  <2> QED
    BY <1>2, <2>1 DEF Kept
<1> QED
  BY <1>1, <1>2

LEMMA UpdateKeepsNote ==
    ASSUME IInv, OnUpdate, NEW c \in Channels, ~turned[c], ~pasted[c], NEW i \in DOMAIN select[c]
    PROVE  Kept(c, select[c][i], select'[c][i])
<1>1. TypeInv /\ OfferedInv /\ ShownAt(c)
  BY DEF IInv, ShownInv
<1> DEFINE s == select[c]
           n == s[i]
           m == select'[c][i]
<1>2. s \in Seq(Placed) /\ DOMAIN s = 1 .. Len(s) /\ Len(s) \in Nat
  BY <1>1, ChannelTypes
<1>3. i \in 1 .. Len(s) /\ n \in Placed
  BY <1>2
<1>4. CASE WritesBack(c)
  <2>1. Single(c) /\ ~refresh[c]
    BY <1>4 DEF WritesBack
  <2>2. Len(s) = 1 /\ s # <<>>
    BY <1>2, <2>1 DEF Single
  <2>3. i = 1
    <3> HIDE DEF s
    <3> QED
      BY <1>3, <2>2
  <2>4. Shown(c)
    BY <1>1, <2>1, <2>2 DEF ShownAt
  <2>5. m = Written(c, n)
    BY <1>1, <1>4, <2>3, UpdateIs
  <2>6. /\ m \in Placed /\ m.pos = n.pos /\ m.length = n.length /\ m.freq = widget[c].freq
        /\ m.mode = IF HasCycle(c) THEN widget[c].mode ELSE n.mode
    <3> HIDE DEF n, m
    <3> QED
      BY <1>1, <1>3, <2>5, WrittenIs
  <2>7. n.freq = widget[c].freq /\ (HasCycle(c) /\ n.mode \in ToSet(Offered[c]) => widget[c].mode = n.mode)
    BY <2>3, <2>4 DEF Shown
  <2> HIDE DEF n, m
  <2> QED
    <3>1. Kept(c, n, m)
      BY <1>3, <2>6, <2>7, KeptIs
    <3> QED
      BY <3>1 DEF n, m
<1>5. CASE ~WritesBack(c)
  <2>1. m = n
    BY <1>1, <1>5, UpdateIs
  <2> HIDE DEF n, m
  <2>2. Kept(c, n, m)
    BY <1>3, <2>1, KeptIs
  <2> QED
    BY <2>2 DEF n, m
<1> QED
  BY <1>4, <1>5

\* An update writes over a selected note only what the user has moved a slider
\* to, whichever way the note came to be selected, pasting aside.
THEOREM SfxUpdateKeeps == Spec => UpdateKeeps
<1> DEFINE Step ==
        \A c \in Channels :
          /\ Len(select'[c]) = Len(select[c]) /\ ~turned[c] /\ ~pasted[c]
          /\ \E i \in DOMAIN select[c] : ~Kept(c, select[c][i], select'[c][i])
          => ~OnUpdate
<1>1. IInv => [Step]_vars
  BY UpdateKeepsNote
<1> QED
  BY <1>1, SfxInvariant, PTL DEF UpdateKeeps

-----------------------------------------------------------------------------
(* Notes that lie alone *)

\* Clicks, saving, copying and pasting lose no note that lies alone: only a
\* double click, a drag, an update or a load can.
THEOREM SfxNothingLost == Spec => NothingLost
<1> DEFINE Lost == \E c \in Channels : \E n \in Everything(c) :
                      n \notin notes'[c] \cup ToSet(select'[c]) /\ Alone(c, n)
<1>1. IInv /\ [Next]_vars => [Lost => DoublePress \/ Drag \/ OnUpdate \/ Load]_vars
  <2> SUFFICES ASSUME IInv, Next, ~(DoublePress \/ Drag \/ OnUpdate \/ Load)
               PROVE  \A c \in Channels : Safe(c)
    BY DEF Safe
  <2>1. CASE Press
    BY <2>1, PressKeeps
  <2>2. CASE PressNothing \/ Release
    BY <2>2, NothingKeeps
  <2>3. CASE Slide \/ CycleClick
    BY <2>3, TurnKeeps
  <2>4. CASE TypeFreq
    BY <2>4, TypeFreqKeeps
  <2>5. CASE Save
    BY <2>5, SaveKeeps
  <2>6. CASE Seek
    BY <2>6, SeekKeeps
  <2>7. CASE PlayStop
    BY <2>7, PlayStopKeeps
  <2>8. CASE Copy
    BY <2>8, CopyKeeps
  <2>9. CASE Paste
    BY <2>9, PasteKeeps
  <2> QED
    BY <2>1, <2>2, <2>3, <2>4, <2>5, <2>6, <2>7, <2>8, <2>9 DEF Next
<1> QED
  BY <1>1, SfxInvariant, PTL DEF Spec, NothingLost

-----------------------------------------------------------------------------
(* The playback *)

\* Every note that has a length ends no later than End.
LEMMA EndIs ==
    ASSUME TypeInv, MapInv, NEW c \in Channels, NEW n \in Everything(c),
           \A m \in Everything(c) : m.length >= 0
    PROVE  n.pos <= End /\ End \in Int
<1> DEFINE Ends(d) == {m.pos + Half(m.length) :
                          m \in {m \in notes[d] : \A k \in notes[d] : k.pos <= m.pos} \cup ToSet(select[d])}
           S == {0} \cup UNION {Ends(d) : d \in Channels}
<1>1. End = Largest(S)
  BY DEF End
<1>2. \A m \in Placed : m.pos \in Int /\ m.length \in Int /\ Half(m.length) \in Int
                        /\ (m.length >= 0 => Half(m.length) >= 0)
  BY NoteFields DEF Half
<1>3. ASSUME NEW d \in Channels
      PROVE  Ends(d) \in SUBSET Int /\ IsFiniteSet(Ends(d))
  <2> DEFINE T == {m \in notes[d] : \A k \in notes[d] : k.pos <= m.pos} \cup ToSet(select[d])
             f == [m \in T |-> m.pos + Half(m.length)]
  <2>1. /\ notes[d] \in SUBSET Placed /\ IsFiniteSet(notes[d])
        /\ ToSet(select[d]) \in SUBSET Placed /\ IsFiniteSet(ToSet(select[d]))
    BY ChannelTypes, SetOf DEF MapInv
  <2>2. IsFiniteSet(notes[d] \cup ToSet(select[d]))
    BY <2>1, FS_Union
  <2>3. T \in SUBSET (notes[d] \cup ToSet(select[d])) /\ T \in SUBSET Placed
    BY <2>1
  <2>4. Ends(d) = {m.pos + Half(m.length) : m \in T}
    OBVIOUS
  <2> HIDE DEF T, Ends
  <2>5. IsFiniteSet(T)
    BY <2>2, <2>3, FS_Subset
  <2>6. DOMAIN f = T /\ f = [m \in T |-> f[m]] /\ {f[m] : m \in T} = Ends(d)
    BY <2>4
  <2>7. IsFiniteSet({f[m] : m \in T})
    <3> HIDE DEF f
    <3> QED
      BY <2>5, <2>6, FiniteImage
  <2>8. Ends(d) \in SUBSET Int
    BY <1>2, <2>3, <2>4
  <2> QED
    BY <2>6, <2>7, <2>8
<1>4. S \in SUBSET Int /\ S # {} /\ IsFiniteSet(S)
  <2> HIDE DEF Ends
  <2>1. S \in SUBSET Int /\ S # {}
    BY <1>3
  <2> DEFINE g == [d \in Channels |-> Ends(d)]
  <2>2. DOMAIN g = Channels /\ g = [d \in Channels |-> g[d]] /\ {g[d] : d \in Channels} = {Ends(d) : d \in Channels}
    OBVIOUS
  <2>3. IsFiniteSet(Channels)
    BY FiniteChannels
  <2>4. IsFiniteSet({g[d] : d \in Channels})
    <3> HIDE DEF g
    <3> QED
      BY <2>2, <2>3, FiniteImage
  <2>5. \A T \in {Ends(d) : d \in Channels} : IsFiniteSet(T)
    BY <1>3
  <2>6. IsFiniteSet(UNION {Ends(d) : d \in Channels})
    BY <2>2, <2>4, <2>5, FS_UNION
  <2>7. IsFiniteSet({0})
    BY FS_Singleton
  <2>8. IsFiniteSet(S)
    BY <2>6, <2>7, FS_Union
  <2> QED
    BY <2>1, <2>8
<1>5. End \in Int /\ \A x \in S : x <= End
  <2> HIDE DEF S
  <2> QED
    BY <1>1, <1>4, LargestIs
<1>6. \A x \in Ends(c) : x \in S
  <2> HIDE DEF Ends
  <2> QED
    OBVIOUS
<1>7. notes[c] \in SUBSET Placed /\ ToSet(select[c]) \in SUBSET Placed /\ IsFiniteSet(notes[c])
  BY ChannelTypes DEF MapInv
<1>8. \E m \in Everything(c) : n.pos <= m.pos /\ m.pos + Half(m.length) \in Ends(c)
  <2>1. CASE n \in ToSet(select[c])
    <3>1. n.pos <= n.pos
      BY <1>2, <1>7, <2>1
    <3> QED
      BY <2>1, <3>1
  <2>2. CASE n \in notes[c]
    <3> DEFINE f == [m \in notes[c] |-> m.pos]
               P == {f[m] : m \in notes[c]}
    <3>1. IsFiniteSet(P)
      <4>1. DOMAIN f = notes[c] /\ f = [m \in notes[c] |-> f[m]]
        OBVIOUS
      <4> HIDE DEF f
      <4> QED
        BY <1>7, <4>1, FiniteImage
    <3>2. \A m \in notes[c] : m.pos \in Int /\ m.pos \in P
      BY <1>2, <1>7
    <3>3. P \in SUBSET Int /\ P # {} /\ \A x \in P : \E m \in notes[c] : x = m.pos
      BY <2>2, <3>2
    <3> HIDE DEF P
    <3>4. PICK x \in P : \A y \in P : y <= x
      BY <3>1, <3>3, Extremes
    <3>5. PICK m \in notes[c] : x = m.pos
      BY <3>3
    <3>6. \A k \in notes[c] : k.pos <= m.pos
      BY <3>2, <3>4, <3>5
    <3>7. m.pos + Half(m.length) \in Ends(c)
      BY <3>5, <3>6
    <3> QED
      BY <2>2, <3>5, <3>6, <3>7 DEF Everything
  <2> QED
    BY <2>1, <2>2 DEF Everything
<1>9. PICK m \in Everything(c) : n.pos <= m.pos /\ m.pos + Half(m.length) \in Ends(c)
  BY <1>8
<1> HIDE DEF Ends, S
<1>10. m \in Placed /\ n \in Placed
  BY <1>7 DEF Everything
<1>11. /\ m.pos + Half(m.length) <= End /\ n.pos \in Int /\ m.pos \in Int
       /\ Half(m.length) \in Int /\ Half(m.length) >= 0
  BY <1>2, <1>5, <1>6, <1>9, <1>10
<1> QED
  BY <1>5, <1>9, <1>11

\* A playback that was not edited and ends by itself has played every note
\* behind its start, wherever the notes lie and however they were selected
\* meanwhile, if none has a length below 0.
THEOREM SfxPlaysAll == Spec => PlaysAll
<1> DEFINE Over == /\ playingStatus /\ ~playingStatus' /\ ~edited /\ OnUpdate
                   /\ \A c \in Channels : \A n \in Everything(c) : n.length >= 0
           AllSent == \A c \in Channels : \A n \in Everything(c) :
                         n.pos >= playingStartPos => <<c, n.pos>> \in sent
<1>1. IInv => [Over => AllSent]_vars
  <2> SUFFICES ASSUME IInv, Over, NEW c \in Channels, NEW n \in Everything(c), n.pos >= playingStartPos
               PROVE  <<c, n.pos>> \in sent
    OBVIOUS
  <2>1. TypeInv /\ MapInv /\ SentInv
    BY DEF IInv
  <2>2. End < currentPos
    BY DEF OnUpdate, Tick
  <2>3. n.pos <= End /\ End \in Int
    BY <2>1, EndIs
  <2>4. n.pos \in Int /\ currentPos \in Int /\ playingStartPos \in Int
    <3>1. n.pos \in Int
      BY <2>1, ChannelTypes, NoteFields
    <3> QED
      BY <2>1, <3>1 DEF TypeInv
  <2>5. playingStartPos <= n.pos /\ n.pos < currentPos
    BY <2>2, <2>3, <2>4
  <2> QED
    BY <2>1, <2>5 DEF SentInv
<1> QED
  BY <1>1, SfxInvariant, PTL DEF PlaysAll

-----------------------------------------------------------------------------
(* The file *)

\* What Encoding holds of a channel is what the channel held.
LEMMA ReadBack ==
    ASSUME TypeInv, MapInv, NEW c \in Channels
    PROVE  NotesOf(Encoding, c) = Flattened(notes[c], select[c])
<1> DEFINE f == Encoding
           r == f.records
           F == Flattened(notes[c], select[c])
<1>1. /\ Records \in SUBSET Line /\ OneEach(Records) /\ f.size \in Nat
      /\ \A i \in 1 .. f.size : r[i] \in Records
      /\ \A i, j \in 1 .. f.size : i < j => Earlier(r[i], r[j])
      /\ \A q \in Records : \E i \in 1 .. f.size : r[i] = q
      /\ \A q \in Records : \E d \in Channels : \E n \in Flattened(notes[d], select[d]) :
            n \in Placed /\ q = LineOf(d, n)
      /\ \A d \in Channels : \A n \in Flattened(notes[d], select[d]) : LineOf(d, n) \in Records
  BY RecordsAre, EncodingIs
<1>2. \A d \in Channels : d \in Int
  BY FiniteChannels
<1>3. F \in SUBSET Placed
  <2>1. notes[c] \in SUBSET Placed /\ select[c] \in Seq(Placed) /\ IsFiniteSet(notes[c]) /\ OnePerPosition(notes[c])
    BY ChannelTypes DEF MapInv
  <2> QED
    BY <2>1, FlattenedIs
<1> DEFINE note(i) == [pos |-> r[i].position, length |-> r[i].length, freq |-> r[i].freq, mode |-> r[i].mode]
           I == {i \in 1 .. f.size :
                    /\ r[i].channel = c
                    /\ \A j \in 1 .. i - 1 : r[j].channel = c => r[j].position # r[i].position}
<1>4. NotesOf(f, c) = {note(i) : i \in I}
  BY DEF NotesOf
<1> HIDE DEF f, r, F
\* No two records are of one position, so that every one is the first there.
<1>5. ASSUME NEW i \in 1 .. f.size, r[i].channel = c
      PROVE  i \in I
  <2> SUFFICES ASSUME NEW j \in 1 .. i - 1, r[j].channel = c, r[j].position = r[i].position
               PROVE  FALSE
    BY <1>5
  <2>1. j \in 1 .. f.size /\ j < i
    BY <1>1
  <2>2. Earlier(r[j], r[i]) /\ r[j] = r[i] /\ r[i] \in Records
    BY <1>1, <1>5, <2>1 DEF OneEach
  <2> QED
    BY <1>1, <2>2, EarlierOrders
<1>6. ASSUME NEW i \in 1 .. f.size, NEW d \in Channels, NEW n \in Placed, r[i] = LineOf(d, n)
      PROVE  r[i].channel = d /\ note(i) = n
  <2>1. /\ r[i].position = n.pos /\ r[i].length = n.length /\ r[i].channel = d
        /\ r[i].freq = n.freq /\ r[i].mode = n.mode
    BY <1>2, <1>6, LineFields
  <2>2. note(i) = [pos |-> n.pos, length |-> n.length, freq |-> n.freq, mode |-> n.mode]
    BY <2>1
  <2>3. n = [pos |-> n.pos, length |-> n.length, freq |-> n.freq, mode |-> n.mode]
    BY DEF Placed
  <2> QED
    BY <2>1, <2>2, <2>3
<1> HIDE DEF note
<1>7. ASSUME NEW n \in F
      PROVE  \E i \in I : note(i) = n
  <2>1. LineOf(c, n) \in Records /\ n \in Placed
    BY <1>1, <1>3 DEF F
  <2>2. PICK i \in 1 .. f.size : r[i] = LineOf(c, n)
    BY <1>1, <2>1
  <2> HIDE DEF I
  <2> QED
    BY <1>5, <1>6, <2>1, <2>2
<1>8. ASSUME NEW i \in I
      PROVE  note(i) \in F
  <2>1. i \in 1 .. f.size /\ r[i].channel = c
    OBVIOUS
  <2>2. PICK d \in Channels : \E n \in Flattened(notes[d], select[d]) : n \in Placed /\ r[i] = LineOf(d, n)
    BY <1>1, <2>1
  <2>3. PICK n \in Flattened(notes[d], select[d]) : n \in Placed /\ r[i] = LineOf(d, n)
    BY <2>2
  <2>4. d = c /\ note(i) = n
    BY <1>6, <2>1, <2>3
  <2> QED
    BY <2>3, <2>4 DEF F
<1> HIDE DEF I
<1>9. {note(i) : i \in I} = F
  BY <1>7, <1>8
<1> QED
  BY <1>4, <1>9 DEF f, F

LEMMA SelectedOnIs ==
    ASSUME NEW c \in Channels, NEW p, select[c] \in Seq(Placed)
    PROVE  /\ SelectedOn(c, p) \in SUBSET Int /\ IsFiniteSet(SelectedOn(c, p))
           /\ \A i : i \in SelectedOn(c, p) <=> i \in 1 .. Len(select[c]) /\ select[c][i].pos = p
           /\ SelectedOn(c, p) # {} =>
                 /\ Largest(SelectedOn(c, p)) \in SelectedOn(c, p)
                 /\ \A j \in SelectedOn(c, p) : j <= Largest(SelectedOn(c, p))
<1>1. DOMAIN select[c] = 1 .. Len(select[c]) /\ Len(select[c]) \in Nat
  OBVIOUS
<1>2. \A i : i \in SelectedOn(c, p) <=> i \in 1 .. Len(select[c]) /\ select[c][i].pos = p
  BY <1>1 DEF SelectedOn
<1>3. IsFiniteSet(1 .. Len(select[c]))
  BY <1>1, FS_Interval
<1>4. SelectedOn(c, p) \in SUBSET (1 .. Len(select[c]))
  BY <1>2
<1>5. SelectedOn(c, p) \in SUBSET Int /\ IsFiniteSet(SelectedOn(c, p))
  BY <1>3, <1>4, FS_Subset
<1> QED
  BY <1>2, <1>5, LargestIs

\* Of the notes selected at a position the map keeps the last.
LEMMA LatestIsKept ==
    ASSUME NEW c \in Channels, NEW p, select[c] \in Seq(Placed)
    PROVE  {n \in Flattened(notes[c], select[c]) : n.pos = p} = Latest(c, p)
<1> DEFINE sel == select[c]
           S == SelectedOn(c, p)
           K == {n \in notes[c] : \A i \in DOMAIN sel : sel[i].pos # n.pos}
           Final == {i \in DOMAIN sel : \A j \in DOMAIN sel : j > i => sel[j].pos # sel[i].pos}
           L == {sel[i] : i \in Final}
<1>1. Flattened(notes[c], sel) = K \cup L
  BY DEF Flattened
<1>2. DOMAIN sel = 1 .. Len(sel) /\ Len(sel) \in Nat
  OBVIOUS
<1>3. /\ \A i : i \in S <=> i \in 1 .. Len(sel) /\ sel[i].pos = p
      /\ S # {} => Largest(S) \in S /\ \A j \in S : j <= Largest(S)
  BY SelectedOnIs
<1>4. Latest(c, p) = IF S = {} THEN {n \in notes[c] : n.pos = p} ELSE {sel[Largest(S)]}
  BY DEF Latest
<1> HIDE DEF S, sel
<1>5. CASE S = {}
  <2>1. \A i \in Final : sel[i].pos # p
    BY <1>2, <1>3, <1>5
  <2>2. \A n \in L : n.pos # p
    <3> HIDE DEF Final
    <3> QED
      BY <2>1
  <2>3. \A n \in notes[c] : n.pos = p => n \in K
    BY <1>2, <1>3, <1>5
  <2>4. K \in SUBSET notes[c]
    OBVIOUS
  <2> HIDE DEF K, L
  <2>5. {n \in K \cup L : n.pos = p} = {n \in notes[c] : n.pos = p}
    BY <2>2, <2>3, <2>4
  <2> QED
    BY <1>1, <1>4, <1>5, <2>5 DEF sel
<1>6. CASE S # {}
  <2> DEFINE k == Largest(S)
  <2>1. k \in S /\ \A j \in S : j <= k
    BY <1>3, <1>6
  <2> HIDE DEF k
  <2>2. k \in 1 .. Len(sel) /\ sel[k].pos = p
    BY <1>3, <2>1
  <2>3. \A n \in K : n.pos # p
    BY <1>2, <2>2
  <2>4. k \in Final
    BY <1>2, <1>3, <2>1, <2>2
  <2>5. \A i \in Final : sel[i].pos = p => i = k
    <3> SUFFICES ASSUME NEW i \in Final, sel[i].pos = p
                 PROVE  i = k
      OBVIOUS
    <3>1. i \in 1 .. Len(sel) /\ ~ (k > i)
      BY <1>2, <2>2
    <3>2. i <= k
      BY <1>3, <2>1, <3>1
    <3> QED
      BY <1>2, <2>2, <3>1, <3>2
  <2> HIDE DEF K, Final
  <2>6. \A n \in L : n.pos = p => n = sel[k]
    BY <2>5
  <2>7. sel[k] \in L
    BY <2>4
  <2> HIDE DEF L
  <2>8. {n \in K \cup L : n.pos = p} = {sel[k]}
    BY <2>2, <2>3, <2>6, <2>7
  <2> QED
    BY <1>1, <1>4, <1>6, <2>8 DEF sel, k
<1> QED
  BY <1>5, <1>6

\* It is what is played, unless several are selected there.
LEMMA LatestIsPlayed ==
    ASSUME NEW c \in Channels, NEW p, select[c] \in Seq(Placed), Latest(c, p) # Played(c, p)
    PROVE  Cardinality(SelectedOn(c, p)) > 1
<1> DEFINE S == SelectedOn(c, p)
           Foremost == {i \in S : \A j \in S : i <= j}
<1>1. /\ S \in SUBSET Int /\ IsFiniteSet(S)
      /\ S # {} => Largest(S) \in S
  BY SelectedOnIs
<1>2. Cardinality(S) \in Nat
  BY <1>1, FS_CardinalityType
<1>3. S # {}
  BY DEF Latest, Played
<1>4. /\ Latest(c, p) = {select[c][Largest(S)]}
      /\ Played(c, p) = {select[c][i] : i \in Foremost}
  BY <1>3 DEF Latest, Played
<1> HIDE DEF S
<1>5. SUFFICES ASSUME ~ (Cardinality(S) > 1)
               PROVE  FALSE
  BY DEF S
<1>6. \A i, j \in S : i = j
  BY <1>1, <1>2, <1>5, AtMostOne
<1>7. Foremost = {Largest(S)}
  <2> DEFINE k == Largest(S)
  <2>1. k \in S /\ k \in Int /\ \A i \in S : i = k
    BY <1>1, <1>3, <1>6
  <2> HIDE DEF k
  <2>2. \A j \in S : k <= j
    BY <2>1
  <2>3. Foremost = {k}
    BY <2>1, <2>2
  <2> QED
    BY <2>3 DEF k
<1> HIDE DEF Foremost
<1>8. {select[c][i] : i \in Foremost} = {select[c][Largest(S)]}
  BY <1>7
<1> QED
  BY <1>4, <1>8

\* Whatever is selected where, the saved file is taken, is in the order of time
\* and is read back at every position as the note that counts there: the one that
\* is played, or the last of several selected there, of which the first is played.
THEOREM SfxSaveReadsBack == Spec => []SaveReadsBack
<1>1. ASSUME IInv PROVE SaveReadsBack
  <2>1. TypeInv /\ MapInv
    BY <1>1 DEF IInv
  <2> DEFINE f == Encoding
             r == f.records
  <2>2. /\ Records \in SUBSET Line /\ f.size \in Nat /\ DOMAIN r = 1 .. f.size
        /\ \A i \in 1 .. f.size : r[i] \in Records
        /\ \A i, j \in 1 .. f.size : i < j => Earlier(r[i], r[j])
        /\ \A q \in Records : \E d \in Channels : \E n \in Flattened(notes[d], select[d]) :
              n \in Placed /\ q = LineOf(d, n)
    BY <2>1, RecordsAre, EncodingIs
  <2>3. ASSUME NEW c \in Channels
        PROVE  NotesOf(f, c) = Flattened(notes[c], select[c])
    BY <2>1, ReadBack
  <2> HIDE DEF f
  <2>4. ASSUME NEW i \in 1 .. f.size
        PROVE  r[i].position \in Int /\ r[i].position >= -1 /\ r[i].channel \in Channels
    <3>1. PICK d \in Channels : \E n \in Flattened(notes[d], select[d]) : n \in Placed /\ r[i] = LineOf(d, n)
      BY <2>2
    <3>2. PICK n \in Flattened(notes[d], select[d]) : n \in Placed /\ r[i] = LineOf(d, n)
      BY <3>1
    <3>3. d \in Int
      BY FiniteChannels
    <3>4. r[i].position = n.pos /\ r[i].channel = d
      BY <3>2, <3>3, LineFields
    <3> QED
      BY <3>2, <3>4, NoteFields
  <2>5. Valid(f)
    <3>1. \A i \in 1 .. f.size : r[i].channel \in DOMAIN ChannelOf
      BY <2>4, ChannelsAssumption
    <3> QED
      BY <2>2, <2>4, <3>1 DEF Valid, Readable, lastPos
  <2>6. ASSUME NEW i \in 1 .. f.size, NEW j \in 1 .. f.size, i < j
        PROVE  r[i].position <= AtLeast(r[j].position, 0)
    <3>1. Earlier(r[i], r[j])
      BY <2>2, <2>6
    <3>2. r[i].position \in Int /\ r[j].position \in Int
      BY <2>4
    <3>3. AtLeast(r[i].position, 0) <= AtLeast(r[j].position, 0)
      BY <3>1, <3>2 DEF Earlier, AtLeast
    <3> QED
      BY <3>2, <3>3 DEF AtLeast
  <2>7. ASSUME NEW c \in Channels, NEW p
        PROVE  /\ {n \in NotesOf(f, c) : n.pos = p} = Latest(c, p)
               /\ Latest(c, p) # Played(c, p) => Cardinality(SelectedOn(c, p)) > 1
    <3>1. notes[c] \in SUBSET Placed /\ select[c] \in Seq(Placed)
      BY <2>1, ChannelTypes
    <3>2. NotesOf(f, c) = Flattened(notes[c], select[c])
      BY <2>3
    <3>3. {n \in Flattened(notes[c], select[c]) : n.pos = p} = Latest(c, p)
      BY <3>1, LatestIsKept
    <3>4. Latest(c, p) # Played(c, p) => Cardinality(SelectedOn(c, p)) > 1
      BY <3>1, LatestIsPlayed
    <3> QED
      BY <3>2, <3>3, <3>4
  <2> QED
    BY <2>3, <2>5, <2>6, <2>7 DEF SaveReadsBack, Loads, f
<1> QED
  BY <1>1, SfxInvariant, PTL
=============================================================================
