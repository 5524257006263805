----------------------------- MODULE SeatLayoutProofs -----------------------------
(***************************************************************************)
(* Proofs about SeatLayout, for layouts of any size.  What is gathered     *)
(* part by part is reasoned about by taking the first part at which it     *)
(* would go wrong.                                                         *)
(***************************************************************************)
EXTENDS SeatLayout, SequenceTheorems, FiniteSetTheorems, FunctionTheorems,
        WellFoundedInduction, TLAPS

-------------------------------------------------------------------------------
(* Gathering sequences part by part *)

LEMMA FirstOf ==
  ASSUME NEW S, S \subseteq Nat, S # {}
  PROVE  \E n \in S : \A m \in S : n <= m
<1>1. \E n \in S : \A m \in S : ~(<<m, n>> \in OpToRel(<, Nat))
  BY NatLessThanWellFounded, WFMin
<1>2. PICK n \in S : \A m \in S : ~(<<m, n>> \in OpToRel(<, Nat))
  BY <1>1
<1>3. \A m \in S : ~(m < n)
  BY <1>2 DEF OpToRel
<1> QED
  BY <1>3

\* Step by step up to N.
LEMMA UpTo ==
  ASSUME NEW N \in Nat, NEW Good, NEW first \in Nat, first \in Good,
         \A n \in (first + 1)..N : n - 1 \in Good => n \in Good
  PROVE  \A n \in first..N : n \in Good
<1> DEFINE Bad == {n \in first..N : n \notin Good}
<1>1. SUFFICES ASSUME Bad # {} PROVE FALSE
  OBVIOUS
<1>2. Bad \subseteq Nat
  OBVIOUS
<1>3. PICK n \in Bad : \A k \in Bad : n <= k
  BY <1>1, <1>2, FirstOf
<1>4. n \in (first + 1)..N /\ n - 1 \in first..N /\ n - 1 \notin Bad
  BY <1>3
<1> QED
  BY <1>3, <1>4

\* gathered[n] is what the first n parts make.
Gathers(gathered, parts, n) ==
  gathered = [i \in 1..n |-> IF i = 1 THEN parts[i] ELSE gathered[i - 1] \o parts[i]]

LEMMA CanGather ==
  ASSUME NEW parts, NEW n \in Nat
  PROVE  \E gathered : Gathers(gathered, parts, n)
<1> DEFINE Bad == {m \in Nat : ~\E gathered : Gathers(gathered, parts, m)}
<1>1. SUFFICES ASSUME Bad # {} PROVE FALSE
  OBVIOUS
<1>2. PICK m \in Bad : \A k \in Bad : m <= k
  BY <1>1, FirstOf
<1>3. m # 0
  <2>1. Gathers([i \in 1..0 |-> {}], parts, 0)
    BY DEF Gathers
  <2> QED
    BY <1>2, <2>1
<1>4. m - 1 \in Nat /\ m - 1 \notin Bad
  BY <1>2, <1>3
<1>5. PICK g : Gathers(g, parts, m - 1)
  BY <1>4
<1> DEFINE h == [i \in 1..m |-> IF i < m THEN g[i] ELSE IF i = 1 THEN parts[i] ELSE g[i - 1] \o parts[i]]
<1>6. ASSUME NEW i \in 1..m
      PROVE  h[i] = IF i = 1 THEN parts[i] ELSE h[i - 1] \o parts[i]
  <2>1. CASE i = 1 \/ i = m
    BY <1>2, <1>5, <2>1 DEF Gathers
  <2>2. CASE i # 1 /\ i # m
    <3>1. i \in 1..(m - 1) /\ i - 1 \in 1..m /\ i < m /\ i - 1 < m
      BY <1>2, <2>2
    <3>2. h[i] = g[i] /\ h[i - 1] = g[i - 1]
      BY <3>1
    <3>3. g[i] = g[i - 1] \o parts[i]
      BY <1>5, <2>2, <3>1 DEF Gathers
    <3> QED
      BY <2>2, <3>2, <3>3
  <2> QED
    BY <2>1, <2>2
<1>7. Gathers(h, parts, m)
  BY <1>6 DEF Gathers
<1> QED
  BY <1>2, <1>7

LEMMA FlattenGathers ==
  ASSUME NEW parts, Len(parts) \in Nat \ {0}
  PROVE  \E gathered : /\ Gathers(gathered, parts, Len(parts))
                       /\ FlattenSeq(parts) = gathered[Len(parts)]
<1> DEFINE flatten ==
      CHOOSE g : g = [i \in 1..Len(parts) |-> IF i = 1 THEN parts[i] ELSE g[i - 1] \o parts[i]]
<1>1. \E g : g = [i \in 1..Len(parts) |-> IF i = 1 THEN parts[i] ELSE g[i - 1] \o parts[i]]
  BY CanGather DEF Gathers
<1>2. flatten = [i \in 1..Len(parts) |-> IF i = 1 THEN parts[i] ELSE flatten[i - 1] \o parts[i]]
  BY <1>1, Zenon
<1>3. FlattenSeq(parts) = flatten[Len(parts)]
  BY DEF FlattenSeq
<1> QED
  BY <1>2, <1>3 DEF Gathers

LEMMA ConcatSet ==
  ASSUME NEW T, NEW s \in Seq(T), NEW u \in Seq(T)
  PROVE  s \o u \in Seq(T) /\ ToSet(s \o u) = ToSet(s) \cup ToSet(u)
<1>1. /\ s \o u \in Seq(T) /\ Len(s \o u) = Len(s) + Len(u)
      /\ \A i \in 1..Len(s) + Len(u) : (s \o u)[i] = IF i <= Len(s) THEN s[i] ELSE u[i - Len(s)]
  BY ConcatProperties
<1>2. ASSUME NEW x \in ToSet(u) PROVE x \in ToSet(s \o u)
  <2>1. PICK i \in 1..Len(u) : x = u[i]
    BY DEF ToSet
  <2>2. Len(s) + i \in 1..Len(s \o u) /\ (s \o u)[Len(s) + i] = x
    BY <1>1, <2>1
  <2> QED
    BY <1>1, <2>2 DEF ToSet
<1>3. ToSet(s) \subseteq ToSet(s \o u)
  BY <1>1 DEF ToSet
<1>4. ToSet(s \o u) \subseteq ToSet(s) \cup ToSet(u)
  BY <1>1 DEF ToSet
<1> QED
  BY <1>1, <1>2, <1>3, <1>4

\* Gathered, the parts make a sequence of what is in them.
LEMMA Gathered ==
  ASSUME NEW T, NEW parts \in Seq(Seq(T)), Len(parts) # 0
  PROVE  \E g : /\ g[1] = parts[1]
                /\ \A n \in 2..Len(parts) : g[n] = g[n - 1] \o parts[n]
                /\ \A n \in 1..Len(parts) : /\ g[n] \in Seq(T)
                                           /\ ToSet(g[n]) = UNION {ToSet(parts[i]) : i \in 1..n}
                /\ FlattenSeq(parts) = g[Len(parts)]
<1>1. Len(parts) \in Nat \ {0}
  OBVIOUS
<1>2. PICK g : Gathers(g, parts, Len(parts)) /\ FlattenSeq(parts) = g[Len(parts)]
  BY <1>1, FlattenGathers
<1>3. 1 \in 1..Len(parts) /\ 1..1 = {1}
  BY <1>1
<1>4. g[1] = parts[1]
  BY <1>2, <1>3 DEF Gathers
<1>5. ASSUME NEW n \in 2..Len(parts) PROVE g[n] = g[n - 1] \o parts[n]
  <2>1. n \in 1..Len(parts) /\ n # 1
    BY <1>1
  <2> QED
    BY <1>2, <2>1 DEF Gathers
<1> DEFINE Good == {n \in 1..Len(parts) :
                      g[n] \in Seq(T) /\ ToSet(g[n]) = UNION {ToSet(parts[i]) : i \in 1..n}}
<1>6. 1 \in Good
  <2>1. parts[1] \in Seq(T)
    BY <1>3
  <2> QED
    BY <1>3, <1>4, <2>1
<1>7. ASSUME NEW n \in 2..Len(parts), n - 1 \in Good PROVE n \in Good
  <2>1. n \in 1..Len(parts) /\ parts[n] \in Seq(T)
    BY <1>1
  <2>2. g[n - 1] \in Seq(T) /\ ToSet(g[n - 1]) = UNION {ToSet(parts[i]) : i \in 1..(n - 1)}
    BY <1>7
  <2>3. g[n] \in Seq(T) /\ ToSet(g[n]) = ToSet(g[n - 1]) \cup ToSet(parts[n])
    <3>1. g[n] = g[n - 1] \o parts[n]
      BY <1>5
    <3>2. g[n - 1] \o parts[n] \in Seq(T) /\ ToSet(g[n - 1] \o parts[n]) = ToSet(g[n - 1]) \cup ToSet(parts[n])
      BY <2>1, <2>2, ConcatSet
    <3> QED
      BY <3>1, <3>2
  <2>4. 1..n = (1..(n - 1)) \cup {n}
    BY <2>1
  <2>5. {ToSet(parts[i]) : i \in 1..n} = {ToSet(parts[i]) : i \in 1..(n - 1)} \cup {ToSet(parts[n])}
    BY <2>4
  <2>6. ToSet(g[n]) = UNION {ToSet(parts[i]) : i \in 1..n}
    BY <2>2, <2>3, <2>5
  <2> QED
    BY <2>1, <2>3, <2>6
<1> HIDE DEF Good
<1>8. \A n \in 1..Len(parts) : n \in Good
  <2>1. \A n \in (1 + 1)..Len(parts) : n - 1 \in Good => n \in Good
    BY <1>7
  <2> QED
    BY <1>1, <1>6, <2>1, UpTo
<1> QED
  BY <1>2, <1>4, <1>5, <1>8 DEF Good

LEMMA FlattenedSet ==
  ASSUME NEW T, NEW parts \in Seq(Seq(T))
  PROVE  /\ FlattenSeq(parts) \in Seq(T)
         /\ ToSet(FlattenSeq(parts)) = UNION {ToSet(parts[i]) : i \in DOMAIN parts}
<1>1. CASE Len(parts) = 0
  BY <1>1 DEF FlattenSeq, ToSet
<1>2. CASE Len(parts) # 0
  <2>1. Len(parts) \in 1..Len(parts) /\ DOMAIN parts = 1..Len(parts)
    BY <1>2
  <2>2. PICK g : /\ g[Len(parts)] \in Seq(T)
                 /\ ToSet(g[Len(parts)]) = UNION {ToSet(parts[i]) : i \in 1..Len(parts)}
                 /\ FlattenSeq(parts) = g[Len(parts)]
    BY <1>2, <2>1, Gathered
  <2> QED
    BY <2>1, <2>2
<1> QED
  BY <1>1, <1>2

\* As long as its parts together: total[n] is the length of the first n.
LEMMA FlattenedLength ==
  ASSUME NEW T, NEW parts \in Seq(Seq(T)), NEW total, total[0] = 0,
         \A n \in 1..Len(parts) : total[n] = total[n - 1] + Len(parts[n])
  PROVE  Len(FlattenSeq(parts)) = total[Len(parts)]
<1>1. CASE Len(parts) = 0
  BY <1>1 DEF FlattenSeq
<1>2. CASE Len(parts) # 0
  <2>1. Len(parts) \in Nat \ {0} /\ \A n \in 1..Len(parts) : parts[n] \in Seq(T) /\ Len(parts[n]) \in Nat
    BY <1>2
  <2>2. PICK g : /\ g[1] = parts[1]
                 /\ \A n \in 2..Len(parts) : g[n] = g[n - 1] \o parts[n]
                 /\ \A n \in 1..Len(parts) : g[n] \in Seq(T)
                 /\ FlattenSeq(parts) = g[Len(parts)]
    BY <1>2, Gathered
  <2> DEFINE Good == {n \in 1..Len(parts) : Len(g[n]) = total[n]}
  <2>3. 1 \in Good
    <3>1. 1 \in 1..Len(parts) /\ total[1] = total[0] + Len(parts[1])
      BY <2>1
    <3> QED
      BY <2>1, <2>2, <3>1
  <2>4. ASSUME NEW n \in 2..Len(parts), n - 1 \in Good PROVE n \in Good
    <3>1. n \in 1..Len(parts) /\ total[n] = total[n - 1] + Len(parts[n])
      BY <2>1
    <3>2. g[n - 1] \in Seq(T) /\ parts[n] \in Seq(T) /\ g[n] = g[n - 1] \o parts[n]
      <4>1. n - 1 \in 1..Len(parts) /\ n \in 1..Len(parts)
        BY <2>1
      <4> QED
        BY <2>1, <2>2, <4>1
    <3>3. Len(g[n]) = Len(g[n - 1]) + Len(parts[n])
      BY <3>2, ConcatProperties
    <3> QED
      BY <2>4, <3>1, <3>3
  <2> HIDE DEF Good
  <2>5. \A n \in 1..Len(parts) : n \in Good
    <3>1. \A n \in (1 + 1)..Len(parts) : n - 1 \in Good => n \in Good
      BY <2>4
    <3> QED
      BY <2>1, <2>3, <3>1, UpTo
  <2> QED
    BY <2>1, <2>2, <2>5 DEF Good
<1> QED
  BY <1>1, <1>2

\* No two places of a list of seats are the same.
PlacesDiffer(seats) ==
  \A i, j \in DOMAIN seats :
    i # j => seats[i].row # seats[j].row \/ seats[i].letter # seats[j].letter

LEMMA ConcatPlaces ==
  ASSUME NEW T, NEW s \in Seq(T), NEW u \in Seq(T), PlacesDiffer(s), PlacesDiffer(u),
         \A x \in ToSet(s), y \in ToSet(u) : x.row # y.row
  PROVE  PlacesDiffer(s \o u)
<1>1. /\ s \o u \in Seq(T) /\ Len(s \o u) = Len(s) + Len(u)
      /\ \A i \in 1..Len(s) + Len(u) : (s \o u)[i] = IF i <= Len(s) THEN s[i] ELSE u[i - Len(s)]
  BY ConcatProperties
<1>2. ASSUME NEW i \in 1..Len(s) + Len(u)
      PROVE  \/ i \in DOMAIN s /\ (s \o u)[i] = s[i]
             \/ i > Len(s) /\ i - Len(s) \in DOMAIN u /\ (s \o u)[i] = u[i - Len(s)]
  BY <1>1
<1>3. ASSUME NEW i \in DOMAIN (s \o u), NEW j \in DOMAIN (s \o u), i # j
      PROVE  (s \o u)[i].row # (s \o u)[j].row \/ (s \o u)[i].letter # (s \o u)[j].letter
  <2>1. i \in 1..Len(s) + Len(u) /\ j \in 1..Len(s) + Len(u)
    BY <1>1
  <2>2. CASE i \in DOMAIN s /\ (s \o u)[i] = s[i]
    BY <1>2, <1>3, <2>1, <2>2 DEF PlacesDiffer, ToSet
  <2>3. CASE i > Len(s) /\ i - Len(s) \in DOMAIN u /\ (s \o u)[i] = u[i - Len(s)]
    <3>1. CASE j \in DOMAIN s /\ (s \o u)[j] = s[j]
      BY <2>3, <3>1 DEF ToSet
    <3>2. CASE j > Len(s) /\ j - Len(s) \in DOMAIN u /\ (s \o u)[j] = u[j - Len(s)]
      <4>1. i - Len(s) # j - Len(s)
        BY <1>3, <2>1
      <4> QED
        BY <2>3, <3>2, <4>1 DEF PlacesDiffer
    <3> QED
      BY <1>2, <2>1, <3>1, <3>2
  <2> QED
    BY <1>2, <2>1, <2>2, <2>3
<1> QED
  BY <1>3 DEF PlacesDiffer

LEMMA FlattenedPlaces ==
  ASSUME NEW T, NEW parts \in Seq(Seq(T)),
         \A i \in DOMAIN parts : PlacesDiffer(parts[i]),
         \A i, j \in DOMAIN parts : i < j =>
           \A x \in ToSet(parts[i]), y \in ToSet(parts[j]) : x.row # y.row
  PROVE  PlacesDiffer(FlattenSeq(parts))
<1>1. CASE Len(parts) = 0
  BY <1>1 DEF FlattenSeq, PlacesDiffer
<1>2. CASE Len(parts) # 0
  <2>1. Len(parts) \in Nat \ {0} /\ DOMAIN parts = 1..Len(parts)
    BY <1>2
  <2>2. PICK g : /\ g[1] = parts[1]
                 /\ \A n \in 2..Len(parts) : g[n] = g[n - 1] \o parts[n]
                 /\ \A n \in 1..Len(parts) : /\ g[n] \in Seq(T)
                                            /\ ToSet(g[n]) = UNION {ToSet(parts[i]) : i \in 1..n}
                 /\ FlattenSeq(parts) = g[Len(parts)]
    BY <1>2, Gathered
  <2> DEFINE Good == {n \in 1..Len(parts) : PlacesDiffer(g[n])}
  <2>3. 1 \in Good
    BY <2>1, <2>2
  <2>4. ASSUME NEW n \in 2..Len(parts), n - 1 \in Good PROVE n \in Good
    <3>1. n \in 1..Len(parts) /\ n - 1 \in 1..Len(parts) /\ parts[n] \in Seq(T)
      BY <2>1
    <3>2. \A x \in ToSet(g[n - 1]), y \in ToSet(parts[n]) : x.row # y.row
      <4>1. ASSUME NEW x \in ToSet(g[n - 1]), NEW y \in ToSet(parts[n]) PROVE x.row # y.row
        <5>1. PICK i \in 1..(n - 1) : x \in ToSet(parts[i])
          <6>1. ToSet(g[n - 1]) = UNION {ToSet(parts[i]) : i \in 1..(n - 1)}
            BY <2>2, <3>1
          <6> QED
            BY <6>1
        <5>2. i \in DOMAIN parts /\ n \in DOMAIN parts /\ i < n
          BY <2>1, <3>1
        <5> QED
          BY <5>1, <5>2
      <4> QED
        BY <4>1
    <3>3. PlacesDiffer(g[n - 1] \o parts[n])
      BY <2>1, <2>2, <2>4, <3>1, <3>2, ConcatPlaces
    <3> QED
      BY <2>2, <3>1, <3>3
  <2> HIDE DEF Good
  <2>5. \A n \in 1..Len(parts) : n \in Good
    <3>1. \A n \in (1 + 1)..Len(parts) : n - 1 \in Good => n \in Good
      BY <2>4
    <3> QED
      BY <2>1, <2>3, <3>1, UpTo
  <2> QED
    BY <2>1, <2>2, <2>5 DEF Good
<1> QED
  BY <1>1, <1>2

-------------------------------------------------------------------------------
(* The seats of a cabin *)

SeatRecords == [row : Int, letter : STRING, fareClass : STRING]

LEMMA OneMore ==
  ASSUME NEW n \in Int, NEW b \in Int
  PROVE  n * b = (n - 1) * b + b
OBVIOUS

LEMMA CabinSeats ==
  ASSUME NEW c \in Cabins, ParseCabin(c)
  PROVE  /\ SeatsOfCabin(c) \in Seq(SeatRecords)
         /\ Len(SeatsOfCabin(c)) = SeatCount(c)
         /\ PlacesDiffer(SeatsOfCabin(c))
         /\ \A s \in ToSet(SeatsOfCabin(c)) : s.row \in c.from..c.to /\ s.fareClass = c.fareClass
<1> DEFINE rows == c.to - c.from + 1
           row(n) == [i \in DOMAIN c.letters |->
                        [row |-> n, letter |-> c.letters[i], fareClass |-> c.fareClass]]
           parts == [n \in 1..rows |-> row(c.from + n - 1)]
<1>1. /\ c.from \in Int /\ c.to \in Int /\ c.from <= c.to /\ rows \in Nat
      /\ c.fareClass \in STRING /\ c.letters \in Seq(STRING) /\ Len(c.letters) \in Nat
      /\ DOMAIN c.letters = 1..Len(c.letters)
      /\ \A i, j \in DOMAIN c.letters : c.letters[i] = c.letters[j] => i = j
  BY DEF Cabins, ParseCabin, ParseSeatLetters, IsInjective
<1>2. ASSUME NEW n \in 1..rows
      PROVE  /\ parts[n] \in Seq(SeatRecords)
             /\ Len(parts[n]) = Len(c.letters) /\ DOMAIN parts[n] = DOMAIN c.letters
             /\ \A i \in DOMAIN parts[n] :
                  parts[n][i] = [row |-> c.from + n - 1, letter |-> c.letters[i], fareClass |-> c.fareClass]
  <2>1. c.from + n - 1 \in Int
    BY <1>1
  <2>2. \A i \in 1..Len(c.letters) :
          [row |-> c.from + n - 1, letter |-> c.letters[i], fareClass |-> c.fareClass] \in SeatRecords
    BY <1>1, <2>1 DEF SeatRecords
  <2>3. parts[n] = row(c.from + n - 1)
    OBVIOUS
  <2> QED
    BY <1>1, <2>2, <2>3
<1> HIDE DEF row
<1>3. parts \in Seq(Seq(SeatRecords)) /\ Len(parts) = rows /\ DOMAIN parts = 1..rows
  <2>1. parts \in [1..rows -> Seq(SeatRecords)] /\ DOMAIN parts = 1..rows
    BY <1>2
  <2> HIDE DEF parts
  <2>2. parts \in Seq(Seq(SeatRecords))
    BY <1>1, <2>1
  <2> QED
    BY <1>1, <2>1, <2>2
<1> HIDE DEF parts
<1>4. ASSUME NEW n \in 1..rows
      PROVE  \A s \in ToSet(parts[n]) : s.row = c.from + n - 1 /\ s.fareClass = c.fareClass
  <2>1. ASSUME NEW s \in ToSet(parts[n])
        PROVE  s.row = c.from + n - 1 /\ s.fareClass = c.fareClass
    <3>1. PICK i \in DOMAIN parts[n] : s = parts[n][i]
      BY DEF ToSet
    <3>2. s = [row |-> c.from + n - 1, letter |-> c.letters[i], fareClass |-> c.fareClass]
      BY <1>2, <3>1
    <3> QED
      BY <3>2
  <2> QED
    BY <2>1
<1>5. SeatsOfCabin(c) = FlattenSeq(parts)
  BY DEF SeatsOfCabin, parts, row
<1>6. Len(FlattenSeq(parts)) = rows * Len(c.letters)
  <2> DEFINE total == [n \in 0..rows |-> n * Len(c.letters)]
  <2>1. total[0] = 0 /\ total[rows] = rows * Len(c.letters)
    BY <1>1
  <2>2. ASSUME NEW n \in 1..rows PROVE total[n] = total[n - 1] + Len(parts[n])
    <3>1. n \in 0..rows /\ n - 1 \in 0..rows /\ n \in Int /\ Len(c.letters) \in Int
      BY <1>1
    <3>2. n * Len(c.letters) = (n - 1) * Len(c.letters) + Len(c.letters)
      BY <3>1, OneMore, Zenon
    <3> QED
      BY <1>2, <3>1, <3>2
  <2> HIDE DEF total
  <2> QED
    BY <1>3, <2>1, <2>2, FlattenedLength
<1>7. PlacesDiffer(FlattenSeq(parts))
  <2>1. ASSUME NEW n \in DOMAIN parts PROVE PlacesDiffer(parts[n])
    <3>1. n \in 1..rows
      BY <1>3
    <3>2. ASSUME NEW i \in DOMAIN parts[n], NEW j \in DOMAIN parts[n], i # j
          PROVE  parts[n][i].letter # parts[n][j].letter
      <4>1. /\ parts[n][i] = [row |-> c.from + n - 1, letter |-> c.letters[i], fareClass |-> c.fareClass]
            /\ parts[n][j] = [row |-> c.from + n - 1, letter |-> c.letters[j], fareClass |-> c.fareClass]
            /\ i \in DOMAIN c.letters /\ j \in DOMAIN c.letters
        BY <1>2, <3>1
      <4>2. c.letters[i] # c.letters[j]
        BY <1>1, <3>2, <4>1
      <4> QED
        BY <4>1, <4>2
    <3> QED
      BY <3>2 DEF PlacesDiffer
  <2>2. \A m, n \in DOMAIN parts : m < n => \A x \in ToSet(parts[m]), y \in ToSet(parts[n]) : x.row # y.row
    BY <1>1, <1>3, <1>4
  <2> QED
    BY <1>3, <2>1, <2>2, FlattenedPlaces
<1>8. /\ FlattenSeq(parts) \in Seq(SeatRecords)
      /\ ToSet(FlattenSeq(parts)) = UNION {ToSet(parts[n]) : n \in DOMAIN parts}
  BY <1>3, FlattenedSet
<1>9. \A s \in ToSet(FlattenSeq(parts)) : s.row \in c.from..c.to /\ s.fareClass = c.fareClass
  BY <1>1, <1>3, <1>4, <1>8
<1> QED
  BY <1>5, <1>6, <1>7, <1>8, <1>9 DEF SeatCount

-------------------------------------------------------------------------------
(* A layout that is accepted *)

\* iter is the sum that TotalSeats folds out of the set of cabin numbers.
Sums(iter, cabins, n) ==
  iter = [s \in SUBSET (1..n) |->
            IF s = {} THEN 0
            ELSE LET x == Max(s) IN iter[s \ {x}] + SeatCount(cabins[x])]

LEMMA MaxUpTo ==
  ASSUME NEW k \in Nat, NEW s \in SUBSET (1..(k + 1)), k + 1 \in s
  PROVE  Max(s) = k + 1
<1>1. k + 1 \in s /\ \A y \in s : k + 1 >= y
  OBVIOUS
<1>2. \A x \in s : (\A y \in s : x >= y) => x = k + 1
  OBVIOUS
<1> QED
  BY <1>1, <1>2 DEF Max

LEMMA MaxIn ==
  ASSUME NEW k \in Nat, NEW s \in SUBSET (1..k), s # {}
  PROVE  Max(s) \in s
<1>1. \E x \in s : \A y \in s : x >= y
  <2> DEFINE Above == {n \in Nat : \A y \in s : n >= y}
  <2>1. k \in Above
    OBVIOUS
  <2>2. PICK n \in Above : \A m \in Above : n <= m
    BY <2>1, FirstOf
  <2>3. ASSUME n \notin s PROVE FALSE
    <3>1. n \in Nat /\ \A y \in s : y \in 1..k /\ n >= y
      BY <2>2
    <3>2. PICK z \in s : z \in 1..k
      OBVIOUS
    <3>3. n # z /\ n >= z
      BY <2>3, <3>1, <3>2
    <3>4. n - 1 \in Nat
      BY <3>1, <3>2, <3>3
    <3>5. ASSUME NEW y \in s PROVE n - 1 >= y
      <4>1. n # y /\ n >= y /\ y \in Int
        BY <2>3, <3>1
      <4> QED
        BY <3>1, <4>1
    <3>6. n - 1 \in Above
      BY <3>4, <3>5
    <3> QED
      BY <2>2, <3>1, <3>6
  <2> QED
    BY <2>2, <2>3
<1> QED
  BY <1>1 DEF Max

LEMMA CanSum ==
  ASSUME NEW cabins, NEW n \in Nat
  PROVE  \E iter : Sums(iter, cabins, n)
<1> DEFINE Good == {m \in Nat : \E iter : Sums(iter, cabins, m)}
<1>1. 0 \in Good
  <2>1. Sums([s \in SUBSET (1..0) |-> 0], cabins, 0)
    BY DEF Sums
  <2> QED
    BY <2>1
<1>2. ASSUME NEW m \in 1..n, m - 1 \in Good PROVE m \in Good
  <2>1. PICK g : Sums(g, cabins, m - 1)
    BY <1>2
  <2> DEFINE h == [s \in SUBSET (1..m) |->
                     IF m \in s THEN g[s \ {m}] + SeatCount(cabins[m]) ELSE g[s]]
  <2>2. ASSUME NEW s \in SUBSET (1..m)
        PROVE  h[s] = IF s = {} THEN 0
                      ELSE LET x == Max(s) IN h[s \ {x}] + SeatCount(cabins[x])
    <3>1. CASE m \in s
      <4>1. Max(s) = m
        <5>1. m - 1 \in Nat /\ (m - 1) + 1 = m
          OBVIOUS
        <5> QED
          BY <3>1, <5>1, MaxUpTo
      <4>2. s \ {m} \in SUBSET (1..m) /\ m \notin s \ {m}
        OBVIOUS
      <4>3. h[s \ {m}] = g[s \ {m}]
        BY <4>2
      <4> QED
        BY <3>1, <4>1, <4>3
    <3>2. CASE m \notin s
      <4>1. s \in SUBSET (1..(m - 1)) /\ h[s] = g[s]
        BY <3>2
      <4>2. g[s] = IF s = {} THEN 0
                   ELSE LET x == Max(s) IN g[s \ {x}] + SeatCount(cabins[x])
        BY <2>1, <4>1 DEF Sums
      <4>3. \A x : h[s \ {x}] = g[s \ {x}]
        BY <3>2
      <4> QED
        BY <4>1, <4>2, <4>3
    <3> QED
      BY <3>1, <3>2
  <2>3. Sums(h, cabins, m)
    BY <2>2 DEF Sums
  <2> QED
    BY <2>3
<1> HIDE DEF Good
<1>3. \A m \in 0..n : m \in Good
  <2>1. \A m \in (0 + 1)..n : m - 1 \in Good => m \in Good
    BY <1>2
  <2> QED
    BY <1>1, <2>1, UpTo
<1> QED
  BY <1>3 DEF Good

\* The total works out as the sum over the cabins, in their order.
LEMMA TotalOfCabins ==
  ASSUME NEW cabins, Len(cabins) \in Nat, DOMAIN cabins = 1..Len(cabins)
  PROVE  \E total : /\ total[0] = 0 /\ total[Len(cabins)] = TotalSeats(cabins)
                    /\ \A n \in 1..Len(cabins) : total[n] = total[n - 1] + SeatCount(cabins[n])
<1> DEFINE iter == CHOOSE g : Sums(g, cabins, Len(cabins))
<1>1. TotalSeats(cabins) = iter[1..Len(cabins)]
  BY DEF TotalSeats, FoldLeft, MapThenFoldSet, Sums
<1>2. Sums(iter, cabins, Len(cabins))
  BY CanSum, Zenon
<1> HIDE DEF iter
<1> DEFINE total == [n \in 0..Len(cabins) |-> iter[1..n]]
<1>3. total[0] = 0 /\ total[Len(cabins)] = TotalSeats(cabins)
  <2>1. 1..0 = {} /\ {} \in SUBSET (1..Len(cabins))
    OBVIOUS
  <2> QED
    BY <1>1, <1>2, <2>1 DEF Sums
<1>4. ASSUME NEW n \in 1..Len(cabins) PROVE total[n] = total[n - 1] + SeatCount(cabins[n])
  <2>1. /\ n - 1 \in Nat /\ (n - 1) + 1 = n /\ n \in 1..n /\ 1..n # {}
        /\ 1..n \in SUBSET (1..Len(cabins)) /\ (1..n) \ {n} = 1..(n - 1)
    <3>1. n \in Nat /\ 1 <= n /\ n <= Len(cabins)
      OBVIOUS
    <3>2. n - 1 \in Nat /\ (n - 1) + 1 = n /\ n \in 1..n /\ 1..n \subseteq 1..Len(cabins)
      BY <3>1
    <3>3. (1..n) \ {n} = 1..(n - 1)
      BY <3>1
    <3> QED
      BY <3>2, <3>3
  <2>2. Max(1..n) = n
    BY <2>1, MaxUpTo
  <2>3. iter[1..n] = iter[1..(n - 1)] + SeatCount(cabins[n])
    BY <1>2, <2>1, <2>2 DEF Sums
  <2> QED
    BY <2>3
<1> QED
  BY <1>3, <1>4

\* As many places as seats when no two of them are the same.
LEMMA PlacesCounted ==
  ASSUME NEW seats \in Seq(SeatRecords), PlacesDiffer(seats)
  PROVE  Cardinality({<<s.row, s.letter>> : s \in ToSet(seats)}) = Len(seats)
<1> DEFINE places == {<<s.row, s.letter>> : s \in ToSet(seats)}
           place == [i \in 1..Len(seats) |-> <<seats[i].row, seats[i].letter>>]
<1>1. Len(seats) \in Nat /\ DOMAIN seats = 1..Len(seats)
  OBVIOUS
<1>2. \A i \in 1..Len(seats) : place[i] \in places
  BY <1>1 DEF ToSet
<1>3. \A i, j \in 1..Len(seats) : place[i] = place[j] => i = j
  BY <1>1 DEF PlacesDiffer
<1>4. ASSUME NEW p \in places PROVE \E i \in 1..Len(seats) : place[i] = p
  <2>1. PICK s \in ToSet(seats) : p = <<s.row, s.letter>>
    OBVIOUS
  <2>2. PICK i \in 1..Len(seats) : s = seats[i]
    BY <1>1 DEF ToSet
  <2> QED
    BY <2>1, <2>2
<1>5. place \in [1..Len(seats) -> places]
  BY <1>2
<1> HIDE DEF place, places
<1>6. place \in Bijection(1..Len(seats), places)
  BY <1>3, <1>4, <1>5, Fun_IsBij
<1>7. ExistsBijection(1..Len(seats), places)
  BY <1>6 DEF ExistsBijection
<1>8. Cardinality(places) = Len(seats)
  BY <1>1, <1>7, FS_CountingElements
<1> QED
  BY <1>8 DEF places

\* Accepted cabins, of any number and any size, list every place once and no row in two classes
\* (parseSeatLayout and expandSeatLayout), and the total worked out before is the number of seats.
THEOREM AcceptedLayoutFits ==
  ASSUME NEW cabins \in Seq(Cabins), AcceptsLayout(cabins)
  PROVE  LayoutFits(cabins)
<1> DEFINE parts == [i \in DOMAIN cabins |-> SeatsOfCabin(cabins[i])]
<1>1. /\ Len(cabins) \in Nat /\ DOMAIN cabins = 1..Len(cabins)
      /\ \A i \in 1..Len(cabins) : cabins[i] \in Cabins /\ ParseCabin(cabins[i])
      /\ \A i, j \in 1..Len(cabins) : i < j => ~Overlap(cabins[i], cabins[j])
      /\ TotalSeats(cabins) <= MaxSeats
  BY DEF AcceptsLayout
<1>2. ASSUME NEW i \in 1..Len(cabins)
      PROVE  /\ parts[i] \in Seq(SeatRecords) /\ Len(parts[i]) = SeatCount(cabins[i])
             /\ PlacesDiffer(parts[i])
             /\ \A s \in ToSet(parts[i]) :
                  s.row \in cabins[i].from..cabins[i].to /\ s.fareClass = cabins[i].fareClass
  <2>1. parts[i] = SeatsOfCabin(cabins[i])
    BY <1>1
  <2>2. cabins[i] \in Cabins /\ ParseCabin(cabins[i])
    BY <1>1
  <2> HIDE DEF parts
  <2> QED
    BY <2>1, <2>2, CabinSeats
<1>3. parts \in Seq(Seq(SeatRecords)) /\ Len(parts) = Len(cabins) /\ DOMAIN parts = 1..Len(cabins)
  <2>1. parts \in [1..Len(cabins) -> Seq(SeatRecords)] /\ DOMAIN parts = 1..Len(cabins)
    BY <1>1, <1>2
  <2> HIDE DEF parts
  <2>2. parts \in Seq(Seq(SeatRecords))
    BY <1>1, <2>1
  <2> QED
    BY <1>1, <2>1, <2>2
<1>4. ExpandSeatLayout(cabins) = FlattenSeq(parts)
  BY DEF ExpandSeatLayout
<1> HIDE DEF parts
<1> DEFINE seats == FlattenSeq(parts)
<1>5. /\ seats \in Seq(SeatRecords)
      /\ ToSet(seats) = UNION {ToSet(parts[i]) : i \in 1..Len(cabins)}
  BY <1>3, FlattenedSet
<1>6. ASSUME NEW i \in 1..Len(cabins), NEW j \in 1..Len(cabins), i # j,
             NEW s \in ToSet(parts[i]), NEW u \in ToSet(parts[j])
      PROVE  s.row # u.row
  <2>1. ~(cabins[i].from <= cabins[j].to /\ cabins[j].from <= cabins[i].to)
    BY <1>1, <1>6 DEF Overlap
  <2>2. s.row \in cabins[i].from..cabins[i].to /\ u.row \in cabins[j].from..cabins[j].to
    BY <1>2
  <2>3. {cabins[i].from, cabins[i].to, cabins[j].from, cabins[j].to} \subseteq Int
    BY <1>1 DEF Cabins
  <2> QED
    BY <2>1, <2>2, <2>3
<1>7. PlacesDiffer(seats)
  <2>1. \A i \in DOMAIN parts : PlacesDiffer(parts[i])
    BY <1>2, <1>3
  <2>2. \A i, j \in DOMAIN parts : i < j => \A x \in ToSet(parts[i]), y \in ToSet(parts[j]) : x.row # y.row
    BY <1>3, <1>6
  <2> QED
    BY <1>3, <2>1, <2>2, FlattenedPlaces
<1>8. Len(seats) = TotalSeats(cabins)
  <2>1. PICK total : /\ total[0] = 0 /\ total[Len(cabins)] = TotalSeats(cabins)
                     /\ \A n \in 1..Len(cabins) : total[n] = total[n - 1] + SeatCount(cabins[n])
    BY <1>1, TotalOfCabins
  <2>2. \A n \in 1..Len(parts) : total[n] = total[n - 1] + Len(parts[n])
    BY <1>2, <1>3, <2>1
  <2>3. Len(seats) = total[Len(parts)]
    BY <1>3, <2>1, <2>2, FlattenedLength
  <2> QED
    BY <1>3, <2>1, <2>3
<1>9. ASSUME NEW s \in ToSet(seats), NEW u \in ToSet(seats), s.row = u.row
      PROVE  s.fareClass = u.fareClass
  <2>1. PICK i \in 1..Len(cabins) : s \in ToSet(parts[i])
    BY <1>5
  <2>2. PICK j \in 1..Len(cabins) : u \in ToSet(parts[j])
    BY <1>5
  <2>3. i = j
    BY <1>6, <1>9, <2>1, <2>2
  <2> QED
    BY <1>2, <2>1, <2>2, <2>3
<1>10. Cardinality({<<s.row, s.letter>> : s \in ToSet(seats)}) = Len(seats)
  BY <1>5, <1>7, PlacesCounted
<1> HIDE DEF seats
<1>11. ExpandSeatLayout(cabins) = seats
  BY <1>4 DEF seats
<1> QED
  BY <1>1, <1>8, <1>9, <1>10, <1>11 DEF LayoutFits
================================================================================
