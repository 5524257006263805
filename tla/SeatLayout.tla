------------------------------- MODULE SeatLayout -------------------------------
(***************************************************************************)
(* An aircraft's seat layout: from the compact description a request       *)
(* carries (cabins of whole rows) to one seat per position, or to a        *)
(* refusal (seat-layout.ts, seat-position.ts).                             *)
(*                                                                         *)
(* A cabin is [fareClass, from, to, letters], letters being a sequence as  *)
(* the request spells it.  A seat is [row, letter, fareClass].             *)
(***************************************************************************)
EXTENDS Integers, FiniteSets, SequencesExt

CONSTANTS
  SeatLetters,  \* A to K
  MaxRow,       \* MAX_ROW
  MaxCabins,    \* SEAT_LAYOUT_LIMITS.maxCabins
  MaxLetters,   \* SEAT_LAYOUT_LIMITS.maxLettersPerRow
  MaxSeats      \* SEAT_LAYOUT_LIMITS.maxSeats

ASSUME LayoutLimitsAssumption ==
  {MaxRow, MaxCabins, MaxLetters, MaxSeats} \subseteq Nat \ {0}

LayoutClasses == {"ECONOMY", "BUSINESS"}

\* A cabin as the body is parsed, before any of it is judged.
Cabins == [fareClass : STRING, from : Int, to : Int, letters : Seq(STRING)]

IsSeatRow(n) == n \in 1..MaxRow

ParseSeatLetters(letters) ==
  /\ Len(letters) \in 1..MaxLetters
  /\ ToSet(letters) \subseteq SeatLetters
  /\ IsInjective(letters)

ParseCabin(c) ==
  /\ c.fareClass \in LayoutClasses
  /\ IsSeatRow(c.from) /\ IsSeatRow(c.to) /\ c.from <= c.to
  /\ ParseSeatLetters(c.letters)

\* Mutant of Overlap: two cabins that meet in one row are let through.
OverlapInTwoRows(c, d) == c.from < d.to /\ d.from < c.to

\* Some row belongs to both cabins, whatever their letters.
Overlap(c, d) == c.from <= d.to /\ d.from <= c.to

\* The total is worked out from the numbers, before any seat is listed.
SeatCount(c) == (c.to - c.from + 1) * Len(c.letters)

TotalSeats(cabins) == FoldLeft(LAMBDA total, c : total + SeatCount(c), 0, cabins)

AcceptsLayout(cabins) ==
  /\ Len(cabins) \in 1..MaxCabins
  /\ \A i \in DOMAIN cabins : ParseCabin(cabins[i])
  /\ \A i, j \in DOMAIN cabins : i < j => ~Overlap(cabins[i], cabins[j])
  /\ TotalSeats(cabins) <= MaxSeats

\* Row by row, letter by letter, in the order the cabins were given.
SeatsOfCabin(c) ==
  LET row(n) == [i \in DOMAIN c.letters |->
                   [row |-> n, letter |-> c.letters[i], fareClass |-> c.fareClass]]
  IN FlattenSeq([n \in 1..(c.to - c.from + 1) |-> row(c.from + n - 1)])

ExpandSeatLayout(cabins) == FlattenSeq([i \in DOMAIN cabins |-> SeatsOfCabin(cabins[i])])

\* countSeatsByFareClass, as far as anybody asks: which classes have a seat.
ClassesOfSeats(seats) == {s.fareClass : s \in seats}

\* What the tables ask of a layout: each place once (PK_seats), no more seats
\* than the limit, and one class to a row.
LayoutFits(cabins) ==
  LET seats == ExpandSeatLayout(cabins) IN
  /\ Cardinality({<<s.row, s.letter>> : s \in ToSet(seats)}) = Len(seats)
  /\ Len(seats) = TotalSeats(cabins) /\ Len(seats) <= MaxSeats
  /\ \A s, u \in ToSet(seats) : s.row = u.row => s.fareClass = u.fareClass
================================================================================
