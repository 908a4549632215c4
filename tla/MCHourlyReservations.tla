------------------------ MODULE MCHourlyReservations ------------------------
(* Small instances of HourlyReservations for TLC.                            *)
EXTENDS HourlyReservations, TLC

CONSTANTS ana, boris, vera, court, s1, s2

Interchangeable == Permutations(Users) \cup Permutations(Rows)
  \cup Permutations(Sessions) \cup Permutations(Keys) \cup Permutations(Checkouts)

At(a, b) == [start |-> a, end |-> b]

\* Slots that overlap or touch.
LongAndShort == {{At(1, 3)}, {At(1, 2)}}
NextSlot == {At(2, 3)}
\* A series that overlaps itself, and a single slot inside it.
OverlappingSeries == {{At(1, 3), At(2, 4)}, {At(2, 3)}}
\* One slot, and where it may be moved.
OneSlot == {{At(2, 3)}}
LongSlot == {{At(1, 3)}}
LaterSlots == {At(2, 4)}
EarlierOrLater == {At(1, 2), At(4, 6)}
NoMoves == {}

OnePlace == [r \in Resources |-> 1]
TwoPlaces == [r \in Resources |-> 2]
AnyLength == [notice |-> 0, advance |-> 9, shortest |-> 1, longest |-> 9,
              limit |-> 9]
OneEach == [AnyLength EXCEPT !.limit = 1]
=============================================================================
