--------------------------- MODULE MCHourlyParts ---------------------------
(* A small instance of HourlyParts for TLC.                                  *)
EXTENDS HourlyParts, TLC

CONSTANTS ana, boris, court, s1, s2, carl, dora, i1, i2, k1, k2, x1, x2

Swaps == Permutations({s1, s2}) \cup Permutations({i1, i2})
  \cup Permutations({k1, k2}) \cup Permutations({ana, boris})

At(a, b) == [start |-> a, end |-> b]

\* One slot, and where it may be moved.
OneSlot == {{At(2, 3)}}
LaterSlots == {At(2, 4)}
TwoPlaces == [r \in Resources |-> 2]
AnyLength == [notice |-> 0, advance |-> 9, shortest |-> 1, longest |-> 9,
              limit |-> 9]

Ask(u, x, slots, n, code) ==
  [user |-> u, resource |-> x, slots |-> slots, quantity |-> n, code |-> code]
\* One add-on of which the venue has one, in two resources; a promotion for two
\* bookings, and a series that takes both.
Competing == {Ask(carl, x1, {1}, 1, TRUE), Ask(dora, x2, {2}, 1, FALSE),
              Ask(dora, x2, {1, 2}, 0, TRUE)}
\* One customer whom the owner blocks twice.
OfTheBlocked == {Ask(carl, x1, {1}, 0, FALSE), Ask(carl, x1, {2}, 1, FALSE)}
=============================================================================
