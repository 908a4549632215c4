--------------------------- MODULE MCNightlyLocks ---------------------------
(* Instances of NightlyLocks: three sessions, so that cycles of two and of   *)
(* three exist; and two hosts who book each other's apartments.              *)
EXTENDS MCNightlyStays, NightlyLocks

\* vera owns the flat, boris the loft.
Neighbours == [v \in Venues |-> IF v = flat THEN vera ELSE boris]
NeighbourOffers == {Open(flat, 0, 7), Open(loft, 0, 7)}
NeighbourCatalogue ==
  {[l \in Listings |-> IF l = l1 THEN Open(flat, 0, 7) ELSE Open(loft, 0, 7)]}

OneRange == {[in |-> 1, out |-> 2]}
TwoRanges == {[in |-> 1, out |-> 2], [in |-> 2, out |-> 3]}
=============================================================================
