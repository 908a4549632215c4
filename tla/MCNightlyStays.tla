--------------------------- MODULE MCNightlyStays ---------------------------
(* Small instances of NightlyStays for TLC: one apartment sold through two   *)
(* listings, a second apartment, and a calendar of a few days.               *)
EXTENDS NightlyStays, TLC

CONSTANTS ana, boris, vera,    \* guests, and the owner of both apartments
          flat, loft,          \* apartments
          l1, l2               \* listings

\* Sessions, rows and request identifiers are interchangeable.
Interchangeable == Permutations(Sessions) \cup Permutations(StayIds)
  \cup Permutations(BlockIds) \cup Permutations(ChangeIds)
  \cup Permutations(Requests)

MCUsers == {ana, boris, vera}
MCOwner == [v \in Venues |-> vera]

\* Overlapping and adjacent stays.
Range2 == {[in |-> 1, out |-> 2], [in |-> 2, out |-> 4]}

Open(v, gap, price) ==
  [venue |-> v, short |-> TRUE, published |-> TRUE, enabled |-> TRUE,
   gap |-> gap, notice |-> 1, window |-> 9, minNights |-> 1, maxNights |-> 2,
   price |-> price]
Closed(v) == [Open(v, 0, 7) EXCEPT !.enabled = FALSE]

\* Listings of one apartment that may move to the other.
MoveOffers == {Open(flat, 0, 7), Open(loft, 0, 7), Closed(loft)}
SharedFlat == {[l \in Listings |-> Open(flat, 0, 7)]}
=============================================================================
