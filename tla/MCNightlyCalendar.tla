------------------------- MODULE MCNightlyCalendar -------------------------
(* The instance for the refinement check: a booking, a date change and a     *)
(* block compete for one apartment that two listings sell.  Owners may also  *)
(* list the second apartment, edit listings and add hourly resources, and    *)
(* the day may end; races with those are in MCNightlyParts.                  *)
EXTENDS MCNightlyStays, NightlyCalendar

CONSTANT l3    \* the listing still to be made

FlatOrLoft == {Open(flat, 0, 7), Open(loft, 0, 7)}
OneFlatFirst == {[l \in Listings |-> IF l = l3 THEN None ELSE Open(flat, 0, 7)]}

\* The two guests and the two listings of the flat are interchangeable too.
Alike == Interchangeable \cup Permutations({ana, boris})
                         \cup Permutations({l1, l2})

\* Bound: the catalogue changes, and the day ends, only while the calendar is
\* empty.
Rearranging ==
  \/ listing \notin Catalogues \/ hourly # {} \/ today > 0
  \/ \E s \in Sessions : \/ job[s].op \in {"list", "edit", "resource"}
                         \/ job[s].listing = l3
CatalogueFirst ==
  Rearranging =>
    /\ \A i \in StayIds : stays[i].status = "none"
    /\ \A b \in BlockIds : blocks[b].status = "none"
=============================================================================
