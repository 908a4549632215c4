--------------------------- MODULE MCHomesAndPeople ---------------------------
(* A small instance of HomesAndPeople for TLC.                               *)
EXTENDS HomesAndPeople, TLC

CONSTANTS ana, vera, villa, s1, s2, i1, i2, a1, a2, r1, r2

Swaps == Permutations({s1, s2}) \cup Permutations({i1, i2})
  \cup Permutations({a1, a2}) \cup Permutations({r1, r2})

\* Two inquiries about listings of one venue.
OneVenue == i1 :> villa @@ i2 :> villa

\* The dates of a stay, and those it may be moved to.
InTurn == {[in |-> 1, out |-> 2], [in |-> 2, out |-> 3]}

\* Keys and links run out while people sign in, links and waiting times while
\* they sign up.
Ticks == SessionOps :> 1 @@ RoleOps :> 0 @@ SignUpOps :> 2

\* Calendars with ranges that meet, and one that is emptied.
Meeting == {{[from |-> 0, to |-> 1]}, {[from |-> 0, to |-> 2]}}
EmptyOrADay == {{}, {[from |-> 0, to |-> 1]}}
=============================================================================
