-------------------------- MODULE ApartmentCalendar --------------------------
(***************************************************************************)
(* What the nightly inventory promises, without sessions, locks or tables:  *)
(* a calendar per apartment in which every entry (a stay or an owner block) *)
(* is reserved, moved and released in one step, only ever onto free nights, *)
(* and in which a released entry is gone for good.                          *)
(***************************************************************************)
EXTENDS Integers

CONSTANTS Entries,   \* what may lie on a calendar: stays and blocks
          Movable,   \* the entries whose dates may change: stays
          Venues, Dates

VARIABLE calendar

Free == [state |-> "free"]
Gone == [state |-> "gone"]
Placed == [state : {"placed"}, venue : Venues, dates : Dates]

Shares(d, e) == d.in < e.out /\ e.in < d.out

FreeFor(e, v, d) ==
  \A f \in Entries \ {e} :
    /\ calendar[f].state = "placed" /\ calendar[f].venue = v
    => ~Shares(calendar[f].dates, d)

Place(e, v, d) ==
  /\ FreeFor(e, v, d)
  /\ calendar' = [calendar EXCEPT ![e] =
                    [state |-> "placed", venue |-> v, dates |-> d]]

Reserve(e, v, d) == calendar[e] = Free /\ Place(e, v, d)

Move(e, d) ==
  /\ e \in Movable /\ calendar[e].state = "placed"
  /\ Place(e, calendar[e].venue, d)

Release(e) ==
  /\ calendar[e].state = "placed"
  /\ calendar' = [calendar EXCEPT ![e] = Gone]

Init == calendar = [e \in Entries |-> Free]

Next ==
  \E e \in Entries :
    \/ \E v \in Venues, d \in Dates : Reserve(e, v, d)
    \/ \E d \in Dates : Move(e, d)
    \/ Release(e)

Spec == Init /\ [][Next]_calendar

TypeOK == calendar \in [Entries -> Placed \cup {Free, Gone}]

\* No night of an apartment belongs to two entries.
NoSharedNight ==
  \A e, f \in Entries :
    /\ e # f /\ calendar[e].state = "placed" /\ calendar[f].state = "placed"
    /\ calendar[e].venue = calendar[f].venue
    => ~Shares(calendar[e].dates, calendar[f].dates)
=============================================================================
