-------------------------- MODULE NightlyCalendar --------------------------
(* The tables of NightlyStays read as an ApartmentCalendar: confirmed stays  *)
(* and active blocks are placed, cancelled stays and removed blocks are gone. *)
EXTENDS NightlyStays

StayEntries == {"stay"} \X StayIds
BlockEntries == {"block"} \X BlockIds

EntryOf(row, live) ==
  CASE row.status = "none" -> [state |-> "free"]
    [] row.status = live ->
         [state |-> "placed", venue |-> row.venue, dates |-> row.dates]
    [] OTHER -> [state |-> "gone"]

Calendar ==
  [e \in StayEntries \cup BlockEntries |->
     IF e \in StayEntries THEN EntryOf(stays[e[2]], "confirmed")
                          ELSE EntryOf(blocks[e[2]], "active")]

Abstract == INSTANCE ApartmentCalendar
  WITH Entries <- StayEntries \cup BlockEntries, Movable <- StayEntries,
       calendar <- Calendar

\* Every commit of every handler is one atomic step of the calendar, or leaves
\* it alone: the interleaving of locks, checks and commits cannot be observed.
ImplementsCalendar == Abstract!Spec
=============================================================================
