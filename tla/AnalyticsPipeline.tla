------------------------- MODULE AnalyticsPipeline -------------------------
(***************************************************************************)
(* The warehouse of a venue's bookings: a row per day for the venue and one *)
(* per day and resource.  A refresh reads the reservations of its days,     *)
(* computes both tables and replaces the rows of these days in one          *)
(* transaction.  The database runs each statement on what was committed     *)
(* when it began (read committed); a deletion waits for rows another        *)
(* refresh has deleted and finds them gone when that one commits.           *)
(***************************************************************************)
EXTENDS Integers, FiniteSets, FiniteSetsExt

CONSTANTS
  Reservations, Resources, Days,
  Workers,        \* the nightly task and administrators' backfills
  MaxRuns,        \* bound on the refreshes
  Changes,        \* what happens to reservations: "book", "move", "cancel"
  None

VARIABLES
  reservations,   \* where each reservation is and whether it is cancelled
  resourceRows, venueRows,
  work,           \* what each worker is doing
  runs            \* refreshes begun

vars == <<reservations, resourceRows, venueRows, work, runs>>

Idle == [step |-> "idle"]
NotBooked == [resource |-> None, day |-> None, cancelled |-> FALSE]

Init ==
  /\ reservations \in
       [Reservations -> [resource : Resources, day : Days, cancelled : {FALSE}]
                        \cup {NotBooked}]
  /\ resourceRows = {} /\ venueRows = {}
  /\ work = [w \in Workers |-> Idle]
  /\ runs = 0

-----------------------------------------------------------------------------
(* Bookings, as far as the metrics see them. *)

Book(i, r, day) ==
  /\ "book" \in Changes /\ reservations[i] = NotBooked
  /\ reservations' = [reservations EXCEPT ![i] =
       [resource |-> r, day |-> day, cancelled |-> FALSE]]
  /\ UNCHANGED <<resourceRows, venueRows, work, runs>>

Move(i, day) ==
  /\ "move" \in Changes /\ reservations[i] # NotBooked
  /\ ~reservations[i].cancelled /\ reservations[i].day # day
  /\ reservations' = [reservations EXCEPT ![i].day = day]
  /\ UNCHANGED <<resourceRows, venueRows, work, runs>>

Cancel(i) ==
  /\ "cancel" \in Changes /\ reservations[i] # NotBooked
  /\ ~reservations[i].cancelled
  /\ reservations' = [reservations EXCEPT ![i].cancelled = TRUE]
  /\ UNCHANGED <<resourceRows, venueRows, work, runs>>

-----------------------------------------------------------------------------
(* Aggregation. *)

\* The additive metrics of a bucket of reservations.
Metrics(rows) ==
  [count |-> Cardinality(rows),
   cancelled |-> Cardinality({row \in rows : row.cancelled})]

\* A resource or a venue has a row on the days on which it has reservations.
OfResources(rows, run) ==
  {[day |-> key.day, resource |-> key.resource, run |-> run,
    metrics |-> Metrics({row \in rows : row.day = key.day
                                        /\ row.resource = key.resource})] :
     key \in rows}
OfVenue(rows, run) ==
  {[day |-> key.day, run |-> run,
    metrics |-> Metrics({row \in rows : row.day = key.day})] : key \in rows}

-----------------------------------------------------------------------------
(* A refresh. *)

Refresh(w, days) ==
  /\ work[w] = Idle /\ runs < MaxRuns
  /\ runs' = runs + 1
  /\ LET rows == {[id |-> i, day |-> reservations[i].day,
                   resource |-> reservations[i].resource,
                   cancelled |-> reservations[i].cancelled] :
                    i \in {j \in Reservations : reservations[j].day \in days}}
     IN work' = [work EXCEPT ![w] =
          [step |-> "resources", days |-> days, run |-> runs + 1,
           rows |-> rows, seen |-> None, gone |-> {}]]
  /\ UNCHANGED <<reservations, resourceRows, venueRows>>

Table(step) == IF step = "resources" THEN resourceRows ELSE venueRows

\* A deletion begins: it concerns the rows committed by now.
DeleteBegin(w) ==
  /\ work[w].step \in {"resources", "venues"} /\ work[w].seen = None
  /\ work' = [work EXCEPT ![w].seen =
       {row \in Table(work[w].step) : row.day \in work[w].days}]
  /\ UNCHANGED <<reservations, resourceRows, venueRows, runs>>

\* It waits for those another refresh has deleted and not committed.
DeleteEnd(w) ==
  /\ work[w].step \in {"resources", "venues"} /\ work[w].seen # None
  /\ LET rows == work[w].seen \cap Table(work[w].step) IN
       /\ \A x \in Workers \ {w} : work[x] # Idle => rows \cap work[x].gone = {}
       /\ work' = [work EXCEPT
            ![w].gone = @ \cup rows, ![w].seen = None,
            ![w].step = IF @ = "resources" THEN "venues" ELSE "insert"]
  /\ UNCHANGED <<reservations, resourceRows, venueRows, runs>>

\* A day has one row for the venue and one for each resource.
KeysFree(rows, added) ==
  \A old \in rows, new \in added :
    old.day = new.day => "resource" \in DOMAIN old /\ old.resource # new.resource

Commit(w) ==
  /\ work[w].step = "insert"
  /\ LET resourcesLeft == resourceRows \ work[w].gone
         venueLeft == venueRows \ work[w].gone
         resources == OfResources(work[w].rows, work[w].run)
         venue == OfVenue(work[w].rows, work[w].run)
     IN /\ KeysFree(resourcesLeft, resources) /\ KeysFree(venueLeft, venue)
        /\ resourceRows' = resourcesLeft \cup resources
        /\ venueRows' = venueLeft \cup venue
  /\ work' = [work EXCEPT ![w] = Idle]
  /\ UNCHANGED <<reservations, runs>>

\* A key that is taken, or a crash, rolls everything back.
Abort(w) ==
  /\ work[w] # Idle /\ work' = [work EXCEPT ![w] = Idle]
  /\ UNCHANGED <<reservations, resourceRows, venueRows, runs>>

Next ==
  \/ \E i \in Reservations :
       \/ Cancel(i)
       \/ \E day \in Days : Move(i, day) \/ \E r \in Resources : Book(i, r, day)
  \/ \E w \in Workers :
       \/ \E days \in SUBSET Days \ {{}} : Refresh(w, days)
       \/ DeleteBegin(w) \/ DeleteEnd(w) \/ Commit(w) \/ Abort(w)

Spec == Init /\ [][Next]_vars

-----------------------------------------------------------------------------
(* Properties. *)

\* On every day the metrics of the venue are the sums of those of its
\* resources: a reader of the warehouse never sees a day of which one table is
\* of one refresh and the other of another.  It holds of days whose bookings
\* neither come nor go, and is broken on days still being booked.
TablesReconcile ==
  \A day \in Days :
    LET venue == {row \in venueRows : row.day = day}
        resources == {row \in resourceRows : row.day = day}
        Total(F(_), rows) == MapThenSumSet(F, rows)
    IN /\ Total(LAMBDA row : row.metrics.count, venue)
            = Total(LAMBDA row : row.metrics.count, resources)
       /\ Total(LAMBDA row : row.metrics.cancelled, venue)
            = Total(LAMBDA row : row.metrics.cancelled, resources)
=============================================================================
