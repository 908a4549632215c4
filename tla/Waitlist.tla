------------------------------ MODULE Waitlist ------------------------------
(***************************************************************************)
(* Who is told that a time of a resource became free.  Joining looks for a  *)
(* reservation without a lock; a freed time picks the oldest entry within   *)
(* it FOR UPDATE SKIP LOCKED, marks it, and notifies in a second            *)
(* transaction.                                                             *)
(***************************************************************************)
EXTENDS Integers, FiniteSets, FiniteSetsExt

CONSTANTS
  Users,
  Hours,          \* the hours of one resource; a time is an interval of them
  Entries,        \* rows of the waitlist (bound)
  Sessions,       \* requests served at a time
  MaxBookings,    \* bound on the reservations
  None

VARIABLES
  booked,         \* the times reserved, with their owners
  entry,          \* rows of the waitlist
  freed,          \* times that were given up and await their notification
  inbox,          \* history: how often the user of each entry was told
  work,           \* what each session is doing
  count           \* how many reservations and entries there were

vars == <<booked, entry, freed, inbox, work, count>>

Times == {t \in Hours \X Hours : t[1] <= t[2]}
Within(a, b) == b[1] <= a[1] /\ a[2] <= b[2]
Overlap(a, b) == a[1] <= b[2] /\ b[1] <= a[2]

NoEntry == [status |-> "none", user |-> None, time |-> <<0, 0>>, since |-> 0]
Idle == [op |-> "idle"]

Init ==
  /\ booked = {}
  /\ entry = [e \in Entries |-> NoEntry]
  /\ freed = {}
  /\ inbox = [e \in Entries |-> 0]
  /\ work = [s \in Sessions |-> Idle]
  /\ count = [bookings |-> 0, entries |-> 0]

Finish(s) == work' = [work EXCEPT ![s] = Idle]

Book(u, t) ==
  /\ count.bookings < MaxBookings /\ \A b \in booked : ~Overlap(b.time, t)
  /\ booked' = booked \cup {[user |-> u, time |-> t]}
  /\ count' = [count EXCEPT !.bookings = @ + 1]
  /\ UNCHANGED <<entry, freed, inbox, work>>

\* A cancellation, or the old time of a rescheduling, after its commit.
Free(b) ==
  /\ b \in booked /\ booked' = booked \ {b} /\ freed' = freed \cup {b.time}
  /\ UNCHANGED <<entry, inbox, work, count>>

-----------------------------------------------------------------------------
(* Joining and leaving. *)

Waiting(u, t) == \E e \in Entries :
  entry[e].status = "waiting" /\ entry[e].user = u /\ entry[e].time = t

JoinRead(s, u, t) ==
  /\ work[s] = Idle /\ \E b \in booked : Overlap(b.time, t) /\ b.user # u
  /\ ~Waiting(u, t)
  /\ work' = [work EXCEPT ![s] = [op |-> "join", user |-> u, time |-> t]]
  /\ UNCHANGED <<booked, entry, freed, inbox, count>>

\* The partial unique index refuses a second waiting entry.
Insertable(u, t) == ~Waiting(u, t)

JoinCommit(s) ==
  LET w == work[s] IN
  /\ w.op = "join" /\ Insertable(w.user, w.time)
  /\ \E e \in Entries :
       /\ entry[e].status = "none"
       /\ entry' = [entry EXCEPT ![e] = [status |-> "waiting", user |-> w.user,
                                         time |-> w.time, since |-> count.entries]]
  /\ count' = [count EXCEPT !.entries = @ + 1]
  /\ Finish(s)
  /\ UNCHANGED <<booked, freed, inbox>>

JoinRefuse(s) ==
  /\ work[s].op = "join"
  /\ ~Insertable(work[s].user, work[s].time) \/ \A e \in Entries : entry[e].status # "none"
  /\ Finish(s)
  /\ UNCHANGED <<booked, entry, freed, inbox, count>>

Locked(e) == \E s \in Sessions : work[s].op = "mark" /\ work[s].entry = e

Leave(e) ==
  /\ entry[e].status \in {"waiting", "notified"} /\ ~Locked(e)
  /\ entry' = [entry EXCEPT ![e].status = "left"]
  /\ UNCHANGED <<booked, freed, inbox, work, count>>

-----------------------------------------------------------------------------
(* Telling the next one. *)

\* Defect: rows that another request has picked are read without a lock.
Unlocked(t) == {e \in Entries : entry[e].status = "waiting" /\ Within(entry[e].time, t)}

Candidates(t) ==
  {e \in Entries : entry[e].status = "waiting" /\ Within(entry[e].time, t) /\ ~Locked(e)}

\* Defect: any entry within the time is taken.
SomeEntry(e, t) == TRUE
Oldest(e, t) == \A f \in Candidates(t) : entry[e].since <= entry[f].since

Pick(s, t) ==
  /\ work[s] = Idle /\ t \in freed /\ freed' = freed \ {t}
  /\ \E e \in Candidates(t) :
       /\ Oldest(e, t)
       /\ work' = [work EXCEPT ![s] = [op |-> "mark", entry |-> e]]
  /\ UNCHANGED <<booked, entry, inbox, count>>

PickNobody(t) ==
  /\ t \in freed /\ Candidates(t) = {} /\ freed' = freed \ {t}
  /\ UNCHANGED <<booked, entry, inbox, work, count>>

MarkNotified(s) ==
  /\ work[s].op = "mark"
  /\ entry' = [entry EXCEPT ![work[s].entry].status = "notified"]
  /\ work' = [work EXCEPT ![s].op = "tell"]
  /\ UNCHANGED <<booked, freed, inbox, count>>

Tell(s) ==
  /\ work[s].op = "tell" /\ inbox' = [inbox EXCEPT ![work[s].entry] = @ + 1]
  /\ Finish(s)
  /\ UNCHANGED <<booked, entry, freed, count>>

Next ==
  \/ \E b \in booked : Free(b)
  \/ \E e \in Entries : Leave(e)
  \/ \E t \in Times :
       PickNobody(t) \/ \E u \in Users : Book(u, t) \/ \E s \in Sessions : JoinRead(s, u, t)
  \/ \E s \in Sessions :
       \/ JoinCommit(s) \/ JoinRefuse(s) \/ MarkNotified(s) \/ Tell(s)
       \/ \E t \in Times : Pick(s, t)

Spec == Init /\ [][Next]_vars

-----------------------------------------------------------------------------
(* Properties. *)

\* Two times that are given up at once never tell the same entry.
ToldOnce == \A e \in Entries : inbox[e] <= 1

\* Nobody is told before somebody who waits longer for a time within the freed
\* one, unless that entry is being told already.
PicksOldest ==
  \A s \in Sessions, e \in Entries :
    work'[s] # work[s] /\ work'[s] = [op |-> "mark", entry |-> e] =>
      \A f \in Entries :
        /\ entry[f].status = "waiting" /\ Within(entry[f].time, entry[e].time)
        /\ entry[f].since < entry[e].since
        => \E t \in Sessions \ {s} : work[t] = [op |-> "mark", entry |-> f]
OldestFirst == [][PicksOldest]_vars
=============================================================================
