--------------------------- MODULE StayFollowUps ----------------------------
(***************************************************************************)
(* What follows a nightly stay: the reminders of the day before arrival and  *)
(* departure, written by a periodic job, and the guest's review after        *)
(* checkout, while the stay may still be cancelled or moved.                 *)
(*                                                                          *)
(* Reminders and date changes lock the listing, the venue and the stay, in   *)
(* this order; cancellation and review lock the stay.  Every one of them     *)
(* therefore is decided under the stay's lock.                               *)
(***************************************************************************)
EXTENDS Integers, FiniteSets

CONSTANTS
  Guest, Host,    \* one account if the owner stays at his own property
  Dates,          \* the dates a stay may have: in and out
  Sessions,       \* requests and jobs that are served at a time
  MaxMoves,       \* bound on the date changes
  LastTick        \* bound on the clock

VARIABLES
  clock,          \* two ticks a day: the night and, from nine, the day
  stay,           \* status and dates
  enabled,        \* whose reminders are switched on
  delivered,      \* rows of stay_reminder_deliveries
  review,         \* the review of the stay exists
  moves,
  work            \* what each session is doing

vars == <<clock, stay, enabled, delivered, review, moves, work>>

Idle == [op |-> "idle"]
Day(t) == t \div 2
Nine(t) == t % 2 = 1
Kinds == {"arrival", "departure"}
DateOf(kind) == IF kind = "arrival" THEN stay.dates.in ELSE stay.dates.out

Init ==
  /\ clock = 0
  /\ stay \in {[status |-> "confirmed", dates |-> d] : d \in Dates}
  /\ enabled = {Guest, Host}
  /\ delivered = {} /\ review = FALSE /\ moves = 0
  /\ work = [s \in Sessions |-> Idle]

StayFree == \A s \in Sessions : work[s].op \notin {"remind", "cancel", "move", "review"}

Step(s, request) == work' = [work EXCEPT ![s] = request]
Finish(s) == Step(s, Idle)

Tick ==
  /\ clock < LastTick /\ clock' = clock + 1
  /\ UNCHANGED <<stay, enabled, delivered, review, moves, work>>

\* set_reminder_preference locks the account only.
SetPreference(u) ==
  /\ enabled' = IF u \in enabled THEN enabled \ {u} ELSE enabled \cup {u}
  /\ UNCHANGED <<clock, stay, delivered, review, moves, work>>

\* The job reads the clock once and lists confirmed stays near it; the stay may
\* come up later.
Run(s) ==
  /\ work[s] = Idle /\ stay.status = "confirmed"
  /\ \E kind \in Kinds : DateOf(kind) \in Day(clock) .. Day(clock) + 2
  /\ Step(s, [op |-> "listed", now |-> clock])
  /\ UNCHANGED <<clock, stay, enabled, delivered, review, moves>>

\* remind_stay reads the stay, the preferences and the deliveries under its
\* locks.
Due(t) ==
  {d \in [user : {Guest, Host} \cap enabled, kind : Kinds, date : {Day(t) + 1}] :
     DateOf(d.kind) = d.date} \ delivered

RemindLock(s) ==
  /\ work[s].op = "listed" /\ StayFree
  /\ stay.status = "confirmed" /\ Nine(work[s].now)
  /\ Step(s, [op |-> "remind", rows |-> Due(work[s].now)])
  /\ UNCHANGED <<clock, stay, enabled, delivered, review, moves>>

RemindCommit(s) ==
  /\ work[s].op = "remind" /\ work[s].rows \cap delivered = {}
  /\ delivered' = delivered \cup work[s].rows
  /\ Finish(s)
  /\ UNCHANGED <<clock, stay, enabled, review, moves>>

CancelLock(s) ==
  /\ work[s] = Idle /\ StayFree /\ stay.status = "confirmed" /\ Day(clock) < stay.dates.in
  /\ Step(s, [op |-> "cancel"])
  /\ UNCHANGED <<clock, stay, enabled, delivered, review, moves>>

CancelCommit(s) ==
  /\ work[s].op = "cancel"
  /\ stay' = [stay EXCEPT !.status = "cancelled"]
  /\ Finish(s)
  /\ UNCHANGED <<clock, enabled, delivered, review, moves>>

MoveLock(s, d) ==
  /\ work[s] = Idle /\ StayFree /\ stay.status = "confirmed"
  /\ Day(clock) < stay.dates.in /\ Day(clock) < d.in
  /\ d # stay.dates /\ moves < MaxMoves
  /\ Step(s, [op |-> "move", dates |-> d])
  /\ UNCHANGED <<clock, stay, enabled, delivered, review, moves>>

MoveCommit(s) ==
  /\ work[s].op = "move"
  /\ stay' = [stay EXCEPT !.dates = work[s].dates]
  /\ moves' = moves + 1
  /\ Finish(s)
  /\ UNCHANGED <<clock, enabled, delivered, review>>

ReviewLock(s) ==
  /\ work[s] = Idle /\ StayFree /\ ~review /\ Guest # Host
  /\ stay.status = "confirmed" /\ stay.dates.out < Day(clock)
  /\ Step(s, [op |-> "review"])
  /\ UNCHANGED <<clock, stay, enabled, delivered, review, moves>>

ReviewCommit(s) ==
  /\ work[s].op = "review"
  /\ review' = TRUE
  /\ Finish(s)
  /\ UNCHANGED <<clock, stay, enabled, delivered, moves>>

\* A refusal, a unique index or a lost connection: rollback.
Abort(s) ==
  /\ work[s] # Idle /\ Finish(s)
  /\ UNCHANGED <<clock, stay, enabled, delivered, review, moves>>

Next ==
  \/ Tick
  \/ \E u \in {Guest, Host} : SetPreference(u)
  \/ \E s \in Sessions :
       \/ Run(s) \/ RemindLock(s) \/ RemindCommit(s) \/ Abort(s)
       \/ CancelLock(s) \/ CancelCommit(s) \/ MoveCommit(s)
       \/ ReviewLock(s) \/ ReviewCommit(s)
       \/ \E d \in Dates : MoveLock(s, d)

Spec == Init /\ [][Next]_vars

-----------------------------------------------------------------------------
(* Properties. *)

\* A reminder speaks of a stay as it is when the reminder is committed, although
\* the job listed it earlier: confirmed, and on that date (remind_stay).
RemindsOfStay ==
  \A d \in delivered' \ delivered :
    stay.status = "confirmed" /\ DateOf(d.kind) = d.date
RemindersMatchStay == [][RemindsOfStay]_vars

\* Overlapping runs of the job never write the same reminder, so that no run is
\* stopped by uq_stay_reminder_delivery.
RemindersNeverCollide ==
  \A s \in Sessions : work[s].op = "remind" => work[s].rows \cap delivered = {}

\* A review is about a stay that took place.
ReviewedAfterStay == review => stay.status = "confirmed" /\ stay.dates.out < Day(clock)
=============================================================================
