------------------------- MODULE HourlyReservations -------------------------
(***************************************************************************)
(* Hourly reservations of a venue's resources, the payments that confirm    *)
(* them, and the periodic jobs that expire holds and mark no-shows.         *)
(*                                                                         *)
(* Booking and rescheduling serialise on the resource row.  Everything else *)
(* reads a reservation without a lock, keeps that copy in its session and   *)
(* later writes the changed columns over whatever the row holds by then.    *)
(***************************************************************************)
EXTENDS Integers, FiniteSets, FiniteSetsExt, Folds, Functions

CONSTANTS
  Users, Resources,
  Capacity,              \* the largest party a resource holds at any instant
  Rules,                 \* the venue's booking rules
  Rows,                  \* reservation rows the table may hold (bound)
  Keys,                  \* idempotency keys of clients
  Checkouts,             \* Stripe checkout sessions (bound)
  Sessions,              \* concurrently served requests and jobs (bound)
  Requests,              \* the slots clients ask for: one, or a whole series
  Moves,                 \* the slots clients reschedule to
  Parties,               \* party sizes
  Hold,                  \* how long a pending reservation is held
  FreePeriod,            \* cancelling this long before the start is free
  Early, Grace,          \* the check-in window around the start
  Ops,                   \* the kinds of request that occur
  LastTick,              \* bound on the clock
  None

Slot == [start : Nat, end : Nat]
AllOps == {"book", "move", "cancel", "series", "confirm", "pay", "checkout",
           "webhook", "expire", "checkin", "complete", "noshow"}

ASSUME NoneAssumption ==
  None \notin Users \cup Resources \cup Rows \cup Keys \cup Checkouts \cup Nat
ASSUME RowsAssumption == IsFiniteSet(Rows) /\ \A i \in Rows : i \notin Slot
ASSUME CapacityAssumption == Capacity \in [Resources -> Nat]
ASSUME RulesAssumption ==
  Rules \in [notice : Nat, advance : Nat, shortest : Nat, longest : Nat,
             limit : Nat]
ASSUME SlotsAssumption ==
  /\ Requests \subseteq (SUBSET Slot) \ {{}} /\ Moves \subseteq Slot
  /\ \A d \in (UNION Requests) \cup Moves : d.start < d.end
  /\ \A slots \in Requests : /\ IsFiniteSet(slots)
                             /\ \A d, e \in slots : d.start = e.start => d = e
ASSUME NumbersAssumption ==
  /\ Parties \subseteq Nat \ {0} /\ LastTick \in Nat
  /\ {Hold, FreePeriod, Early, Grace} \subseteq Nat /\ Ops \subseteq AllOps

VARIABLES
  now,      \* the clock
  row,      \* reservations
  pay,      \* the payment of each reservation
  stripe,   \* the checkout sessions that exist at Stripe
  pc, job,  \* where each session stands, and what it has read
  held,     \* the row locks a session holds
  revived,  \* history: reservations confirmed after they had lost their hold
  mixed     \* history: reservations moved to a slot that nobody had asked for

tables == <<now, row, pay, stripe>>
vars == <<tables, pc, job, held, revived, mixed>>

NoRow == [status |-> "none", user |-> None, res |-> None, slot |-> None,
          party |-> 0, hold |-> None, attend |-> "scheduled", key |-> None,
          series |-> {}, price |-> 0]
NoPayment == [status |-> "none", amount |-> 0, session |-> None]
NoCheckout == [row |-> None, amount |-> 0]
NoJob == [op |-> "none", user |-> None, res |-> None, slots |-> {},
          party |-> 0, key |-> None, hold |-> None, row |-> None,
          rows |-> {}, seen |-> <<>>, at |-> 0, slot |-> None, price |-> 0,
          amount |-> 0, refund |-> "none"]
NoLocks == [user |-> None, res |-> None, row |-> None]

Init ==
  /\ now = 0
  /\ row = [i \in Rows |-> NoRow]
  /\ pay = [i \in Rows |-> NoPayment]
  /\ stripe = [k \in Checkouts |-> NoCheckout]
  /\ pc = [s \in Sessions |-> "idle"]
  /\ job = [s \in Sessions |-> NoJob]
  /\ held = [s \in Sessions |-> NoLocks]
  /\ revived = {} /\ mixed = {}

-----------------------------------------------------------------------------
(* Row locks, and the end of a request. *)

\* Defect: the row is read without FOR UPDATE.
NeverBusy(s, x) == TRUE

UserFree(s, u) == \A t \in Sessions \ {s} : held[t].user # u
ResourceFree(s, r) == \A t \in Sessions \ {s} : held[t].res # r
RowFree(s, i) == \A t \in Sessions \ {s} : held[t].row # i

Finish(s) ==
  /\ pc' = [pc EXCEPT ![s] = "idle"]
  /\ job' = [job EXCEPT ![s] = NoJob]
  /\ held' = [held EXCEPT ![s] = NoLocks]

Goto(s, label) == pc' = [pc EXCEPT ![s] = label]

\* A request that has read what it needs and holds no lock.
Begin(s, label, j) ==
  /\ j.op \in Ops /\ pc[s] = "idle"
  /\ Goto(s, label)
  /\ job' = [job EXCEPT ![s] = j]

-----------------------------------------------------------------------------
(* Holds and capacity. *)

Elapsed(i) == row[i].hold # None /\ row[i].hold <= now

ActiveAt(i, t) ==
  \/ row[i].status = "confirmed"
  \/ row[i].status = "pending" /\ (row[i].hold = None \/ row[i].hold > t)

Active(i) == ActiveAt(i, now)

\* The people who hold places in a resource, and those of the occurrences of
\* a series that come before this one.
Holders(r, self) ==
  {[id |-> i, slot |-> row[i].slot, party |-> row[i].party] :
     i \in {k \in Rows \ self : Active(k) /\ row[k].res = r}}
Earlier(slots, d, party) ==
  {[id |-> e, slot |-> e, party |-> party] : e \in {e \in slots : e.start < d.start}}

\* An arrival and a departure of each who overlaps the slot, cut to the slot.
Events(holders, d) ==
  LET inside == {h \in holders : h.slot.start < d.end /\ h.slot.end > d.start} IN
  {[id |-> h.id, delta |-> h.party,
    time |-> IF h.slot.start > d.start THEN h.slot.start ELSE d.start] : h \in inside}
  \cup
  {[id |-> h.id, delta |-> -h.party,
    time |-> IF h.slot.end < d.end THEN h.slot.end ELSE d.end] : h \in inside}

\* Defect: arrivals go before departures of the same instant.
ArrivalsFirst(e, f) ==
  \/ e.time < f.time
  \/ e.time = f.time /\ e.delta > f.delta

\* Departures go before arrivals of the same instant.
Before(e, f) ==
  \/ e.time < f.time
  \/ e.time = f.time /\ e.delta < f.delta

\* The sum of what some events add: those who have come less those who have gone.
Total(events) ==
  Cardinality(UNION {{e.id} \X (1 .. e.delta) : e \in events})
    - Cardinality(UNION {{e.id} \X (1 .. -e.delta) : e \in events})

\* The events are added up from the first to the last, and the highest sum is
\* kept.  Events that nothing sets apart are all arrivals or all departures, so
\* that the sum after the last of them, or before the first, is the highest.
Peak(holders, d) ==
  LET events == Events(holders, d) IN
  Max({0} \cup {Total({f \in events : ~Before(e, f)}) : e \in events})

Fits(r, slots, party, self) ==
  \A d \in slots :
    Peak(Holders(r, self) \cup Earlier(slots, d, party), d) + party <= Capacity[r]

\* The reservations that count towards a customer's limit.
ActiveOf(u, t) ==
  {i \in Rows : ActiveAt(i, t) /\ row[i].user = u /\ row[i].slot.end > t}

SlotAllowed(d) ==
  /\ d.start >= now + Rules.notice /\ d.start <= now + Rules.advance
  /\ d.end - d.start \in Rules.shortest .. Rules.longest

Price(d) == d.end - d.start

-----------------------------------------------------------------------------
(* Booking one slot, or a series of slots in one transaction. *)

FreeRows == {i \in Rows : row[i].status = "none"}
\* Bounds: a booking or a checkout starts only while there are rows left for it.
RowsLeft(slots) ==
  MapThenSumSet(LAMBDA t : Cardinality(job[t].slots),
                {t \in Sessions : job[t].op = "book"})
    + Cardinality(slots) <= Cardinality(FreeRows)

CheckoutsLeft ==
  Cardinality({t \in Sessions : job[t].op = "checkout"})
    < Cardinality({k \in Checkouts : stripe[k].row = None})

Replay(u, key) ==
  key # None /\ \E i \in Rows : row[i].user = u /\ row[i].key = key

\* A series has no idempotency key and lies in the future.
SeriesAllowed(slots, key) ==
  Cardinality(slots) > 1 => key = None /\ \A d \in slots : d.start > now

\* Everything that is looked at before any lock; the clock is read here too.
BookStart(s, u, r, slots, party, key) ==
  /\ RowsLeft(slots)
  /\ SeriesAllowed(slots, key)
  /\ ~Replay(u, key)
  /\ party <= Capacity[r]
  /\ \A d \in slots : SlotAllowed(d)
  /\ Begin(s, "book_user", [NoJob EXCEPT !.op = "book", !.user = u, !.res = r,
       !.slots = slots, !.party = party, !.key = key, !.at = now])
  /\ UNCHANGED <<tables, held>>

\* The customer's row is locked for the limit; the first look at the capacity
\* happens without the resource.  The hold runs from here.
BookLockUser(s) ==
  LET j == job[s]
      accepted ==
        /\ Cardinality(ActiveOf(j.user, j.at)) + Cardinality(j.slots) <= Rules.limit
        /\ \A d \in j.slots : Fits(j.res, {d}, j.party, {})
        /\ ~Replay(j.user, j.key)
  IN
  /\ pc[s] = "book_user"
  /\ UserFree(s, j.user)
  /\ \/ /\ accepted
        /\ held' = [held EXCEPT ![s].user = j.user]
        /\ job' = [job EXCEPT ![s].hold = now + Hold]
        /\ Goto(s, "book_resource")
     \/ ~accepted /\ Finish(s)
  /\ UNCHANGED tables

\* Under the lock of the resource the capacity is looked at again.
BookLockResource(s) ==
  LET j == job[s]
      accepted == Fits(j.res, j.slots, j.party, {})
  IN
  /\ pc[s] = "book_resource"
  /\ ResourceFree(s, j.res)
  /\ \/ /\ accepted
        /\ held' = [held EXCEPT ![s].res = j.res]
        /\ Goto(s, "book_insert") /\ UNCHANGED job
     \/ ~accepted /\ Finish(s)
  /\ UNCHANGED tables

BookInsert(s) ==
  LET j == job[s] IN
  /\ pc[s] = "book_insert"
  /\ \E f \in Injection(j.slots, FreeRows) :
       row' = [i \in Rows |->
         IF i \notin Range(f) THEN row[i] ELSE
           LET d == CHOOSE d \in j.slots : f[d] = i IN
           [NoRow EXCEPT !.status = "pending", !.user = j.user, !.res = j.res,
              !.slot = d, !.party = j.party, !.hold = j.hold, !.key = j.key,
              !.series = IF Cardinality(j.slots) > 1 THEN Range(f) ELSE {},
              !.price = Price(d)]]
  /\ Finish(s)
  /\ UNCHANGED <<now, pay, stripe>>

-----------------------------------------------------------------------------
(* Rescheduling works on a copy of the reservation: the customer's row is      *)
(* locked, then the reservation if its quote changes (the changed columns are  *)
(* flushed before the next query), then the resource.                          *)

Open(i) == row[i].status \in {"pending", "confirmed"}

MoveStart(s, i, d) ==
  /\ Open(i)
  /\ d.start > now /\ SlotAllowed(d)
  /\ Begin(s, "move_user",
       [NoJob EXCEPT !.op = "move", !.user = row[i].user, !.res = row[i].res,
          !.slots = {d}, !.party = row[i].party, !.row = i, !.at = now,
          !.slot = row[i].slot, !.price = row[i].price])
  /\ UNCHANGED <<tables, held>>

\* A reservation that is moved counts already: there must be no excess.
MoveLockUser(s) ==
  LET j == job[s]
      allowed == Cardinality(ActiveOf(j.user, j.at)) <= Rules.limit
      repriced == \E d \in j.slots : Price(d) # j.price
  IN
  /\ pc[s] = "move_user"
  /\ UserFree(s, j.user)
  /\ \/ /\ allowed
        /\ held' = [held EXCEPT ![s].user = j.user]
        /\ Goto(s, IF repriced THEN "move_price" ELSE "move_resource")
        /\ UNCHANGED job
     \/ ~allowed /\ Finish(s)
  /\ UNCHANGED tables

MovePrice(s) ==
  /\ pc[s] = "move_price"
  /\ RowFree(s, job[s].row)
  /\ held' = [held EXCEPT ![s].row = job[s].row]
  /\ Goto(s, "move_resource")
  /\ UNCHANGED <<tables, job>>

MoveLockResource(s) ==
  LET j == job[s]
      fits == Fits(j.res, j.slots, j.party, {j.row})
  IN
  /\ pc[s] = "move_resource"
  /\ ResourceFree(s, j.res)
  /\ \/ /\ fits
        /\ held' = [held EXCEPT ![s].res = j.res]
        /\ Goto(s, "move_commit") /\ UNCHANGED job
     \/ ~fits /\ Finish(s)
  /\ UNCHANGED tables

\* Of a column, what is to be written: nothing if the copy has that value.
Column(value, copy, stored) == IF value = copy THEN stored ELSE value

\* The status is not looked at again; the columns that differ from the copy are
\* written, whatever the row has become.
MoveCommit(s) ==
  LET j == job[s] IN
  /\ pc[s] = "move_commit"
  /\ RowFree(s, j.row)
  /\ \E d \in j.slots :
       row' = [row EXCEPT
                 ![j.row].slot = [start |-> Column(d.start, j.slot.start, @.start),
                                  end |-> Column(d.end, j.slot.end, @.end)],
                 ![j.row].price = Column(Price(d), j.price, @)]
  /\ Finish(s)
  /\ UNCHANGED <<now, pay, stripe>>

-----------------------------------------------------------------------------
(* Cancelling one reservation, or the open ones of a series one by one from   *)
(* the copies that were read at the beginning.                                *)

Copies(rows) == [i \in rows |-> row[i].slot.start]

CancelRead(s, i) ==
  /\ Open(i)
  /\ Begin(s, "cancel_next", [NoJob EXCEPT !.op = "cancel", !.rows = {i},
                                           !.seen = Copies({i})])
  /\ UNCHANGED <<tables, held>>

SeriesRead(s, i, cutoff) ==
  LET rows == {k \in row[i].series : /\ Open(k) /\ row[k].slot.start > now
                                     /\ row[k].slot.start >= cutoff} IN
  /\ rows # {}
  /\ Begin(s, "cancel_next", [NoJob EXCEPT !.op = "series", !.rows = rows,
                                           !.seen = Copies(rows)])
  /\ UNCHANGED <<tables, held>>

\* A cancellation that is done goes on with the rest of the series.
CancelRest(s, rows) ==
  \/ rows = {} /\ Finish(s)
  \/ /\ rows # {}
     /\ job' = [job EXCEPT ![s].rows = rows]
     /\ Goto(s, "cancel_next") /\ UNCHANGED held

\* What becomes of the payment.
RefundOf(i, start) ==
  IF pay[i].status # "paid" THEN "none"
  ELSE IF start - now >= FreePeriod THEN "refunded" ELSE "partially_refunded"

\* The next one by start: what has started by now is skipped, for the others
\* the payment is read.
CancelNext(s) ==
  LET j == job[s] IN
  /\ pc[s] = "cancel_next"
  /\ \E i \in j.rows :
       /\ \A k \in j.rows : j.seen[i] <= j.seen[k]
       /\ \/ j.seen[i] <= now /\ CancelRest(s, j.rows \ {i})
          \/ /\ j.seen[i] > now
             /\ job' = [job EXCEPT ![s].row = i,
                                   ![s].refund = RefundOf(i, j.seen[i])]
             /\ Goto(s, "cancel_commit") /\ UNCHANGED held
  /\ UNCHANGED tables

CancelCommit(s) ==
  LET i == job[s].row IN
  /\ pc[s] = "cancel_commit"
  /\ RowFree(s, i)
  /\ row' = [row EXCEPT ![i].status = "cancelled"]
  /\ pay' = [pay EXCEPT ![i].status =
               IF job[s].refund = "none" THEN @ ELSE job[s].refund]
  /\ CancelRest(s, job[s].rows \ {i})
  /\ UNCHANGED <<now, stripe>>

-----------------------------------------------------------------------------
(* Confirming: by the owner, by a payment, or by Stripe's webhook.            *)

\* A pending reservation that somebody may confirm or pay; one whose hold has
\* elapsed is expired on the spot instead.
DecideOrExpire(s, i, label, j) ==
  /\ row[i].status = "pending"
  /\ \/ ~Elapsed(i) /\ Begin(s, label, j)
     \/ Elapsed(i) /\ Begin(s, "expire_one", [j EXCEPT !.rows = {i}])
  /\ UNCHANGED <<tables, held>>

ConfirmRead(s, i) ==
  DecideOrExpire(s, i, "confirm_commit",
                 [NoJob EXCEPT !.op = "confirm", !.row = i])

\* Only the two columns are written, whatever the status is by now.
ConfirmCommit(s) ==
  LET i == job[s].row IN
  /\ pc[s] = "confirm_commit"
  /\ RowFree(s, i)
  /\ row' = [row EXCEPT ![i] = [@ EXCEPT !.status = "confirmed", !.hold = None]]
  /\ Finish(s)
  /\ UNCHANGED <<now, pay, stripe>>

PayRead(s, i) ==
  DecideOrExpire(s, i, "pay_lookup",
    [NoJob EXCEPT !.op = "pay", !.row = i, !.price = row[i].price])

\* The same checks, but an elapsed hold is only refused.
CheckoutRead(s, i) ==
  /\ CheckoutsLeft
  /\ row[i].status = "pending" /\ ~Elapsed(i)
  /\ Begin(s, "pay_lookup",
       [NoJob EXCEPT !.op = "checkout", !.row = i, !.price = row[i].price])
  /\ UNCHANGED <<tables, held>>

Charge(s) == IF job[s].op = "pay" THEN "pay_mark" ELSE "checkout_save"

PayLookup(s) ==
  LET p == pay[job[s].row] IN
  /\ pc[s] = "pay_lookup"
  /\ \/ p.status = "paid" /\ Finish(s)
     \/ p.status = "none" /\ Goto(s, "pay_create") /\ UNCHANGED <<job, held>>
     \/ /\ p.status \notin {"none", "paid"} /\ Goto(s, Charge(s))
        /\ job' = [job EXCEPT ![s].amount = p.amount] /\ UNCHANGED held
  /\ UNCHANGED tables

\* A commit of its own; the payment of a reservation is unique, so the second
\* one to insert it fails.
PayCreate(s) ==
  LET i == job[s].row IN
  /\ pc[s] = "pay_create"
  /\ \/ /\ pay[i].status = "none"
        /\ pay' = [pay EXCEPT ![i] = [status |-> "pending",
                     amount |-> job[s].price, session |-> None]]
        /\ job' = [job EXCEPT ![s].amount = job[s].price]
        /\ Goto(s, Charge(s)) /\ UNCHANGED held
     \/ pay[i].status # "none" /\ Finish(s) /\ UNCHANGED pay
  /\ UNCHANGED <<now, row, stripe>>

\* The payment is committed before the reservation is confirmed.
PayMark(s) ==
  LET i == job[s].row IN
  /\ pc[s] = "pay_mark"
  /\ pay' = [pay EXCEPT ![i].status = "paid",
                         ![i].amount = Column(job[s].price, job[s].amount, @)]
  /\ Goto(s, "confirm_commit")
  /\ UNCHANGED <<now, row, stripe, job, held>>

\* A later checkout of the same reservation takes the place of an earlier one.
CheckoutSave(s) ==
  LET i == job[s].row IN
  /\ pc[s] = "checkout_save"
  /\ \E k \in Checkouts :
       /\ stripe[k].row = None
       /\ stripe' = [stripe EXCEPT ![k] = [row |-> i, amount |-> job[s].price]]
       /\ pay' = [pay EXCEPT ![i].session = k]
  /\ Finish(s)
  /\ UNCHANGED <<now, row>>

\* Stripe delivers the completion of a checkout at least once, any time later.
HookRead(s, k) ==
  /\ stripe[k].row # None
  /\ \E i \in Rows :
       /\ pay[i].session = k /\ pay[i].status # "paid"
       /\ pay[i].amount = stripe[k].amount
       /\ Begin(s, "hook_mark", [NoJob EXCEPT !.op = "webhook", !.row = i])
  /\ UNCHANGED <<tables, held>>

HookMark(s) ==
  /\ pc[s] = "hook_mark"
  /\ pay' = [pay EXCEPT ![job[s].row].status = "paid"]
  /\ Goto(s, "hook_read")
  /\ UNCHANGED <<now, row, stripe, job, held>>

\* The webhook asks for the status, not for the hold.
HookReadRow(s) ==
  LET pending == row[job[s].row].status = "pending" IN
  /\ pc[s] = "hook_read"
  /\ \/ pending /\ Goto(s, "confirm_commit") /\ UNCHANGED <<job, held>>
     \/ ~pending /\ Finish(s)
  /\ UNCHANGED tables

-----------------------------------------------------------------------------
(* The job that expires holds: one look, then one commit per reservation.     *)

\* Defect: the job goes by the reservation's end instead of its hold.
ScanPast(s) ==
  LET rows == {i \in Rows : row[i].status = "pending" /\ row[i].slot.end <= now} IN
  /\ rows # {}
  /\ Begin(s, "expire_one", [NoJob EXCEPT !.op = "expire", !.rows = rows])
  /\ UNCHANGED <<tables, held>>

\* Defect: the job takes every pending reservation.
ScanPending(s) ==
  LET rows == {i \in Rows : row[i].status = "pending"} IN
  /\ rows # {}
  /\ Begin(s, "expire_one", [NoJob EXCEPT !.op = "expire", !.rows = rows])
  /\ UNCHANGED <<tables, held>>

ExpireScan(s) ==
  LET rows == {i \in Rows : row[i].status = "pending" /\ Elapsed(i)} IN
  /\ rows # {}
  /\ Begin(s, "expire_one", [NoJob EXCEPT !.op = "expire", !.rows = rows])
  /\ UNCHANGED <<tables, held>>

ExpireOne(s) ==
  /\ pc[s] = "expire_one"
  /\ \E i \in job[s].rows :
       /\ RowFree(s, i)
       /\ row' = [row EXCEPT ![i].status = "expired"]
       /\ \/ job[s].rows = {i} /\ Finish(s)
          \/ /\ job[s].rows # {i}
             /\ job' = [job EXCEPT ![s].rows = @ \ {i}]
             /\ UNCHANGED <<pc, held>>
  /\ UNCHANGED <<now, pay, stripe>>

-----------------------------------------------------------------------------
(* Attendance. *)

\* Defect: the check-in reads the reservation without locking it.
CheckInUnlocked(s, i) ==
  /\ row[i].status = "confirmed" /\ row[i].attend = "scheduled"
  /\ now \in (row[i].slot.start - Early) .. (row[i].slot.start + Grace)
  /\ Begin(s, "checkin_commit", [NoJob EXCEPT !.op = "checkin", !.row = i])
  /\ UNCHANGED <<tables, held>>

CheckInLock(s, i) ==
  /\ RowFree(s, i)
  /\ row[i].status = "confirmed" /\ row[i].attend = "scheduled"
  /\ now \in (row[i].slot.start - Early) .. (row[i].slot.start + Grace)
  /\ Begin(s, "checkin_commit", [NoJob EXCEPT !.op = "checkin", !.row = i])
  /\ held' = [held EXCEPT ![s].row = i]
  /\ UNCHANGED tables

CheckInCommit(s) ==
  /\ pc[s] = "checkin_commit"
  /\ row' = [row EXCEPT ![job[s].row].attend = "checked_in"]
  /\ Finish(s)
  /\ UNCHANGED <<now, pay, stripe>>

\* Defect: the owner may complete whatever was confirmed.
CompleteUnattended(s, i) ==
  /\ row[i].status = "confirmed"
  /\ Begin(s, "complete_commit", [NoJob EXCEPT !.op = "complete", !.row = i])
  /\ UNCHANGED <<tables, held>>

CompleteRead(s, i) ==
  /\ row[i].status = "confirmed" /\ row[i].attend = "checked_in"
  /\ Begin(s, "complete_commit", [NoJob EXCEPT !.op = "complete", !.row = i])
  /\ UNCHANGED <<tables, held>>

CompleteCommit(s) ==
  LET i == job[s].row IN
  /\ pc[s] = "complete_commit"
  /\ RowFree(s, i)
  /\ row' = [row EXCEPT ![i].status = "completed"]
  /\ Finish(s)
  /\ UNCHANGED <<now, pay, stripe>>

\* One transaction over the rows that nobody has locked.
NoShowJob(s) ==
  LET rows == {i \in Rows : /\ row[i].status = "confirmed"
                            /\ row[i].attend = "scheduled"
                            /\ row[i].slot.start < now - Grace
                            /\ RowFree(s, i)} IN
  /\ "noshow" \in Ops /\ pc[s] = "idle" /\ rows # {}
  /\ row' = [i \in Rows |-> IF i \in rows
               THEN [row[i] EXCEPT !.attend = "no_show"] ELSE row[i]]
  /\ UNCHANGED <<now, pay, stripe, pc, job, held>>

-----------------------------------------------------------------------------
Tick ==
  /\ now < LastTick
  /\ now' = now + 1
  /\ UNCHANGED <<row, pay, stripe, pc, job, held>>

\* A lost connection or a crash: what is committed stays, the rest is undone.
Abort(s) == pc[s] # "idle" /\ Finish(s) /\ UNCHANGED tables

Start(s) ==
  \/ \E u \in Users, r \in Resources, slots \in Requests, party \in Parties,
        key \in Keys \cup {None} : BookStart(s, u, r, slots, party, key)
  \/ \E i \in Rows :
       \/ \E d \in Moves : MoveStart(s, i, d)
       \/ CancelRead(s, i)
       \/ \E k \in row[i].series : SeriesRead(s, i, row[k].slot.start)
       \/ ConfirmRead(s, i) \/ PayRead(s, i) \/ CheckoutRead(s, i)
       \/ CheckInLock(s, i) \/ CompleteRead(s, i)
  \/ \E k \in Checkouts : HookRead(s, k)
  \/ ExpireScan(s) \/ NoShowJob(s)

Continue(s) ==
  \/ BookLockUser(s) \/ BookLockResource(s) \/ BookInsert(s)
  \/ MoveLockUser(s) \/ MovePrice(s) \/ MoveLockResource(s) \/ MoveCommit(s)
  \/ CancelNext(s) \/ CancelCommit(s)
  \/ ConfirmCommit(s) \/ PayLookup(s) \/ PayCreate(s) \/ PayMark(s)
  \/ CheckoutSave(s) \/ HookMark(s) \/ HookReadRow(s)
  \/ ExpireOne(s) \/ CheckInCommit(s) \/ CompleteCommit(s)

\* What came back to life in this step.
Revivals == {i \in Rows : row[i].status # "none" /\ ~Active(i) /\ Active(i)'}

\* Rescheduling writes the start and the end as columns: if another one came in
\* between, they make a slot that this one has not checked.
Mixed == {i \in Rows : \E s \in Sessions :
            /\ pc[s] = "move_commit" /\ pc'[s] = "idle" /\ job[s].row = i
            /\ row'[i].slot \notin job[s].slots \cup {row[i].slot}}

Logged(A) ==
  A /\ revived' = revived \cup Revivals /\ mixed' = mixed \cup Mixed

Next ==
  \/ \E s \in Sessions : Logged(Start(s) \/ Continue(s) \/ Abort(s))
  \/ Logged(Tick)

Spec == Init /\ [][Next]_vars

\* The job or request that was expiring something is lost before it has.
Abandons(s) ==
  /\ pc[s] = "expire_one" /\ \E i \in job[s].rows : row[i].status = "pending"
  /\ Abort(s)

\* A request that can go on does so, beat runs the expiry job every five
\* minutes, PostgreSQL grants a row lock in the order of asking, and the job is
\* not lost every time.
Fairness ==
  /\ \A s \in Sessions : /\ WF_vars(Logged(Continue(s)))
                         /\ SF_vars(Logged(ExpireScan(s)))
                         /\ SF_vars(Logged(ExpireOne(s)))
  /\ <>[][\A s \in Sessions : ~Abandons(s)]_vars

LiveSpec == Spec /\ Fairness

-----------------------------------------------------------------------------
(* What the reservations promise. *)

Instants(d) == d.start .. (d.end - 1)

\* The number of people who hold places at instant t.
Load(holders, t) ==
  Cardinality(UNION {{h.id} \X (1 .. h.party) :
                       h \in {h \in holders : t \in Instants(h.slot)}})

\* The sweep over sorted arrivals and departures returns the largest number of
\* people present at any instant of a slot: reservations that only touch each
\* other are not counted together (_peak_occupancy).  A reservation that ends
\* before it begins (see BeginsBeforeItEnds) would make it too small.
PeakIsHighest ==
  \A r \in Resources, d \in (UNION Requests) \cup Moves :
    LET holders == Holders(r, {}) IN
    (\A h \in holders : h.slot.start < h.slot.end)
      => Peak(holders, d) = Max({Load(holders, t) : t \in Instants(d)})

\* At no instant do more people hold a resource than it has room for, whatever
\* bookings, series and reschedulings overlap (create_with_conflict_lock and its
\* two siblings).  Left out are reservations that were confirmed after they had
\* lost their hold and had given up their place, and resources where a
\* rescheduling, overtaken by another, has written a slot it had not checked.
CapacityKept ==
  \A r \in Resources, t \in UNION {Instants(d) : d \in (UNION Requests) \cup Moves} :
    (\A i \in mixed : row[i].res # r)
      => Load(Holders(r, revived), t) <= Capacity[r]

\* A booking never takes a customer past the limit of active reservations, with
\* the same exception (the lock of the customer's row in _validate_booking_rules).
LimitStep ==
  \A u \in Users :
    (\E i \in Rows : row[i].status = "none" /\ row'[i].user = u)
      => Cardinality(ActiveOf(u, now)' \ revived') <= Rules.limit
LimitKept == [][LimitStep]_vars

\* A repeated request with an idempotency key is answered with the reservation
\* of the first one and never runs into uq_reservations_user_idempotency_key,
\* although both may look for that reservation before it exists
\* (create_with_conflict_lock looks again under the lock of the customer).
KeysNeverCollide ==
  \A s \in Sessions : pc[s] = "book_insert" => ~Replay(job[s].user, job[s].key)

\* A hold is kept for as long as it was promised: neither the job nor an owner
\* or payer who finds it elapsed expires a reservation before its time.
HoldStep ==
  \A i \in Rows : row[i].status = "pending" /\ ~Elapsed(i)
                    => row'[i].status # "expired"
HoldHonoured == [][HoldStep]_vars

\* A hold that has elapsed comes to an end: the reservation does not stay
\* pending although the job commits one reservation at a time and may crash.
HoldsEnd ==
  \A i \in Rows : row[i].status = "pending" /\ Elapsed(i)
                    ~> row[i].status # "pending"

\* Attendance is decided once: an agent scanning a pass and the no-show job
\* never overrule each other.
AttendanceStep ==
  \A i \in Rows : row[i].attend # "scheduled" => row'[i].attend = row[i].attend
AttendanceDecidedOnce == [][AttendanceStep]_vars

\* Only a reservation whose customer was there is ever completed, although the
\* owner's request works on a copy of the row.
CompletedCheckedIn ==
  \A i \in Rows : row[i].status = "completed" => row[i].attend = "checked_in"

\* A hold that has elapsed can no longer be confirmed or paid
\* (tests/test_payment_service_edge_cases.py:122).
ElapsedStep ==
  \A i \in Rows : row[i].status = "pending" /\ Elapsed(i)
                    => row'[i].status # "confirmed"
ElapsedNeverConfirmed == [][ElapsedStep]_vars

\* A reservation begins before it ends: every request is checked for that
\* (reservation_service.py:1018, "Start time must be before end time").
BeginsBeforeItEnds ==
  \A i \in Rows : row[i].status # "none" => row[i].slot.start < row[i].slot.end
=============================================================================
