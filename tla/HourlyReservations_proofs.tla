--------------------- MODULE HourlyReservations_proofs ---------------------
(***************************************************************************)
(* Hourly reservations: a repeated request is stored once, attendance is     *)
(* decided once, only attended reservations are completed, and no hold is    *)
(* cut short; then places in a resource: the sweep over arrivals and         *)
(* departures counts the most people present, no resource holds more people  *)
(* than it has room for, and no customer books past the limit; for any       *)
(* number of customers, reservations, slots and sessions.                    *)
(* Handlers work on copies that may be stale, so the invariant says what     *)
(* remains true of a copy until its session commits.                         *)
(***************************************************************************)
EXTENDS HourlyReservations, TLAPS, FiniteSetTheorems

\* The columns of a reservation, of a request and of a set of locks.
IsRow(r) ==
  r = [status |-> r.status, user |-> r.user, res |-> r.res, slot |-> r.slot,
       party |-> r.party, hold |-> r.hold, attend |-> r.attend, key |-> r.key,
       series |-> r.series, price |-> r.price]
IsJob(j) ==
  j = [op |-> j.op, user |-> j.user, res |-> j.res, slots |-> j.slots,
       party |-> j.party, key |-> j.key, hold |-> j.hold, row |-> j.row,
       rows |-> j.rows, seen |-> j.seen, at |-> j.at, slot |-> j.slot,
       price |-> j.price, amount |-> j.amount, refund |-> j.refund]
IsLocks(h) == h = [user |-> h.user, res |-> h.res, row |-> h.row]

RowsShape == /\ row = [i \in Rows |-> row[i]]
             /\ \A i \in Rows : IsRow(row[i])
SessionsShape ==
  /\ pc = [s \in Sessions |-> pc[s]]
  /\ job = [s \in Sessions |-> job[s]] /\ \A s \in Sessions : IsJob(job[s])
  /\ held = [s \in Sessions |-> held[s]] /\ \A s \in Sessions : IsLocks(held[s])

\* No two sessions hold the lock of a customer, or of a reservation.
LocksOK ==
  \A s, t \in Sessions : s # t =>
    /\ held[s].user # None => held[s].user # held[t].user
    /\ held[s].row # None => held[s].row # held[t].row

\* Times, and rows that are not there yet.
NumbersOK ==
  /\ now \in Nat
  /\ \A i \in Rows : /\ row[i].hold \in Nat \cup {None}
                     /\ row[i].status = "none" => row[i].attend = "scheduled"
  /\ \A s \in Sessions : job[s].hold \in Nat \cup {None}

\* What remains true of what a session has read, and the locks it relies on.
Knows(label, j, h) ==
  /\ label \in {"book_user", "book_resource", "book_insert"} => j.user \in Users
  /\ label \in {"book_resource", "book_insert"} =>
       h.user = j.user /\ ~Replay(j.user, j.key)
  /\ label = "expire_one" =>
       /\ j.rows \subseteq Rows
       /\ \A i \in j.rows : /\ row[i].status # "none"
                            /\ row[i].status = "pending" => Elapsed(i)
  /\ label = "checkin_commit" =>
       /\ j.row \in Rows /\ h.row = j.row
       /\ row[j.row].status # "none" /\ row[j.row].attend = "scheduled"
  /\ label = "complete_commit" =>
       j.row \in Rows /\ row[j.row].attend = "checked_in"

HourlyInv ==
  /\ RowsShape /\ SessionsShape /\ LocksOK /\ NumbersOK
  /\ \A s \in Sessions : Knows(pc[s], job[s], held[s])
  /\ CompletedCheckedIn

-----------------------------------------------------------------------------
(* Steps. *)

\* A step is one of a session, or the clock.
LEMMA Steps ==
  ASSUME [Next]_vars
  PROVE  \/ UNCHANGED <<tables, pc, job, held>>
         \/ Tick
         \/ \E s \in Sessions : Start(s) \/ Continue(s) \/ Abort(s)
  BY DEF Next, Logged, vars

\* What a session that finishes leaves behind.
LEMMA FinishShape ==
  ASSUME SessionsShape, NEW s \in Sessions, Finish(s)
  PROVE  /\ SessionsShape'
         /\ pc'[s] = "idle" /\ job'[s] = NoJob /\ held'[s] = NoLocks
         /\ \A t \in Sessions \ {s} :
              pc'[t] = pc[t] /\ job'[t] = job[t] /\ held'[t] = held[t]
  BY DEF Finish, SessionsShape, IsJob, IsLocks, NoJob, NoLocks

\* A request begins.
LEMMA BeginShape ==
  ASSUME SessionsShape, NEW s \in Sessions, NEW label, NEW j, IsJob(j),
         Begin(s, label, j)
  PROVE  /\ pc'[s] = label /\ job'[s] = j /\ pc[s] = "idle"
         /\ pc' = [t \in Sessions |-> pc'[t]]
         /\ job' = [t \in Sessions |-> job'[t]]
         /\ \A t \in Sessions : IsJob(job'[t])
         /\ \A t \in Sessions \ {s} : pc'[t] = pc[t] /\ job'[t] = job[t]
  BY DEF Begin, Goto, SessionsShape, IsJob

\* What a commit does to a reservation.
SameKeys(i) == row'[i].user = row[i].user /\ row'[i].key = row[i].key
Wrote(i, status, hold, attend) ==
  /\ SameKeys(i) /\ row'[i].status = status /\ row'[i].hold = hold
  /\ row'[i].attend = attend

\* One of these happens to a reservation in a step.
Effect(i) ==
  \/ row'[i] = row[i]
  \/ \E s \in Sessions :
       /\ BookInsert(s) /\ row[i].status = "none"
       /\ row'[i].status = "pending" /\ row'[i].user = job[s].user
       /\ row'[i].key = job[s].key /\ row'[i].hold = job[s].hold
       /\ row'[i].attend = "scheduled"
  \/ Wrote(i, row[i].status, row[i].hold, row[i].attend)
  \/ Wrote(i, "cancelled", row[i].hold, row[i].attend)
  \/ Wrote(i, "confirmed", None, row[i].attend)
  \/ \E s \in Sessions : /\ ExpireOne(s) /\ i \in job[s].rows
                         /\ Wrote(i, "expired", row[i].hold, row[i].attend)
  \/ \E s \in Sessions : /\ CheckInCommit(s) /\ i = job[s].row
                         /\ Wrote(i, row[i].status, row[i].hold, "checked_in")
  \/ \E s \in Sessions : /\ CompleteCommit(s) /\ i = job[s].row
                         /\ Wrote(i, "completed", row[i].hold, row[i].attend)
  \/ \E s \in Sessions : /\ NoShowJob(s) /\ RowFree(s, i)
                         /\ row[i].status = "confirmed"
                         /\ row[i].attend = "scheduled"
                         /\ Wrote(i, "confirmed", row[i].hold, "no_show")

\* A new reservation has the columns of the request.
LEMMA ColumnsOf ==
  ASSUME NEW u, NEW c, NEW d, NEW p, NEW h, NEW k, NEW g, NEW z, NEW r,
         r = [status |-> "pending", user |-> u, res |-> c, slot |-> d,
              party |-> p, hold |-> h, attend |-> "scheduled", key |-> k,
              series |-> g, price |-> z]
  PROVE  /\ IsRow(r) /\ r.status = "pending" /\ r.user = u /\ r.key = k
         /\ r.hold = h /\ r.attend = "scheduled"
  BY DEF IsRow
NewRecord(u, c, d, p, h, k, g, z) ==
  [NoRow EXCEPT !.status = "pending", !.user = u, !.res = c, !.slot = d,
     !.party = p, !.hold = h, !.key = k, !.series = g, !.price = z]
LEMMA NewRow ==
  ASSUME NEW u, NEW c, NEW d, NEW p, NEW h, NEW k, NEW g, NEW z
  PROVE  LET r == NewRecord(u, c, d, p, h, k, g, z) IN
         /\ IsRow(r) /\ r.status = "pending" /\ r.user = u /\ r.key = k
         /\ r.hold = h /\ r.attend = "scheduled"
  <1> DEFINE r == NewRecord(u, c, d, p, h, k, g, z)
             x == [status |-> "pending", user |-> u, res |-> c, slot |-> d,
                   party |-> p, hold |-> h, attend |-> "scheduled", key |-> k,
                   series |-> g, price |-> z]
  <1>1. ASSUME NEW q, q = r
        PROVE  q = x
    BY <1>1 DEF NoRow, NewRecord
  <1>2. /\ IsRow(x) /\ x.status = "pending" /\ x.user = u /\ x.key = k
        /\ x.hold = h /\ x.attend = "scheduled"
    BY ColumnsOf
  <1> HIDE DEF x, r
  <1>3. r = x
    BY ONLY <1>1
  <1> QED BY ONLY <1>2, <1>3 DEF r

\* The rows of a booking.
LEMMA BookEffect ==
  ASSUME RowsShape, NEW s \in Sessions, BookInsert(s)
  PROVE  RowsShape' /\ \A i \in Rows : Effect(i)
  <1> DEFINE j == job[s]
             r(f, i) ==
               LET d == CHOOSE d \in j.slots : f[d] = i IN
               NewRecord(j.user, j.res, d, j.party, j.hold, j.key,
                         IF Cardinality(j.slots) > 1 THEN Range(f) ELSE {},
                         Price(d))
  <1>1. PICK f \in Injection(j.slots, FreeRows) :
          row' = [i \in Rows |-> IF i \notin Range(f) THEN row[i] ELSE r(f, i)]
    BY DEF BookInsert, NewRecord
  <1>2. \A i \in Range(f) : row[i].status = "none"
    BY DEF Injection, Range, FreeRows
  <1>3. \A i : /\ IsRow(r(f, i)) /\ r(f, i).status = "pending"
               /\ r(f, i).user = j.user /\ r(f, i).key = j.key
               /\ r(f, i).hold = j.hold /\ r(f, i).attend = "scheduled"
    BY NewRow
  <1> HIDE DEF r
  <1>4. RowsShape'
    <2>1. row' = [i \in Rows |-> row'[i]]
      BY <1>1
    <2>2. \A i \in Rows : IsRow(row'[i])
      BY <1>1, <1>3 DEF RowsShape
    <2> QED BY <2>1, <2>2 DEF RowsShape
  <1>5. ASSUME NEW i \in Rows
        PROVE  Effect(i)
    <2>1. CASE i \notin Range(f)
      BY <1>1, <2>1 DEF Effect
    <2>2. CASE i \in Range(f)
      <3>1. row'[i] = r(f, i)
        BY <1>1, <2>2
      <3> DEFINE B == /\ BookInsert(s) /\ row[i].status = "none"
                      /\ row'[i].status = "pending"
                      /\ row'[i].user = job[s].user
                      /\ row'[i].key = job[s].key /\ row'[i].hold = job[s].hold
                      /\ row'[i].attend = "scheduled"
      <3>2. B
        BY <1>2, <1>3, <2>2, <3>1
      <3> QED BY ONLY <3>2, s \in Sessions DEF Effect
    <2> QED BY <2>1, <2>2
  <1> QED BY <1>4, <1>5

\* The columns that the other commits write.
WithStatus(x, a) == [x EXCEPT !.status = a]
WithAttend(x, a) == [x EXCEPT !.attend = a]
WithDecision(x, a, b) == [x EXCEPT !.status = a, !.hold = b]
WithSlot(x, a, b) == [x EXCEPT !.slot = a, !.price = b]

LEMMA StatusSet ==
  ASSUME NEW x, IsRow(x), NEW a, NEW b
  PROVE  LET q == WithStatus(x, a) IN
         /\ IsRow(q) /\ q.user = x.user /\ q.key = x.key
         /\ q.status = a /\ q.hold = x.hold /\ q.attend = x.attend
  <1> SUFFICES ASSUME NEW q, q = WithStatus(x, a)
               PROVE  /\ IsRow(q) /\ q.user = x.user /\ q.key = x.key
                      /\ q.status = a /\ q.hold = x.hold /\ q.attend = x.attend
    OBVIOUS
  <1> QED BY DEF IsRow, WithStatus

LEMMA AttendSet ==
  ASSUME NEW x, IsRow(x), NEW a, NEW b
  PROVE  LET q == WithAttend(x, a) IN
         /\ IsRow(q) /\ q.user = x.user /\ q.key = x.key
         /\ q.status = x.status /\ q.hold = x.hold /\ q.attend = a
  <1> SUFFICES ASSUME NEW q, q = WithAttend(x, a)
               PROVE  /\ IsRow(q) /\ q.user = x.user /\ q.key = x.key
                      /\ q.status = x.status /\ q.hold = x.hold /\ q.attend = a
    OBVIOUS
  <1> QED BY DEF IsRow, WithAttend

LEMMA DecisionSet ==
  ASSUME NEW x, IsRow(x), NEW a, NEW b
  PROVE  LET q == WithDecision(x, a, b) IN
         /\ IsRow(q) /\ q.user = x.user /\ q.key = x.key
         /\ q.status = a /\ q.hold = b /\ q.attend = x.attend
  <1> SUFFICES ASSUME NEW q, q = WithDecision(x, a, b)
               PROVE  /\ IsRow(q) /\ q.user = x.user /\ q.key = x.key
                      /\ q.status = a /\ q.hold = b /\ q.attend = x.attend
    OBVIOUS
  <1> QED BY DEF IsRow, WithDecision

LEMMA SlotSet ==
  ASSUME NEW x, IsRow(x), NEW a, NEW b
  PROVE  LET q == WithSlot(x, a, b) IN
         /\ IsRow(q) /\ q.user = x.user /\ q.key = x.key
         /\ q.status = x.status /\ q.hold = x.hold /\ q.attend = x.attend
  <1> SUFFICES ASSUME NEW q, q = WithSlot(x, a, b)
               PROVE  /\ IsRow(q) /\ q.user = x.user /\ q.key = x.key
                      /\ q.status = x.status /\ q.hold = x.hold /\ q.attend = x.attend
    OBVIOUS
  <1> QED BY DEF IsRow, WithSlot

LEMMA CancelEffect ==
  ASSUME RowsShape, NEW s \in Sessions, CancelCommit(s)
  PROVE  RowsShape' /\ \A i \in Rows : Effect(i)
  <1> DEFINE i == job[s].row
             q == WithStatus(row[i], "cancelled")
  <1>1. row' = [row EXCEPT ![i] = q]
    BY DEF CancelCommit, WithStatus
  <1>2. i \in Rows => /\ IsRow(q) /\ q.user = row[i].user /\ q.key = row[i].key
                      /\ q.status = "cancelled" /\ q.hold = row[i].hold
                      /\ q.attend = row[i].attend
    BY StatusSet DEF RowsShape
  <1> HIDE DEF i, q
  <1>3. /\ RowsShape' /\ (i \in Rows => row'[i] = q)
        /\ \A k \in Rows \ {i} : row'[k] = row[k]
    BY <1>1, <1>2 DEF RowsShape
  <1>4. i \in Rows => Wrote(i, "cancelled", row[i].hold, row[i].attend)
    BY <1>2, <1>3 DEF Wrote, SameKeys
  <1> QED BY <1>3, <1>4 DEF Effect

LEMMA ConfirmEffect ==
  ASSUME RowsShape, NEW s \in Sessions, ConfirmCommit(s)
  PROVE  RowsShape' /\ \A i \in Rows : Effect(i)
  <1> DEFINE i == job[s].row
             q == WithDecision(row[i], "confirmed", None)
  <1>1. row' = [row EXCEPT ![i] = q]
    BY DEF ConfirmCommit, WithDecision
  <1>2. i \in Rows => /\ IsRow(q) /\ q.user = row[i].user /\ q.key = row[i].key
                      /\ q.status = "confirmed" /\ q.hold = None
                      /\ q.attend = row[i].attend
    BY DecisionSet DEF RowsShape
  <1> HIDE DEF i, q
  <1>3. /\ RowsShape' /\ (i \in Rows => row'[i] = q)
        /\ \A k \in Rows \ {i} : row'[k] = row[k]
    BY <1>1, <1>2 DEF RowsShape
  <1>4. i \in Rows => Wrote(i, "confirmed", None, row[i].attend)
    BY <1>2, <1>3 DEF Wrote, SameKeys
  <1> QED BY <1>3, <1>4 DEF Effect, i

LEMMA CheckInEffect ==
  ASSUME RowsShape, NEW s \in Sessions, CheckInCommit(s)
  PROVE  RowsShape' /\ \A i \in Rows : Effect(i)
  <1> DEFINE i == job[s].row
             q == WithAttend(row[i], "checked_in")
  <1>1. row' = [row EXCEPT ![i] = q]
    BY DEF CheckInCommit, WithAttend
  <1>2. i \in Rows => /\ IsRow(q) /\ q.user = row[i].user /\ q.key = row[i].key
                      /\ q.status = row[i].status /\ q.hold = row[i].hold
                      /\ q.attend = "checked_in"
    BY AttendSet DEF RowsShape
  <1> HIDE DEF i, q
  <1>3. /\ RowsShape' /\ (i \in Rows => row'[i] = q)
        /\ \A k \in Rows \ {i} : row'[k] = row[k]
    BY <1>1, <1>2 DEF RowsShape
  <1>4. i \in Rows => Wrote(i, row[i].status, row[i].hold, "checked_in")
    BY <1>2, <1>3 DEF Wrote, SameKeys
  <1> QED BY <1>3, <1>4 DEF Effect, i

LEMMA CompleteEffect ==
  ASSUME RowsShape, NEW s \in Sessions, CompleteCommit(s)
  PROVE  RowsShape' /\ \A i \in Rows : Effect(i)
  <1> DEFINE i == job[s].row
             q == WithStatus(row[i], "completed")
  <1>1. row' = [row EXCEPT ![i] = q]
    BY DEF CompleteCommit, WithStatus
  <1>2. i \in Rows => /\ IsRow(q) /\ q.user = row[i].user /\ q.key = row[i].key
                      /\ q.status = "completed" /\ q.hold = row[i].hold
                      /\ q.attend = row[i].attend
    BY StatusSet DEF RowsShape
  <1> HIDE DEF i, q
  <1>3. /\ RowsShape' /\ (i \in Rows => row'[i] = q)
        /\ \A k \in Rows \ {i} : row'[k] = row[k]
    BY <1>1, <1>2 DEF RowsShape
  <1>4. i \in Rows => Wrote(i, "completed", row[i].hold, row[i].attend)
    BY <1>2, <1>3 DEF Wrote, SameKeys
  <1> QED BY <1>3, <1>4 DEF Effect, i

LEMMA MoveEffect ==
  ASSUME RowsShape, NEW s \in Sessions, MoveCommit(s)
  PROVE  RowsShape' /\ \A i \in Rows : Effect(i)
  <1> DEFINE j == job[s]
             i == j.row
  <1>1. PICK d \in j.slots :
          row' = [row EXCEPT
                    ![i].slot = [start |-> Column(d.start, j.slot.start, @.start),
                                 end |-> Column(d.end, j.slot.end, @.end)],
                    ![i].price = Column(Price(d), j.price, @)]
    BY DEF MoveCommit
  <1> DEFINE a == [start |-> Column(d.start, j.slot.start, row[i].slot.start),
                   end |-> Column(d.end, j.slot.end, row[i].slot.end)]
             b == Column(Price(d), j.price, row[i].price)
             q == WithSlot(row[i], a, b)
  <1>2. i \in Rows => /\ IsRow(q) /\ q.user = row[i].user /\ q.key = row[i].key
                      /\ q.status = row[i].status /\ q.hold = row[i].hold
                      /\ q.attend = row[i].attend
    BY SlotSet DEF RowsShape
  <1>q. row' = [row EXCEPT ![i] = q]
    <2>1. row' = [row EXCEPT ![i] = [row[i] EXCEPT !.slot = a, !.price = b]]
      BY <1>1
    <2> HIDE DEF a, b
    <2> QED BY <2>1 DEF WithSlot
  <1> HIDE DEF i, j, q
  <1>3. /\ RowsShape' /\ (i \in Rows => row'[i] = q)
        /\ \A k \in Rows \ {i} : row'[k] = row[k]
    BY <1>2, <1>q DEF RowsShape
  <1>4. i \in Rows => Wrote(i, row[i].status, row[i].hold, row[i].attend)
    BY <1>2, <1>3 DEF Wrote, SameKeys
  <1> QED BY <1>3, <1>4 DEF Effect

LEMMA ExpireEffect ==
  ASSUME RowsShape, NEW s \in Sessions, ExpireOne(s)
  PROVE  RowsShape' /\ \A i \in Rows : Effect(i)
  <1>1. PICK i \in job[s].rows : row' = [row EXCEPT ![i] = WithStatus(@, "expired")]
    BY DEF ExpireOne, WithStatus
  <1> DEFINE q == WithStatus(row[i], "expired")
  <1>2. i \in Rows => /\ IsRow(q) /\ q.user = row[i].user /\ q.key = row[i].key
                      /\ q.status = "expired" /\ q.hold = row[i].hold
                      /\ q.attend = row[i].attend
    BY StatusSet DEF RowsShape
  <1>q. row' = [row EXCEPT ![i] = q]
    BY <1>1
  <1> HIDE DEF q
  <1>3. /\ RowsShape' /\ (i \in Rows => row'[i] = q)
        /\ \A k \in Rows \ {i} : row'[k] = row[k]
    BY <1>2, <1>q DEF RowsShape
  <1>4. i \in Rows => Wrote(i, "expired", row[i].hold, row[i].attend)
    BY <1>2, <1>3 DEF Wrote, SameKeys
  <1> QED BY <1>3, <1>4 DEF Effect

LEMMA NoShowEffect ==
  ASSUME RowsShape, NEW s \in Sessions, NoShowJob(s)
  PROVE  RowsShape' /\ \A i \in Rows : Effect(i)
  <1> DEFINE rows == {i \in Rows : /\ row[i].status = "confirmed"
                                   /\ row[i].attend = "scheduled"
                                   /\ row[i].slot.start < now - Grace
                                   /\ RowFree(s, i)}
  <1>1. row' = [i \in Rows |-> IF i \in rows
                  THEN WithAttend(row[i], "no_show") ELSE row[i]]
    BY DEF NoShowJob, WithAttend
  <1>2. \A i \in rows : /\ row[i].status = "confirmed" /\ RowFree(s, i)
                        /\ row[i].attend = "scheduled"
    OBVIOUS
  <1> HIDE DEF rows
  <1>3. \A i \in Rows : LET q == WithAttend(row[i], "no_show") IN
          /\ IsRow(q) /\ q.user = row[i].user /\ q.key = row[i].key
          /\ q.status = row[i].status /\ q.hold = row[i].hold
          /\ q.attend = "no_show"
    BY AttendSet DEF RowsShape
  <1>4. RowsShape'
    <2>1. row' = [i \in Rows |-> row'[i]]
      BY <1>1
    <2>2. \A i \in Rows : IsRow(row'[i])
      BY <1>1, <1>3 DEF RowsShape
    <2> QED BY <2>1, <2>2 DEF RowsShape
  <1>5. ASSUME NEW i \in Rows
        PROVE  Effect(i)
    <2>1. CASE i \in rows
      <3>1. Wrote(i, "confirmed", row[i].hold, "no_show")
        BY <1>1, <1>2, <1>3, <2>1 DEF Wrote, SameKeys
      <3> QED BY <1>2, <2>1, <3>1 DEF Effect
    <2>2. CASE i \notin rows
      BY <1>1, <2>2 DEF Effect
    <2> QED BY <2>1, <2>2
  <1> QED BY <1>4, <1>5

-----------------------------------------------------------------------------
(* What the steps of one session do to it. *)

Kept(s) == \A t \in Sessions \ {s} :
  pc'[t] = pc[t] /\ job'[t] = job[t] /\ held'[t] = held[t]
OwnLocks(s) == \A t \in Sessions \ {s} :
  /\ held[s].user # None => held[s].user # held[t].user
  /\ held[s].row # None => held[s].row # held[t].row
Turn(s) ==
  /\ SessionsShape' /\ Kept(s) /\ OwnLocks(s)'
  /\ job'[s].hold \in Nat \cup {None}
  /\ Knows(pc[s], job[s], held[s])'

\* The labels at which nothing is relied on.
Tracked == {"book_user", "book_resource", "book_insert", "expire_one",
            "checkin_commit", "complete_commit"}
LEMMA NothingRelied ==
  ASSUME NEW label, label \notin Tracked, NEW j, NEW h
  PROVE  Knows(label, j, h) /\ Knows(label, j, h)'
  BY DEF Tracked, Knows

LEMMA FinishTurn ==
  ASSUME HourlyInv, NEW s \in Sessions, Finish(s)
  PROVE  Turn(s)
  <1>1. /\ SessionsShape' /\ Kept(s) /\ pc'[s] = "idle"
        /\ job'[s] = NoJob /\ held'[s] = NoLocks
    BY FinishShape DEF HourlyInv, Kept
  <1>2. OwnLocks(s)' /\ job'[s].hold = None
    BY <1>1 DEF OwnLocks, NoLocks, NoJob
  <1>3. Knows(pc[s], job[s], held[s])'
    BY <1>1, NothingRelied DEF Tracked
  <1> QED BY <1>1, <1>2, <1>3 DEF Turn

LEMMA BeginTurn ==
  ASSUME HourlyInv, NEW s \in Sessions, NEW label, NEW j, IsJob(j),
         j.hold = None, Begin(s, label, j), UNCHANGED <<tables, held>>,
         Knows(label, j, held[s])
  PROVE  Turn(s)
  <1>1. /\ pc' = [t \in Sessions |-> pc'[t]] /\ job' = [t \in Sessions |-> job'[t]]
        /\ \A t \in Sessions : IsJob(job'[t])
        /\ Kept(s) /\ pc'[s] = label /\ job'[s] = j
    BY BeginShape DEF HourlyInv, Kept
  <1>2. SessionsShape' /\ OwnLocks(s)'
    BY <1>1 DEF HourlyInv, SessionsShape, OwnLocks, LocksOK
  <1>3. Knows(pc[s], job[s], held[s])'
    BY <1>1 DEF Knows, tables, Replay, Elapsed
  <1> QED BY <1>1, <1>2, <1>3 DEF Turn

\* A session goes on to another label with the same data and locks.
LEMMA GotoTurn ==
  ASSUME HourlyInv, NEW s \in Sessions, NEW label, label \notin Tracked,
         Goto(s, label), UNCHANGED <<job, held>>
  PROVE  Turn(s)
  <1>1. SessionsShape' /\ Kept(s) /\ pc'[s] = label
    BY DEF HourlyInv, SessionsShape, Kept, Goto
  <1>2. OwnLocks(s)' /\ job'[s].hold \in Nat \cup {None}
    BY DEF HourlyInv, OwnLocks, LocksOK, NumbersOK
  <1>3. Knows(pc[s], job[s], held[s])'
    BY <1>1, NothingRelied
  <1> QED BY <1>1, <1>2, <1>3 DEF Turn

\* What each kind of request relies on when it begins.
LEMMA MoveTurn ==
  ASSUME HourlyInv, NEW s \in Sessions, NEW i \in Rows, NEW d,
         MoveStart(s, i, d)
  PROVE  Turn(s)
  <1> DEFINE q == [NoJob EXCEPT !.op = "move", !.user = row[i].user,
                     !.res = row[i].res, !.slots = {d},
                     !.party = row[i].party, !.row = i, !.at = now,
                     !.slot = row[i].slot, !.price = row[i].price]
  <1>a. ASSUME NEW j, j = q
       PROVE  IsJob(j) /\ j.hold = None
    BY <1>a DEF NoJob, IsJob
  <1>b. Begin(s, "move_user", q) /\ UNCHANGED <<tables, held>>
    BY DEF MoveStart
  <1> HIDE DEF q
  <1>c. IsJob(q) /\ q.hold = None
    BY ONLY <1>a
  <1>d. Knows("move_user", q, held[s])
    BY NothingRelied DEF Tracked
  <1> QED BY <1>b, <1>c, <1>d, BeginTurn

LEMMA BookTurn ==
  ASSUME HourlyInv, NEW s \in Sessions, NEW u \in Users, NEW r, NEW slots, NEW party, NEW key,
         BookStart(s, u, r, slots, party, key)
  PROVE  Turn(s)
  <1> DEFINE q == [NoJob EXCEPT !.op = "book", !.user = u, !.res = r,
                     !.slots = slots, !.party = party, !.key = key, !.at = now]
  <1>a. ASSUME NEW j, j = q
       PROVE  IsJob(j) /\ j.hold = None /\ j.user = u
    BY <1>a DEF NoJob, IsJob
  <1>b. Begin(s, "book_user", q) /\ UNCHANGED <<tables, held>>
    BY DEF BookStart
  <1> HIDE DEF q
  <1>c. IsJob(q) /\ q.hold = None /\ q.user = u
    BY ONLY <1>a
  <1>d. Knows("book_user", q, held[s])
    BY <1>c DEF Knows
  <1> QED BY <1>b, <1>c, <1>d, BeginTurn

LEMMA CancelTurn ==
  ASSUME HourlyInv, NEW s \in Sessions, NEW i \in Rows,
         CancelRead(s, i)
  PROVE  Turn(s)
  <1> DEFINE q == [NoJob EXCEPT !.op = "cancel", !.rows = {i},
                     !.seen = Copies({i})]
  <1>a. ASSUME NEW j, j = q
       PROVE  IsJob(j) /\ j.hold = None
    BY <1>a DEF NoJob, IsJob
  <1>b. Begin(s, "cancel_next", q) /\ UNCHANGED <<tables, held>>
    BY DEF CancelRead
  <1> HIDE DEF q
  <1>c. IsJob(q) /\ q.hold = None
    BY ONLY <1>a
  <1>d. Knows("cancel_next", q, held[s])
    BY NothingRelied DEF Tracked
  <1> QED BY <1>b, <1>c, <1>d, BeginTurn

LEMMA SeriesTurn ==
  ASSUME HourlyInv, NEW s \in Sessions, NEW i \in Rows, NEW cutoff,
         SeriesRead(s, i, cutoff)
  PROVE  Turn(s)
  <1> DEFINE rows == {k \in row[i].series :
                       /\ Open(k) /\ row[k].slot.start > now
                       /\ row[k].slot.start >= cutoff}
  <1> DEFINE q == [NoJob EXCEPT !.op = "series", !.rows = rows,
                     !.seen = Copies(rows)]
  <1>a. ASSUME NEW j, j = q
       PROVE  IsJob(j) /\ j.hold = None
    BY <1>a DEF NoJob, IsJob
  <1>b. Begin(s, "cancel_next", q) /\ UNCHANGED <<tables, held>>
    BY DEF SeriesRead
  <1> HIDE DEF q
  <1>c. IsJob(q) /\ q.hold = None
    BY ONLY <1>a
  <1>d. Knows("cancel_next", q, held[s])
    BY NothingRelied DEF Tracked
  <1> QED BY <1>b, <1>c, <1>d, BeginTurn

LEMMA CheckoutTurn ==
  ASSUME HourlyInv, NEW s \in Sessions, NEW i \in Rows,
         CheckoutRead(s, i)
  PROVE  Turn(s)
  <1> DEFINE q == [NoJob EXCEPT !.op = "checkout", !.row = i, !.price = row[i].price]
  <1>a. ASSUME NEW j, j = q
       PROVE  IsJob(j) /\ j.hold = None
    BY <1>a DEF NoJob, IsJob
  <1>b. Begin(s, "pay_lookup", q) /\ UNCHANGED <<tables, held>>
    BY DEF CheckoutRead
  <1> HIDE DEF q
  <1>c. IsJob(q) /\ q.hold = None
    BY ONLY <1>a
  <1>d. Knows("pay_lookup", q, held[s])
    BY NothingRelied DEF Tracked
  <1> QED BY <1>b, <1>c, <1>d, BeginTurn

LEMMA HookTurn ==
  ASSUME HourlyInv, NEW s \in Sessions, NEW k,
         HookRead(s, k)
  PROVE  Turn(s)
  <1>1. PICK i \in Rows :
          Begin(s, "hook_mark", [NoJob EXCEPT !.op = "webhook", !.row = i])
    BY DEF HookRead
  <1> DEFINE q == [NoJob EXCEPT !.op = "webhook", !.row = i]
  <1>a. ASSUME NEW j, j = q
       PROVE  IsJob(j) /\ j.hold = None
    BY <1>a DEF NoJob, IsJob
  <1>b. Begin(s, "hook_mark", q) /\ UNCHANGED <<tables, held>>
    BY <1>1 DEF HookRead
  <1> HIDE DEF q
  <1>c. IsJob(q) /\ q.hold = None
    BY ONLY <1>a
  <1>d. Knows("hook_mark", q, held[s])
    BY NothingRelied DEF Tracked
  <1> QED BY <1>b, <1>c, <1>d, BeginTurn

LEMMA ConfirmTurn ==
  ASSUME HourlyInv, NEW s \in Sessions, NEW i \in Rows,
         ConfirmRead(s, i)
  PROVE  Turn(s)
  <1> DEFINE j0 == [NoJob EXCEPT !.op = "confirm", !.row = i]
  <1>1. DecideOrExpire(s, i, "confirm_commit", j0)
    BY DEF ConfirmRead
  <1>2. CASE Begin(s, "confirm_commit", j0)
    <2> DEFINE q == j0
    <2>a. ASSUME NEW j, j = q
         PROVE  IsJob(j) /\ j.hold = None
      BY <2>a DEF NoJob, IsJob
    <2>b. Begin(s, "confirm_commit", q) /\ UNCHANGED <<tables, held>>
      BY <1>1, <1>2 DEF DecideOrExpire
    <2> HIDE DEF q
    <2>c. IsJob(q) /\ q.hold = None
      BY ONLY <2>a
    <2>d. Knows("confirm_commit", q, held[s])
      BY NothingRelied DEF Tracked
    <2> QED BY <2>b, <2>c, <2>d, BeginTurn
  <1>3. CASE row[i].status = "pending" /\ Elapsed(i)
             /\ Begin(s, "expire_one", [j0 EXCEPT !.rows = {i}])
    <2> DEFINE q == [j0 EXCEPT !.rows = {i}]
    <2>a. ASSUME NEW j, j = q
         PROVE  IsJob(j) /\ j.hold = None /\ j.rows = {i}
      BY <2>a DEF NoJob, IsJob
    <2>b. Begin(s, "expire_one", q) /\ UNCHANGED <<tables, held>>
      BY <1>1, <1>3 DEF DecideOrExpire
    <2> HIDE DEF q
    <2>c. IsJob(q) /\ q.hold = None /\ q.rows = {i}
      BY ONLY <2>a
    <2>d. Knows("expire_one", q, held[s])
      BY <1>3, <2>c DEF Knows
    <2> QED BY <2>b, <2>c, <2>d, BeginTurn
  <1> QED BY <1>1, <1>2, <1>3 DEF DecideOrExpire

LEMMA PayTurn ==
  ASSUME HourlyInv, NEW s \in Sessions, NEW i \in Rows,
         PayRead(s, i)
  PROVE  Turn(s)
  <1> DEFINE j0 == [NoJob EXCEPT !.op = "pay", !.row = i, !.price = row[i].price]
  <1>1. DecideOrExpire(s, i, "pay_lookup", j0)
    BY DEF PayRead
  <1>2. CASE Begin(s, "pay_lookup", j0)
    <2> DEFINE q == j0
    <2>a. ASSUME NEW j, j = q
         PROVE  IsJob(j) /\ j.hold = None
      BY <2>a DEF NoJob, IsJob
    <2>b. Begin(s, "pay_lookup", q) /\ UNCHANGED <<tables, held>>
      BY <1>1, <1>2 DEF DecideOrExpire
    <2> HIDE DEF q
    <2>c. IsJob(q) /\ q.hold = None
      BY ONLY <2>a
    <2>d. Knows("pay_lookup", q, held[s])
      BY NothingRelied DEF Tracked
    <2> QED BY <2>b, <2>c, <2>d, BeginTurn
  <1>3. CASE row[i].status = "pending" /\ Elapsed(i)
             /\ Begin(s, "expire_one", [j0 EXCEPT !.rows = {i}])
    <2> DEFINE q == [j0 EXCEPT !.rows = {i}]
    <2>a. ASSUME NEW j, j = q
         PROVE  IsJob(j) /\ j.hold = None /\ j.rows = {i}
      BY <2>a DEF NoJob, IsJob
    <2>b. Begin(s, "expire_one", q) /\ UNCHANGED <<tables, held>>
      BY <1>1, <1>3 DEF DecideOrExpire
    <2> HIDE DEF q
    <2>c. IsJob(q) /\ q.hold = None /\ q.rows = {i}
      BY ONLY <2>a
    <2>d. Knows("expire_one", q, held[s])
      BY <1>3, <2>c DEF Knows
    <2> QED BY <2>b, <2>c, <2>d, BeginTurn
  <1> QED BY <1>1, <1>2, <1>3 DEF DecideOrExpire

LEMMA CompleteTurn ==
  ASSUME HourlyInv, NEW s \in Sessions, NEW i \in Rows,
         CompleteRead(s, i)
  PROVE  Turn(s)
  <1> DEFINE q == [NoJob EXCEPT !.op = "complete", !.row = i]
  <1>a. ASSUME NEW j, j = q
       PROVE  IsJob(j) /\ j.hold = None /\ j.row = i
    BY <1>a DEF NoJob, IsJob
  <1>b. Begin(s, "complete_commit", q) /\ UNCHANGED <<tables, held>>
    BY DEF CompleteRead
  <1> HIDE DEF q
  <1>c. IsJob(q) /\ q.hold = None /\ q.row = i
    BY ONLY <1>a
  <1>d. Knows("complete_commit", q, held[s])
    BY <1>c DEF Knows, CompleteRead
  <1> QED BY <1>b, <1>c, <1>d, BeginTurn

LEMMA ScanTurn ==
  ASSUME HourlyInv, NEW s \in Sessions,
         ExpireScan(s)
  PROVE  Turn(s)
  <1> DEFINE rows == {i \in Rows : row[i].status = "pending" /\ Elapsed(i)}
  <1> DEFINE q == [NoJob EXCEPT !.op = "expire", !.rows = rows]
  <1>a. ASSUME NEW j, j = q
       PROVE  IsJob(j) /\ j.hold = None /\ j.rows = rows
    BY <1>a DEF NoJob, IsJob
  <1>b. Begin(s, "expire_one", q) /\ UNCHANGED <<tables, held>>
    BY DEF ExpireScan
  <1> HIDE DEF q
  <1>c. IsJob(q) /\ q.hold = None /\ q.rows = rows
    BY ONLY <1>a
  <1>d. Knows("expire_one", q, held[s])
    BY <1>c DEF Knows
  <1> QED BY <1>b, <1>c, <1>d, BeginTurn

\* A check-in locks the reservation it has read.
LEMMA CheckInTurn ==
  ASSUME HourlyInv, NEW s \in Sessions, NEW i \in Rows, CheckInLock(s, i)
  PROVE  Turn(s)
  <1> DEFINE q == [NoJob EXCEPT !.op = "checkin", !.row = i]
  <1>a. ASSUME NEW j, j = q
        PROVE  IsJob(j) /\ j.hold = None /\ j.row = i
    BY <1>a DEF NoJob, IsJob
  <1>b. Begin(s, "checkin_commit", q)
    BY DEF CheckInLock
  <1> HIDE DEF q
  <1>c. IsJob(q) /\ q.hold = None /\ q.row = i
    BY ONLY <1>a
  <1>1. /\ pc' = [t \in Sessions |-> pc'[t]] /\ job' = [t \in Sessions |-> job'[t]]
        /\ \A t \in Sessions : IsJob(job'[t])
        /\ pc'[s] = "checkin_commit" /\ job'[s] = q
        /\ \A t \in Sessions \ {s} : pc'[t] = pc[t] /\ job'[t] = job[t]
    BY <1>b, <1>c, BeginShape DEF HourlyInv
  <1>2. /\ held' = [t \in Sessions |-> held'[t]]
        /\ \A t \in Sessions : IsLocks(held'[t])
        /\ held'[s].row = i /\ held'[s].user = held[s].user
        /\ \A t \in Sessions \ {s} : held'[t] = held[t]
    BY DEF CheckInLock, HourlyInv, SessionsShape, IsLocks
  <1>3. SessionsShape' /\ Kept(s)
    BY <1>1, <1>2 DEF SessionsShape, Kept
  <1>4. OwnLocks(s)'
    BY <1>2 DEF OwnLocks, HourlyInv, LocksOK, CheckInLock, RowFree
  <1>5. Knows(pc[s], job[s], held[s])'
    BY <1>1, <1>2, <1>c DEF Knows, CheckInLock, tables
  <1> QED BY <1>1, <1>3, <1>4, <1>5, <1>c DEF Turn

\* Whatever begins.
LEMMA StartTurn ==
  ASSUME HourlyInv, NEW s \in Sessions, Start(s)
  PROVE  Turn(s) \/ NoShowJob(s)
  BY MoveTurn, BookTurn, CancelTurn, SeriesTurn, CheckoutTurn, HookTurn,
     ConfirmTurn, PayTurn, CompleteTurn, ScanTurn, CheckInTurn DEF Start

\* A session goes on with other data.
OtherData(s) ==
  /\ job' = [t \in Sessions |-> job'[t]] /\ IsJob(job'[s])
  /\ job'[s].hold \in Nat \cup {None}
  /\ \A t \in Sessions \ {s} : job'[t] = job[t]
LEMMA DataTurn ==
  ASSUME HourlyInv, NEW s \in Sessions, NEW label, label \notin Tracked,
         Goto(s, label), OtherData(s), UNCHANGED held
  PROVE  Turn(s)
  <1>1. SessionsShape' /\ Kept(s) /\ pc'[s] = label
    BY DEF HourlyInv, SessionsShape, Kept, Goto, OtherData
  <1>2. OwnLocks(s)' /\ job'[s].hold \in Nat \cup {None}
    BY DEF HourlyInv, OwnLocks, LocksOK, OtherData
  <1>3. Knows(pc[s], job[s], held[s])'
    BY <1>1, NothingRelied
  <1> QED BY <1>1, <1>2, <1>3 DEF Turn

\* The columns of a request that change on the way.
WithRows(x, a) == [x EXCEPT !.rows = a]
WithRefund(x, a, b) == [x EXCEPT !.row = a, !.refund = b]
LEMMA JobColumns ==
  ASSUME NEW x, IsJob(x), NEW a, NEW b
  PROVE  /\ IsJob(WithRows(x, a)) /\ WithRows(x, a).rows = a
         /\ WithRows(x, a).hold = x.hold
         /\ IsJob(WithRefund(x, a, b)) /\ WithRefund(x, a, b).hold = x.hold
  <1>1. ASSUME NEW q, q = WithRows(x, a)
        PROVE  IsJob(q) /\ q.rows = a /\ q.hold = x.hold
    BY <1>1 DEF IsJob, WithRows
  <1>2. ASSUME NEW q, q = WithRefund(x, a, b)
        PROVE  IsJob(q) /\ q.hold = x.hold
    BY <1>2 DEF IsJob, WithRefund
  <1> QED BY <1>1, <1>2

LEMMA RestTurn ==
  ASSUME HourlyInv, NEW s \in Sessions, NEW rows, CancelRest(s, rows)
  PROVE  Turn(s)
  <1>1. CASE Finish(s)
    BY <1>1, FinishTurn
  <1>2. CASE /\ job' = [job EXCEPT ![s].rows = rows]
             /\ Goto(s, "cancel_next") /\ UNCHANGED held
    <2>1. OtherData(s)
      BY <1>2 DEF HourlyInv, SessionsShape, NumbersOK, IsJob, OtherData
    <2> QED BY <1>2, <2>1, DataTurn DEF Tracked
  <1> QED BY <1>1, <1>2 DEF CancelRest

LEMMA CancelNextTurn ==
  ASSUME HourlyInv, NEW s \in Sessions, CancelNext(s)
  PROVE  Turn(s)
  <1>1. PICK i : \/ CancelRest(s, job[s].rows \ {i})
                 \/ /\ job' = [job EXCEPT ![s].row = i,
                                   ![s].refund = RefundOf(i, job[s].seen[i])]
                    /\ Goto(s, "cancel_commit") /\ UNCHANGED held
    BY DEF CancelNext
  <1>2. CASE CancelRest(s, job[s].rows \ {i})
    BY <1>2, RestTurn
  <1>3. CASE /\ job' = [job EXCEPT ![s].row = i,
                           ![s].refund = RefundOf(i, job[s].seen[i])]
             /\ Goto(s, "cancel_commit") /\ UNCHANGED held
    <2> DEFINE f == RefundOf(i, job[s].seen[i])
               q == WithRefund(job[s], i, f)
    <2>1. job' = [job EXCEPT ![s] = q]
      BY <1>3 DEF WithRefund
    <2>2. IsJob(q) /\ q.hold = job[s].hold
      BY JobColumns DEF HourlyInv, SessionsShape
    <2> HIDE DEF q
    <2>3. OtherData(s)
      BY <2>1, <2>2 DEF HourlyInv, SessionsShape, NumbersOK, OtherData
    <2> QED BY <1>3, <2>3, DataTurn DEF Tracked
  <1> QED BY <1>1, <1>2, <1>3

\* A payment found or made.
LEMMA PaymentTurn ==
  ASSUME HourlyInv, NEW s \in Sessions, PayLookup(s) \/ PayCreate(s)
  PROVE  Turn(s)
  <1>1. \/ Finish(s)
        \/ Goto(s, "pay_create") /\ UNCHANGED <<job, held>>
        \/ \E a : /\ Goto(s, Charge(s)) /\ UNCHANGED held
                  /\ job' = [job EXCEPT ![s].amount = a]
    BY DEF PayLookup, PayCreate
  <1>2. CASE \E a : /\ Goto(s, Charge(s)) /\ UNCHANGED held
                    /\ job' = [job EXCEPT ![s].amount = a]
    <2> PICK a : job' = [job EXCEPT ![s].amount = a]
      BY <1>2
    <2>1. OtherData(s)
      BY DEF HourlyInv, SessionsShape, NumbersOK, IsJob, OtherData
    <2>2. Charge(s) \notin Tracked
      BY DEF Charge, Tracked
    <2> QED BY <1>2, <2>1, <2>2, DataTurn
  <1> QED BY <1>1, <1>2, FinishTurn, GotoTurn DEF Tracked

\* Steps that only go on, or end.
LEMMA PlainTurn ==
  ASSUME HourlyInv, NEW s \in Sessions,
         \/ BookInsert(s) \/ MoveCommit(s) \/ CancelCommit(s)
         \/ ConfirmCommit(s) \/ PayMark(s) \/ CheckoutSave(s) \/ HookMark(s)
         \/ HookReadRow(s) \/ CheckInCommit(s) \/ CompleteCommit(s) \/ Abort(s)
  PROVE  Turn(s)
  <1>1. \/ Finish(s)
        \/ \E label \in {"confirm_commit", "hook_read"} :
             Goto(s, label) /\ UNCHANGED <<job, held>>
        \/ \E rows : CancelRest(s, rows)
    BY DEF BookInsert, MoveCommit, CancelCommit, ConfirmCommit, PayMark,
           CheckoutSave, HookMark, HookReadRow, CheckInCommit, CompleteCommit,
           Abort
  <1> QED BY <1>1, FinishTurn, GotoTurn, RestTurn DEF Tracked

\* Locks that are taken.
LEMMA LockTurn ==
  ASSUME HourlyInv, NEW s \in Sessions, NEW label, Goto(s, label),
         OtherData(s),
         \/ \E u : UserFree(s, u) /\ held' = [held EXCEPT ![s].user = u]
         \/ \E i : RowFree(s, i) /\ held' = [held EXCEPT ![s].row = i]
         \/ \E r : held' = [held EXCEPT ![s].res = r],
         Knows(label, job[s], held[s])'
  PROVE  Turn(s)
  <1>1. /\ held' = [t \in Sessions |-> held'[t]]
        /\ \A t \in Sessions : IsLocks(held'[t])
        /\ \A t \in Sessions \ {s} : held'[t] = held[t]
    BY DEF HourlyInv, SessionsShape, IsLocks
  <1>2. SessionsShape' /\ Kept(s) /\ pc'[s] = label
    BY <1>1 DEF HourlyInv, SessionsShape, Kept, Goto, OtherData
  <1>3. OwnLocks(s)'
    BY <1>1 DEF HourlyInv, SessionsShape, IsLocks, OwnLocks, LocksOK, UserFree,
                RowFree
  <1> QED BY <1>2, <1>3 DEF Turn, OtherData

LEMMA SameData ==
  ASSUME HourlyInv, NEW s \in Sessions, UNCHANGED job
  PROVE  OtherData(s)
  BY DEF HourlyInv, SessionsShape, NumbersOK, OtherData

LEMMA BookLockUserTurn ==
  ASSUME HourlyInv, NEW s \in Sessions, BookLockUser(s)
  PROVE  Turn(s)
  <1> DEFINE j == job[s]
  <1>1. CASE Finish(s)
    BY <1>1, FinishTurn
  <1>2. CASE /\ ~Replay(j.user, j.key)
             /\ held' = [held EXCEPT ![s].user = j.user]
             /\ job' = [job EXCEPT ![s].hold = now + Hold]
             /\ Goto(s, "book_resource")
    <2>1. OtherData(s) /\ job'[s].user = j.user /\ job'[s].key = j.key
      BY <1>2, NumbersAssumption
         DEF HourlyInv, SessionsShape, NumbersOK, IsJob, OtherData
    <2>2. held'[s].user = j.user
      BY <1>2 DEF HourlyInv, SessionsShape, IsLocks
    <2>3. j.user \in Users /\ UserFree(s, j.user) /\ UNCHANGED tables
      BY DEF BookLockUser, HourlyInv, Knows
    <2>4. Knows("book_resource", job[s], held[s])'
      BY <1>2, <2>1, <2>2, <2>3 DEF Knows, Replay, tables
    <2> QED BY <1>2, <2>1, <2>3, <2>4, LockTurn
  <1> QED BY <1>1, <1>2 DEF BookLockUser

LEMMA BookLockResourceTurn ==
  ASSUME HourlyInv, NEW s \in Sessions, BookLockResource(s)
  PROVE  Turn(s)
  <1>1. CASE Finish(s)
    BY <1>1, FinishTurn
  <1>2. CASE /\ held' = [held EXCEPT ![s].res = job[s].res]
             /\ Goto(s, "book_insert") /\ UNCHANGED job
    <2>1. held'[s].user = held[s].user
      BY <1>2 DEF HourlyInv, SessionsShape, IsLocks
    <2>2. Knows("book_insert", job[s], held[s])'
      BY <1>2, <2>1 DEF BookLockResource, HourlyInv, Knows, Replay, tables
    <2> QED BY <1>2, <2>2, SameData, LockTurn
  <1> QED BY <1>1, <1>2 DEF BookLockResource

LEMMA MoveTurns ==
  ASSUME HourlyInv, NEW s \in Sessions,
         MoveLockUser(s) \/ MovePrice(s) \/ MoveLockResource(s)
  PROVE  Turn(s)
  <1>1. \/ Finish(s)
        \/ \E label \in {"move_price", "move_resource", "move_commit"} :
             /\ Goto(s, label) /\ UNCHANGED job
             /\ \/ \E u : UserFree(s, u) /\ held' = [held EXCEPT ![s].user = u]
                \/ \E i : RowFree(s, i) /\ held' = [held EXCEPT ![s].row = i]
                \/ \E r : held' = [held EXCEPT ![s].res = r]
    BY DEF MoveLockUser, MovePrice, MoveLockResource
  <1>2. ASSUME NEW label \in {"move_price", "move_resource", "move_commit"}
        PROVE  label \notin Tracked /\ Knows(label, job[s], held[s])'
    <2>1. label \notin Tracked
      BY <1>2 DEF Tracked
    <2> QED BY <2>1, NothingRelied
  <1> QED BY <1>1, <1>2, FinishTurn, SameData, LockTurn

\* What may be expired may still be expired, whatever happens to it.
ClockOK == now' \in Nat /\ now' >= now
ToExpire(i) == row[i].status # "none" /\ (row[i].status = "pending" => Elapsed(i))
LEMMA ElapsedStays ==
  ASSUME HourlyInv, ClockOK, NEW i \in Rows, Effect(i), ToExpire(i)
  PROVE  ToExpire(i)'
  BY NoneAssumption DEF HourlyInv, NumbersOK, ClockOK, Effect, Wrote, SameKeys,
     ToExpire, Elapsed

LEMMA ExpireTurn ==
  ASSUME HourlyInv, ClockOK, NEW s \in Sessions, ExpireOne(s)
  PROVE  Turn(s)
  <1>1. CASE Finish(s)
    BY <1>1, FinishTurn
  <1>2. ASSUME NEW i, job' = [job EXCEPT ![s].rows = @ \ {i}],
               UNCHANGED <<pc, held>>
        PROVE  Turn(s)
    <2> DEFINE q == WithRows(job[s], job[s].rows \ {i})
    <2>a. job' = [job EXCEPT ![s] = q]
      BY <1>2 DEF WithRows
    <2>b. IsJob(q) /\ q.rows = job[s].rows \ {i} /\ q.hold = job[s].hold
      BY JobColumns DEF HourlyInv, SessionsShape
    <2> HIDE DEF q
    <2>1. /\ job' = [t \in Sessions |-> job'[t]]
          /\ \A t \in Sessions : IsJob(job'[t])
          /\ \A t \in Sessions \ {s} : job'[t] = job[t]
          /\ job'[s].rows = job[s].rows \ {i} /\ job'[s].hold = job[s].hold
      BY <2>a, <2>b DEF HourlyInv, SessionsShape
    <2>2. SessionsShape' /\ Kept(s) /\ OwnLocks(s)'
      BY <1>2, <2>1 DEF HourlyInv, SessionsShape, Kept, OwnLocks, LocksOK
    <2>3. /\ pc[s] = "expire_one" /\ job[s].rows \subseteq Rows
          /\ \A k \in job[s].rows : ToExpire(k)
      BY DEF ExpireOne, HourlyInv, Knows, ToExpire
    <2>4. \A k \in Rows : Effect(k)
      BY ExpireEffect DEF HourlyInv
    <2>5. \A k \in job[s].rows : ToExpire(k)'
      BY <2>3, <2>4, ElapsedStays
    <2>6. Knows(pc[s], job[s], held[s])'
      BY <1>2, <2>1, <2>3, <2>5 DEF Knows, ToExpire
    <2> QED BY <2>1, <2>2, <2>6 DEF Turn, HourlyInv, NumbersOK
  <1> QED BY <1>1, <1>2 DEF ExpireOne

LEMMA ContinueTurn ==
  ASSUME HourlyInv, ClockOK, NEW s \in Sessions, Continue(s) \/ Abort(s)
  PROVE  Turn(s)
  BY PlainTurn, CancelNextTurn, PaymentTurn, BookLockUserTurn,
     BookLockResourceTurn, MoveTurns, ExpireTurn DEF Continue

-----------------------------------------------------------------------------
(* The invariant. *)

LEMMA ClockStep ==
  ASSUME HourlyInv, [Next]_vars
  PROVE  ClockOK
  <1>1. ASSUME NEW s \in Sessions, Start(s) \/ Abort(s)
        PROVE  UNCHANGED now
    BY <1>1 DEF tables, Start, Abort, MoveStart, BookStart, CancelRead, SeriesRead,
       ConfirmRead, PayRead, DecideOrExpire, CheckoutRead, CheckInLock,
       CompleteRead, HookRead, ExpireScan, NoShowJob
  <1>2. ASSUME NEW s \in Sessions, Continue(s)
        PROVE  UNCHANGED now
    BY <1>2 DEF tables, Continue, BookLockUser, BookLockResource, BookInsert,
       MoveLockUser, MovePrice, MoveLockResource, MoveCommit, CancelNext,
       CancelCommit, ConfirmCommit, PayLookup, PayCreate, PayMark, CheckoutSave,
       HookMark, HookReadRow, ExpireOne, CheckInCommit, CompleteCommit
  <1>3. UNCHANGED now \/ now' = now + 1
    BY <1>1, <1>2, Steps DEF tables, Tick
  <1> QED BY <1>3 DEF HourlyInv, NumbersOK, ClockOK

LEMMA RowsStep ==
  ASSUME HourlyInv, [Next]_vars
  PROVE  RowsShape' /\ \A i \in Rows : Effect(i)
  <1>1. RowsShape
    BY DEF HourlyInv
  <1>2. ASSUME UNCHANGED row
        PROVE  RowsShape' /\ \A i \in Rows : Effect(i)
    BY <1>1, <1>2 DEF RowsShape, Effect
  <1>3. CASE UNCHANGED <<tables, pc, job, held>> \/ Tick
    BY <1>2, <1>3 DEF tables, Tick
  <1>4. ASSUME NEW s \in Sessions, Start(s)
        PROVE  RowsShape' /\ \A i \in Rows : Effect(i)
    <2>1. NoShowJob(s) \/ UNCHANGED row
      BY <1>4 DEF Start, tables, MoveStart, BookStart, CancelRead, SeriesRead,
         ConfirmRead, PayRead, DecideOrExpire, CheckoutRead, CheckInLock,
         CompleteRead, HookRead, ExpireScan
    <2> QED BY <1>1, <1>2, <2>1, NoShowEffect
  <1>5. ASSUME NEW s \in Sessions, Continue(s) \/ Abort(s)
        PROVE  RowsShape' /\ \A i \in Rows : Effect(i)
    <2>1. \/ UNCHANGED row
          \/ BookInsert(s) \/ MoveCommit(s) \/ CancelCommit(s) \/ ConfirmCommit(s)
          \/ ExpireOne(s) \/ CheckInCommit(s) \/ CompleteCommit(s)
      BY <1>5 DEF Continue, Abort, tables, BookLockUser, BookLockResource,
         MoveLockUser, MovePrice, MoveLockResource, CancelNext, PayLookup,
         PayCreate, PayMark, CheckoutSave, HookMark, HookReadRow
    <2> QED BY <1>1, <1>2, <2>1, BookEffect, MoveEffect, CancelEffect,
               ConfirmEffect, ExpireEffect, CheckInEffect, CompleteEffect
  <1> QED BY <1>3, <1>4, <1>5, Steps

\* A session keeps what it relies on while others take their steps.
LEMMA OthersKnow ==
  ASSUME HourlyInv, ClockOK, \A i \in Rows : Effect(i), NEW t \in Sessions,
         pc'[t] = pc[t], job'[t] = job[t], held'[t] = held[t]
  PROVE  Knows(pc[t], job[t], held[t])'
  <1> DEFINE j == job[t]
  <1>1. Knows(pc[t], job[t], held[t]) /\ LocksOK /\ NumbersOK
    BY DEF HourlyInv
  <1>2. ASSUME pc[t] \in {"book_resource", "book_insert"}
        PROVE  ~Replay(j.user, j.key)'
    <2>1. j.user \in Users /\ held[t].user = j.user /\ ~Replay(j.user, j.key)
      BY <1>1, <1>2 DEF Knows
    <2>2. ASSUME NEW i \in Rows, row'[i].user = j.user, row'[i].key = j.key,
                 j.key # None
          PROVE  FALSE
      <3>1. CASE SameKeys(i)
        BY <2>1, <2>2, <3>1 DEF Replay, SameKeys
      <3>2. ASSUME NEW s \in Sessions, BookInsert(s), row'[i].user = job[s].user
            PROVE  FALSE
        <4>1. pc[s] = "book_insert" /\ pc'[s] = "idle"
          BY <3>2 DEF BookInsert, Finish, HourlyInv, SessionsShape
        <4>2. s # t
          BY <1>2, <4>1
        <4>3. held[s].user = job[s].user
          BY <4>1 DEF HourlyInv, Knows
        <4> QED BY <1>1, <2>1, <2>2, <3>2, <4>2, <4>3, NoneAssumption DEF LocksOK
      <3> QED BY <3>1, <3>2 DEF Effect, Wrote, SameKeys
    <2> QED BY <2>2 DEF Replay
  <1>3. ASSUME pc[t] = "expire_one", NEW i \in j.rows
        PROVE  i \in Rows /\ ToExpire(i)'
    BY <1>1, <1>3, ElapsedStays DEF Knows, ToExpire
  <1>4. ASSUME pc[t] = "checkin_commit"
        PROVE  row'[j.row].status # "none" /\ row'[j.row].attend = "scheduled"
    <2> DEFINE i == j.row
    <2>1. /\ i \in Rows /\ held[t].row = i
          /\ row[i].status # "none" /\ row[i].attend = "scheduled"
      BY <1>1, <1>4 DEF Knows
    <2>2. ASSUME NEW s \in Sessions, CheckInCommit(s), i = job[s].row
          PROVE  FALSE
      <3>1. pc[s] = "checkin_commit" /\ pc'[s] = "idle"
        BY <2>2 DEF CheckInCommit, Finish, HourlyInv, SessionsShape
      <3>2. held[s].row = i /\ s # t
        BY <1>4, <2>2, <3>1 DEF HourlyInv, Knows
      <3> QED BY <1>1, <2>1, <3>2, NoneAssumption DEF LocksOK
    <2>3. ASSUME NEW s \in Sessions, NoShowJob(s), RowFree(s, i)
          PROVE  FALSE
      <3>1. s # t
        BY <1>4, <2>3 DEF NoShowJob
      <3> QED BY <2>1, <2>3, <3>1 DEF RowFree
    <2> QED BY <2>1, <2>2, <2>3 DEF Effect, Wrote
  <1>5. ASSUME pc[t] = "complete_commit"
        PROVE  row'[j.row].attend = "checked_in"
    <2>1. j.row \in Rows /\ row[j.row].attend = "checked_in"
      BY <1>1, <1>5 DEF Knows
    <2> QED BY <1>1, <2>1 DEF Effect, Wrote, NumbersOK
  <1> QED BY <1>1, <1>2, <1>3, <1>4, <1>5 DEF Knows, ToExpire

LEMMA Initially ==
  ASSUME Init
  PROVE  HourlyInv
  <1>1. \A i \in Rows : row[i] = NoRow
    BY DEF Init
  <1>2. \A s \in Sessions : pc[s] = "idle" /\ job[s] = NoJob /\ held[s] = NoLocks
    BY DEF Init
  <1>3. IsRow(NoRow) /\ IsJob(NoJob) /\ IsLocks(NoLocks)
    BY DEF NoRow, NoJob, NoLocks, IsRow, IsJob, IsLocks
  <1>4. RowsShape
    BY <1>1, <1>3 DEF Init, RowsShape
  <1>5. SessionsShape
    BY <1>2, <1>3 DEF Init, SessionsShape
  <1>6. LocksOK /\ NumbersOK /\ CompletedCheckedIn
    BY <1>1, <1>2 DEF Init, LocksOK, NumbersOK, CompletedCheckedIn, NoRow, NoJob,
                      NoLocks
  <1>7. \A s \in Sessions : Knows(pc[s], job[s], held[s])
    BY <1>2 DEF Knows
  <1> QED BY <1>4, <1>5, <1>6, <1>7 DEF HourlyInv

LEMMA Inductive ==
  ASSUME HourlyInv, [Next]_vars
  PROVE  HourlyInv'
  <1>1. ClockOK /\ RowsShape' /\ \A i \in Rows : Effect(i)
    BY ClockStep, RowsStep
  <1>2. ASSUME UNCHANGED <<pc, job, held>>
        PROVE  /\ SessionsShape' /\ LocksOK'
               /\ \A t \in Sessions : /\ Knows(pc[t], job[t], held[t])'
                                       /\ job'[t].hold \in Nat \cup {None}
    <2>1. SessionsShape' /\ LocksOK' /\ \A s \in Sessions : Knows(pc[s], job[s], held[s])'
      BY <1>1, <1>2, OthersKnow DEF HourlyInv, SessionsShape, LocksOK
    <2>2. \A s \in Sessions : job'[s].hold \in Nat \cup {None}
      BY <1>2 DEF HourlyInv, NumbersOK
    <2> QED BY <2>1, <2>2
  <1>3. ASSUME NEW s \in Sessions, Turn(s)
        PROVE  /\ SessionsShape' /\ LocksOK'
               /\ \A t \in Sessions : /\ Knows(pc[t], job[t], held[t])'
                                       /\ job'[t].hold \in Nat \cup {None}
    <2>1. LocksOK'
      BY <1>3 DEF HourlyInv, LocksOK, Turn, Kept, OwnLocks
    <2>2. ASSUME NEW t \in Sessions
          PROVE  Knows(pc[t], job[t], held[t])' /\ job'[t].hold \in Nat \cup {None}
      BY <1>1, <1>3, OthersKnow DEF HourlyInv, NumbersOK, Turn, Kept
    <2> QED BY <1>3, <2>1, <2>2 DEF Turn
  <1>4. /\ SessionsShape' /\ LocksOK'
        /\ \A t \in Sessions : /\ Knows(pc[t], job[t], held[t])'
                                /\ job'[t].hold \in Nat \cup {None}
    <2>1. \/ UNCHANGED <<pc, job, held>>
          \/ \E s \in Sessions : Turn(s)
      BY <1>1, Steps, StartTurn, ContinueTurn DEF Tick, NoShowJob
    <2> QED BY <1>2, <1>3, <2>1
  <1>5. NumbersOK'
    <2>1. ASSUME NEW i \in Rows
          PROVE  /\ row'[i].hold \in Nat \cup {None}
                 /\ row'[i].status = "none" => row'[i].attend = "scheduled"
      <3>1. /\ Effect(i) /\ row[i].hold \in Nat \cup {None}
            /\ row[i].status = "none" => row[i].attend = "scheduled"
            /\ \A s \in Sessions : job[s].hold \in Nat \cup {None}
        BY <1>1 DEF HourlyInv, NumbersOK
      <3>2. row'[i].hold \in Nat \cup {None}
        BY <3>1 DEF Effect, Wrote
      <3>3. \A s \in Sessions : CheckInCommit(s) /\ i = job[s].row
                                => row[i].status # "none"
        BY DEF CheckInCommit, HourlyInv, Knows
      <3>4. row'[i].status = "none" => row'[i].attend = "scheduled"
        BY <3>1, <3>3 DEF Effect, Wrote
      <3> QED BY <3>2, <3>4
    <2> QED BY <1>1, <1>4, <2>1 DEF NumbersOK, ClockOK
  <1>6. CompletedCheckedIn'
    <2>1. ASSUME NEW i \in Rows, row'[i].status = "completed"
          PROVE  row'[i].attend = "checked_in"
      <3>1. row[i].status = "completed" => row[i].attend = "checked_in"
        BY DEF HourlyInv, CompletedCheckedIn
      <3>2. \A s \in Sessions : CompleteCommit(s) /\ i = job[s].row
                                => row[i].attend = "checked_in"
        BY DEF CompleteCommit, HourlyInv, Knows
      <3> QED BY <1>1, <2>1, <3>1, <3>2 DEF Effect, Wrote
    <2> QED BY <2>1 DEF CompletedCheckedIn
  <1> QED BY <1>1, <1>4, <1>5, <1>6 DEF HourlyInv

LEMMA Invariance == Spec => []HourlyInv
  BY Initially, Inductive, PTL DEF Spec

-----------------------------------------------------------------------------
(* What follows. *)

\* Whoever is about to insert a reservation with an idempotency key is the
\* only one to have it: two of the same customer cannot both have passed the
\* second look, which needs the lock of the customer (create_with_conflict_lock).
THEOREM KeysNeverCollideAlways == Spec => []KeysNeverCollide
  <1>1. HourlyInv => KeysNeverCollide
    BY DEF HourlyInv, Knows, KeysNeverCollide
  <1> QED BY <1>1, Invariance, PTL

\* Only a reservation whose customer was checked in is completed, although the
\* owner's request writes from a copy: once checked in, always checked in
\* (complete_for_owner).
THEOREM CompletedCheckedInAlways == Spec => []CompletedCheckedIn
  <1>1. HourlyInv => CompletedCheckedIn
    BY DEF HourlyInv
  <1> QED BY <1>1, Invariance, PTL

\* A check-in and the no-show job never overrule each other: the check-in keeps
\* the reservation locked from reading to writing, and the job passes by what
\* is locked (check_in_by_token and mark_past_confirmed_reservations_as_no_show).
THEOREM AttendanceDecidedOnceAlways == Spec => AttendanceDecidedOnce
  <1>1. HourlyInv /\ [Next]_vars => AttendanceStep
    <2> SUFFICES ASSUME HourlyInv, [Next]_vars, NEW i \in Rows,
                        row[i].attend # "scheduled"
                 PROVE  row'[i].attend = row[i].attend
      BY DEF AttendanceStep
    <2>1. Effect(i) /\ row[i].status # "none"
      BY RowsStep DEF HourlyInv, NumbersOK
    <2>2. \A s \in Sessions : ~(CheckInCommit(s) /\ i = job[s].row)
      BY DEF CheckInCommit, HourlyInv, Knows
    <2> QED BY <2>1, <2>2 DEF Effect, Wrote
  <1> QED BY <1>1, Invariance, PTL DEF Spec, AttendanceDecidedOnce

\* Nobody expires a reservation before its hold has elapsed: what a session
\* found elapsed is elapsed, or no longer pending, when it commits, however
\* many commits of its own and of others come in between.
THEOREM HoldHonouredAlways == Spec => HoldHonoured
  <1>1. HourlyInv /\ [Next]_vars => HoldStep
    <2> SUFFICES ASSUME HourlyInv, [Next]_vars, NEW i \in Rows,
                        row[i].status = "pending", ~Elapsed(i)
                 PROVE  row'[i].status # "expired"
      BY DEF HoldStep
    <2>1. Effect(i)
      BY RowsStep
    <2>2. \A s \in Sessions : ~(ExpireOne(s) /\ i \in job[s].rows)
      BY DEF ExpireOne, HourlyInv, Knows
    <2> QED BY <2>1, <2>2 DEF Effect, Wrote
  <1> QED BY <1>1, Invariance, PTL DEF Spec, HoldHonoured

-----------------------------------------------------------------------------
(* Counting people. *)

LEMMA TwoSets ==
  ASSUME NEW A, NEW B, IsFiniteSet(A), IsFiniteSet(B)
  PROVE  /\ IsFiniteSet(A \cup B)
         /\ Cardinality(A \cup B) <= Cardinality(A) + Cardinality(B)
         /\ A \cap B = {} =>
              Cardinality(A \cup B) = Cardinality(A) + Cardinality(B)
  <1>1. Cardinality(A) \in Nat /\ Cardinality(B) \in Nat
    BY FS_CardinalityType
  <1>2. Cardinality(A \cap B) \in Nat
    BY FS_Intersection, FS_CardinalityType
  <1>3. /\ IsFiniteSet(A \cup B)
        /\ Cardinality(A \cup B)
             = Cardinality(A) + Cardinality(B) - Cardinality(A \cap B)
    BY FS_Union
  <1>4. A \cap B = {} => Cardinality(A \cap B) = 0
    BY FS_EmptySet
  <1> QED BY <1>1, <1>2, <1>3, <1>4

People(holders) == UNION {{h.id} \X (1 .. h.party) : h \in holders}

\* Finitely many holders, told apart by their id.
Counted(holders) == IsFiniteSet(holders) /\ \A h \in holders : h.party \in Nat
Distinct(holders) == \A g, h \in holders : g.id = h.id => g = h

LEMMA PeopleFinite ==
  ASSUME NEW holders, Counted(holders)
  PROVE  IsFiniteSet(People(holders)) /\ Cardinality(People(holders)) \in Nat
  <1> DEFINE seats(h) == {h.id} \X (1 .. h.party)
             f == [h \in holders |-> seats(h)]
             S == {seats(h) : h \in holders}
  <1>1. f \in Surjection(holders, S)
    BY DEF Surjection
  <1>2. IsFiniteSet(S)
    BY <1>1, FS_Surjection DEF Counted
  <1>3. ASSUME NEW h \in holders
        PROVE  IsFiniteSet(seats(h))
    <2>1. IsFiniteSet({h.id})
      BY FS_Singleton
    <2>2. IsFiniteSet(1 .. h.party)
      BY FS_Interval DEF Counted
    <2> QED BY <2>1, <2>2, FS_Product
  <1>4. IsFiniteSet(UNION S)
    BY <1>2, <1>3, FS_UNION
  <1> QED BY <1>4, FS_CardinalityType DEF People

\* Fewer holders are fewer people.
LEMMA PeopleFewer ==
  ASSUME NEW K, NEW L, K \subseteq L, Counted(L)
  PROVE  /\ Counted(K) /\ Cardinality(People(K)) \in Nat
         /\ Cardinality(People(L)) \in Nat
         /\ Cardinality(People(K)) <= Cardinality(People(L))
  <1>1. Counted(K)
    BY FS_Subset DEF Counted
  <1>2. People(K) \subseteq People(L)
    BY DEF People
  <1> QED BY <1>1, <1>2, PeopleFinite, FS_Subset

\* Holders with other ids are other people.
LEMMA PeopleApart ==
  ASSUME NEW K, NEW L, Counted(K), Counted(L),
         \A g \in K, h \in L : g.id # h.id
  PROVE  /\ Counted(K \cup L)
         /\ Cardinality(People(K \cup L))
              = Cardinality(People(K)) + Cardinality(People(L))
  <1>1. People(K \cup L) = People(K) \cup People(L)
    BY DEF People
  <1>2. People(K) \cap People(L) = {}
    <2> SUFFICES ASSUME NEW x \in People(K), x \in People(L)
                 PROVE  FALSE
      OBVIOUS
    <2>1. PICK g \in K : x \in {g.id} \X (1 .. g.party)
      BY DEF People
    <2>2. PICK h \in L : x \in {h.id} \X (1 .. h.party)
      BY DEF People
    <2> QED BY <2>1, <2>2
  <1>3. IsFiniteSet(K \cup L) /\ \A h \in K \cup L : h.party \in Nat
    BY FS_Union DEF Counted
  <1>4. IsFiniteSet(People(K)) /\ IsFiniteSet(People(L))
    BY PeopleFinite
  <1>5. Cardinality(People(K) \cup People(L))
          = Cardinality(People(K)) + Cardinality(People(L))
    BY <1>2, <1>4, TwoSets
  <1> QED BY <1>1, <1>3, <1>5 DEF Counted

\* Two groups of holders, and never more people than in both.
LEMMA PeopleAtMost ==
  ASSUME NEW K, NEW L, Counted(K), Counted(L)
  PROVE  /\ Counted(K \cup L)
         /\ Cardinality(People(K \cup L))
              <= Cardinality(People(K)) + Cardinality(People(L))
  <1>1. People(K \cup L) = People(K) \cup People(L)
    BY DEF People
  <1>2. IsFiniteSet(K \cup L) /\ \A h \in K \cup L : h.party \in Nat
    BY FS_Union DEF Counted
  <1>4. IsFiniteSet(People(K)) /\ IsFiniteSet(People(L))
    BY PeopleFinite
  <1>5. Cardinality(People(K) \cup People(L))
          <= Cardinality(People(K)) + Cardinality(People(L))
    BY <1>4, TwoSets
  <1> QED BY <1>1, <1>2, <1>5 DEF Counted

\* Those who have come and not gone.
LEMMA PeopleLeft ==
  ASSUME NEW L, NEW K, K \subseteq L, Counted(L), Distinct(L)
  PROVE  Cardinality(People(L)) - Cardinality(People(K))
           = Cardinality(People(L \ K))
  <1>1. Counted(K) /\ Counted(L \ K)
    BY PeopleFewer
  <1>2. \A g \in K, h \in L \ K : g.id # h.id
    BY DEF Distinct
  <1>3. K \cup (L \ K) = L
    OBVIOUS
  <1>4. Cardinality(People(L)) = Cardinality(People(K)) + Cardinality(People(L \ K))
    BY <1>1, <1>2, <1>3, PeopleApart
  <1> QED BY <1>1, <1>4, PeopleFinite

LEMMA NoPeople ==
  ASSUME NEW holders, holders = {}
  PROVE  Counted(holders) /\ Cardinality(People(holders)) = 0
  BY FS_EmptySet DEF People, Counted

-----------------------------------------------------------------------------
(* The highest of some numbers. *)

LEMMA HasMax ==
  ASSUME NEW S \in SUBSET Int, S # {}, NEW b \in Int, \A x \in S : x <= b
  PROVE  Max(S) \in S /\ \A x \in S : x <= Max(S)
  <1> DEFINE T == {n \in Nat : \E x \in S : n = b - x}
  <1>1. T # {}
    <2>1. PICK x \in S : TRUE
      OBVIOUS
    <2>2. b - x \in T
      BY <2>1
    <2> QED BY <2>2
  <1>2. PICK n \in T : \A m \in T : ~(<<m, n>> \in OpToRel(<, Nat))
    <2>1. T \subseteq Nat
      OBVIOUS
    <2> HIDE DEF T
    <2> QED BY <1>1, <2>1, NatLessThanWellFounded, WFMin
  <1>3. \A m \in T : ~(m < n)
    BY <1>2 DEF OpToRel
  <1>4. PICK x \in S : n = b - x
    OBVIOUS
  <1>5. \A y \in S : y <= x
    <2> SUFFICES ASSUME NEW y \in S
                 PROVE  y <= x
      OBVIOUS
    <2>1. b - y \in T
      OBVIOUS
    <2>2. ~(b - y < b - x)
      BY <1>3, <1>4, <2>1
    <2> QED BY <2>2
  <1>6. \E m \in S : \A y \in S : m >= y
    BY <1>5
  <1>7. Max(S) \in S /\ \A y \in S : Max(S) >= y
    BY <1>6 DEF Max
  <1> QED BY <1>7

-----------------------------------------------------------------------------
(* The sweep. *)

\* Holders that can be swept: people who come before they go.
Sound(holders) ==
  /\ Counted(holders) /\ Distinct(holders)
  /\ \A h \in holders : /\ h.party > 0 /\ h.slot \in Slot
                         /\ h.slot.start < h.slot.end

\* When a holder comes and goes, as seen from slot d.
Comes(h, d) == IF h.slot.start > d.start THEN h.slot.start ELSE d.start
Goes(h, d) == IF h.slot.end < d.end THEN h.slot.end ELSE d.end
Arrival(h, d) == [id |-> h.id, delta |-> h.party, time |-> Comes(h, d)]
Departure(h, d) == [id |-> h.id, delta |-> -h.party, time |-> Goes(h, d)]
Inside(holders, d) ==
  {h \in holders : h.slot.start < d.end /\ h.slot.end > d.start}
Present(holders, t) == {h \in holders : t \in Instants(h.slot)}

LEMMA EventsAre ==
  ASSUME NEW holders, NEW d
  PROVE  Events(holders, d) = {Arrival(h, d) : h \in Inside(holders, d)}
                              \cup {Departure(h, d) : h \in Inside(holders, d)}
  BY DEF Events, Arrival, Departure, Inside, Comes, Goes

LEMMA LoadIs ==
  ASSUME NEW holders, NEW t
  PROVE  Load(holders, t) = Cardinality(People(Present(holders, t)))
  BY DEF Load, People, Present

\* Being inside the slot, and present at one of its instants.
LEMMA Times ==
  ASSUME NEW holders, Sound(holders), NEW d \in Slot, d.start < d.end,
         NEW h \in Inside(holders, d)
  PROVE  /\ Comes(h, d) \in Nat /\ Goes(h, d) \in Nat
         /\ d.start <= Comes(h, d) /\ Comes(h, d) < Goes(h, d)
         /\ Goes(h, d) <= d.end
         /\ h.party \in Nat /\ h.party > 0
  BY DEF Sound, Counted, Slot, Inside, Comes, Goes

LEMMA PresentIs ==
  ASSUME NEW holders, Sound(holders), NEW d \in Slot, d.start < d.end,
         NEW t \in Instants(d)
  PROVE  /\ t \in Nat
         /\ Present(holders, t) = {h \in Inside(holders, d) :
                                     Comes(h, d) <= t /\ t < Goes(h, d)}
  <1>1. t \in Nat /\ d.start <= t /\ t < d.end
    BY DEF Instants, Slot
  <1>2. ASSUME NEW h \in holders
        PROVE  h \in Present(holders, t) <=>
                 /\ h \in Inside(holders, d)
                 /\ Comes(h, d) <= t /\ t < Goes(h, d)
    BY <1>1, <1>2 DEF Sound, Slot, Inside, Comes, Goes, Present, Instants
  <1> QED BY <1>1, <1>2 DEF Present, Inside

\* The sum of some events counts those who have come less those who have gone.
LEMMA TotalIs ==
  ASSUME NEW holders, Sound(holders), NEW d \in Slot, d.start < d.end,
         NEW E \in SUBSET Events(holders, d)
  PROVE  LET came == {h \in Inside(holders, d) : Arrival(h, d) \in E}
             gone == {h \in Inside(holders, d) : Departure(h, d) \in E}
         IN Total(E) = Cardinality(People(came)) - Cardinality(People(gone))
  <1> DEFINE came == {h \in Inside(holders, d) : Arrival(h, d) \in E}
             gone == {h \in Inside(holders, d) : Departure(h, d) \in E}
             A == UNION {{e.id} \X (1 .. e.delta) : e \in E}
             B == UNION {{e.id} \X (1 .. -e.delta) : e \in E}
  <1>1. ASSUME NEW e \in E
        PROVE  \/ \E h \in came : e = Arrival(h, d)
               \/ \E h \in gone : e = Departure(h, d)
    BY <1>1, EventsAre
  <1>2. \A h \in Inside(holders, d) :
          /\ Arrival(h, d).id = h.id /\ Arrival(h, d).delta = h.party
          /\ Departure(h, d).id = h.id /\ Departure(h, d).delta = -h.party
          /\ h.party \in Nat /\ h.party > 0
    BY Times DEF Arrival, Departure
  <1>3. A = People(came)
    <2>1. ASSUME NEW x \in A
          PROVE  x \in People(came)
      <3>1. PICK e \in E : x \in {e.id} \X (1 .. e.delta)
        OBVIOUS
      <3>2. PICK n \in 1 .. e.delta : x = <<e.id, n>>
        BY <3>1
      <3>3. ASSUME NEW h \in gone, e = Departure(h, d)
            PROVE  FALSE
        <4>1. e.delta = -h.party /\ h.party \in Nat /\ h.party > 0
          BY <1>2, <3>3
        <4>2. 1 .. -h.party = {}
          BY <4>1
        <4> QED BY <3>2, <4>1, <4>2
      <3>4. PICK h \in came : e = Arrival(h, d)
        BY <1>1, <3>3
      <3>5. e.id = h.id /\ e.delta = h.party
        BY <1>2, <3>4
      <3>6. x \in {h.id} \X (1 .. h.party)
        BY <3>1, <3>5
      <3> QED BY <3>6 DEF People
    <2>2. ASSUME NEW x \in People(came)
          PROVE  x \in A
      <3>1. PICK h \in came : x \in {h.id} \X (1 .. h.party)
        BY <2>2 DEF People
      <3>2. /\ Arrival(h, d) \in E
            /\ x \in {Arrival(h, d).id} \X (1 .. Arrival(h, d).delta)
        BY <1>2, <3>1
      <3> QED BY <3>2
    <2> QED BY <2>1, <2>2
  <1>4. B = People(gone)
    <2>1. ASSUME NEW x \in B
          PROVE  x \in People(gone)
      <3>1. PICK e \in E : x \in {e.id} \X (1 .. -e.delta)
        OBVIOUS
      <3>2. PICK n \in 1 .. -e.delta : x = <<e.id, n>>
        BY <3>1
      <3>3. ASSUME NEW h \in came, e = Arrival(h, d)
            PROVE  FALSE
        <4>1. e.delta = h.party /\ h.party \in Nat /\ h.party > 0
          BY <1>2, <3>3
        <4>2. 1 .. -e.delta = {}
          BY <4>1
        <4> QED BY <3>2, <4>2
      <3>4. PICK h \in gone : e = Departure(h, d)
        BY <1>1, <3>3
      <3>5. e.id = h.id /\ -e.delta = h.party
        BY <1>2, <3>4
      <3>6. x \in {h.id} \X (1 .. h.party)
        BY <3>1, <3>5
      <3> QED BY <3>6 DEF People
    <2>2. ASSUME NEW x \in People(gone)
          PROVE  x \in B
      <3>1. PICK h \in gone : x \in {h.id} \X (1 .. h.party)
        BY <2>2 DEF People
      <3>2. Departure(h, d) \in E /\ -Departure(h, d).delta = h.party
        BY <1>2
      <3>3. x \in {Departure(h, d).id} \X (1 .. -Departure(h, d).delta)
        BY <1>2, <3>1, <3>2
      <3> QED BY <3>2, <3>3
    <2> QED BY <2>1, <2>2
  <1>5. Total(E) = Cardinality(A) - Cardinality(B)
    BY DEF Total
  <1> HIDE DEF A, B
  <1> QED BY <1>3, <1>4, <1>5

\* The running total at an arrival, and at a departure.
UpTo(holders, d, e) == {f \in Events(holders, d) : ~Before(e, f)}

LEMMA ArrivalTotal ==
  ASSUME NEW holders, Sound(holders), NEW d \in Slot, d.start < d.end,
         NEW g \in Inside(holders, d)
  PROVE  LET t == Comes(g, d)
             came == {h \in Inside(holders, d) :
                        \/ Comes(h, d) < t
                        \/ Comes(h, d) = t /\ h.party <= g.party}
             gone == {h \in Inside(holders, d) : Goes(h, d) <= t}
         IN Total(UpTo(holders, d, Arrival(g, d)))
              = Cardinality(People(came \ gone))
  <1> DEFINE t == Comes(g, d)
             E == UpTo(holders, d, Arrival(g, d))
             came == {h \in Inside(holders, d) :
                        \/ Comes(h, d) < t
                        \/ Comes(h, d) = t /\ h.party <= g.party}
             gone == {h \in Inside(holders, d) : Goes(h, d) <= t}
             came0 == {h \in Inside(holders, d) : Arrival(h, d) \in E}
             gone0 == {h \in Inside(holders, d) : Departure(h, d) \in E}
  <1>1. \A h \in Inside(holders, d) :
          Arrival(h, d) \in Events(holders, d) /\ Departure(h, d) \in Events(holders, d)
    BY EventsAre
  <1>2. ASSUME NEW h \in Inside(holders, d)
        PROVE  /\ h \in came0 <=> h \in came
               /\ h \in gone0 <=> h \in gone
    <2>1. /\ Comes(h, d) \in Nat /\ Goes(h, d) \in Nat /\ t \in Nat
          /\ h.party \in Nat /\ h.party > 0 /\ g.party \in Nat /\ g.party > 0
      BY Times
    <2>2. Before(Arrival(g, d), Arrival(h, d)) <=>
            t < Comes(h, d) \/ (t = Comes(h, d) /\ g.party < h.party)
      BY DEF Before, Arrival
    <2>3. Before(Arrival(g, d), Departure(h, d)) <=>
            t < Goes(h, d) \/ (t = Goes(h, d) /\ g.party < -h.party)
      BY DEF Before, Arrival, Departure
    <2> QED BY <1>1, <2>1, <2>2, <2>3 DEF UpTo
  <1>3. came0 = came /\ gone0 = gone
    BY <1>2
  <1>4. E \subseteq Events(holders, d)
    BY DEF UpTo
  <1>5. Total(E) = Cardinality(People(came)) - Cardinality(People(gone))
    <2> HIDE DEF E
    <2>1. Total(E) = Cardinality(People(came0)) - Cardinality(People(gone0))
      BY <1>4, TotalIs
    <2> QED BY <1>3, <2>1
  <1>6. gone \subseteq came /\ came \subseteq holders
    <2>1. ASSUME NEW h \in gone
          PROVE  h \in came
      BY Times
    <2> QED BY <2>1 DEF Inside
  <1>7. Counted(came) /\ Distinct(came)
    BY <1>6, FS_Subset DEF Sound, Counted, Distinct
  <1> HIDE DEF came, gone
  <1>8. Cardinality(People(came)) - Cardinality(People(gone))
          = Cardinality(People(came \ gone))
    BY <1>6, <1>7, PeopleLeft
  <1> QED BY <1>5, <1>8 DEF came, gone

LEMMA DepartureTotal ==
  ASSUME NEW holders, Sound(holders), NEW d \in Slot, d.start < d.end,
         NEW g \in Inside(holders, d)
  PROVE  LET t == Goes(g, d)
             came == {h \in Inside(holders, d) : Comes(h, d) < t}
             gone == {h \in Inside(holders, d) :
                        \/ Goes(h, d) < t
                        \/ Goes(h, d) = t /\ h.party >= g.party}
         IN Total(UpTo(holders, d, Departure(g, d)))
              = Cardinality(People(came \ gone))
  <1> DEFINE t == Goes(g, d)
             E == UpTo(holders, d, Departure(g, d))
             came == {h \in Inside(holders, d) : Comes(h, d) < t}
             gone == {h \in Inside(holders, d) :
                        \/ Goes(h, d) < t
                        \/ Goes(h, d) = t /\ h.party >= g.party}
             came0 == {h \in Inside(holders, d) : Arrival(h, d) \in E}
             gone0 == {h \in Inside(holders, d) : Departure(h, d) \in E}
  <1>1. \A h \in Inside(holders, d) :
          Arrival(h, d) \in Events(holders, d) /\ Departure(h, d) \in Events(holders, d)
    BY EventsAre
  <1>2. ASSUME NEW h \in Inside(holders, d)
        PROVE  /\ h \in came0 <=> h \in came
               /\ h \in gone0 <=> h \in gone
    <2>1. /\ Comes(h, d) \in Nat /\ Goes(h, d) \in Nat /\ t \in Nat
          /\ h.party \in Nat /\ h.party > 0 /\ g.party \in Nat /\ g.party > 0
      BY Times
    <2>2. Before(Departure(g, d), Arrival(h, d)) <=>
            t < Comes(h, d) \/ (t = Comes(h, d) /\ -g.party < h.party)
      BY DEF Before, Arrival, Departure
    <2>3. Before(Departure(g, d), Departure(h, d)) <=>
            t < Goes(h, d) \/ (t = Goes(h, d) /\ -g.party < -h.party)
      BY DEF Before, Departure
    <2> QED BY <1>1, <2>1, <2>2, <2>3 DEF UpTo
  <1>3. came0 = came /\ gone0 = gone
    BY <1>2
  <1>4. E \subseteq Events(holders, d)
    BY DEF UpTo
  <1>5. Total(E) = Cardinality(People(came)) - Cardinality(People(gone))
    <2> HIDE DEF E
    <2>1. Total(E) = Cardinality(People(came0)) - Cardinality(People(gone0))
      BY <1>4, TotalIs
    <2> QED BY <1>3, <2>1
  <1>6. gone \subseteq came /\ came \subseteq holders
    <2>1. ASSUME NEW h \in gone
          PROVE  h \in came
      BY Times
    <2> QED BY <2>1 DEF Inside
  <1>7. Counted(came) /\ Distinct(came)
    BY <1>6, FS_Subset DEF Sound, Counted, Distinct
  <1> HIDE DEF came, gone
  <1>8. Cardinality(People(came)) - Cardinality(People(gone))
          = Cardinality(People(came \ gone))
    BY <1>6, <1>7, PeopleLeft
  <1> QED BY <1>5, <1>8 DEF came, gone

\* No running total is higher than the number of people present at some instant.
LEMMA TotalsLow ==
  ASSUME NEW holders, Sound(holders), NEW d \in Slot, d.start < d.end,
         NEW e \in Events(holders, d)
  PROVE  /\ Total(UpTo(holders, d, e)) \in Nat
         /\ \E t \in Instants(d) :
              Total(UpTo(holders, d, e)) <= Load(holders, t)
  <1>p. \A t : Present(holders, t) \subseteq holders
    BY DEF Present
  <1>c. Counted(holders)
    BY DEF Sound
  <1>m. ASSUME NEW t \in Instants(d), NEW K \in SUBSET Present(holders, t)
        PROVE  /\ Cardinality(People(K)) \in Nat
               /\ Cardinality(People(K)) <= Load(holders, t)
    <2>1. Counted(Present(holders, t))
      BY <1>p, <1>c, PeopleFewer
    <2> QED BY <2>1, PeopleFewer, LoadIs
  <1>1. ASSUME NEW g \in Inside(holders, d), e = Arrival(g, d)
        PROVE  /\ Total(UpTo(holders, d, e)) \in Nat
               /\ \E t \in Instants(d) :
                    Total(UpTo(holders, d, e)) <= Load(holders, t)
    <2> DEFINE t == Comes(g, d)
               came == {h \in Inside(holders, d) :
                          \/ Comes(h, d) < t
                          \/ Comes(h, d) = t /\ h.party <= g.party}
               gone == {h \in Inside(holders, d) : Goes(h, d) <= t}
    <2>1. t \in Instants(d)
      BY Times DEF Instants, Slot
    <2>2. came \ gone \subseteq Present(holders, t)
      <3>1. \A h \in Inside(holders, d) :
              Comes(h, d) \in Nat /\ Goes(h, d) \in Nat
        BY Times
      <3>2. Present(holders, t) = {h \in Inside(holders, d) :
                                     Comes(h, d) <= t /\ t < Goes(h, d)}
        BY <2>1, PresentIs
      <3> QED BY <3>1, <3>2
    <2>3. Total(UpTo(holders, d, e)) = Cardinality(People(came \ gone))
      BY <1>1, ArrivalTotal
    <2> HIDE DEF t, came, gone
    <2> QED BY <1>m, <2>1, <2>2, <2>3
  <1>2. ASSUME NEW g \in Inside(holders, d), e = Departure(g, d)
        PROVE  /\ Total(UpTo(holders, d, e)) \in Nat
               /\ \E t \in Instants(d) :
                    Total(UpTo(holders, d, e)) <= Load(holders, t)
    <2> DEFINE t == Goes(g, d)
               u == t - 1
               came == {h \in Inside(holders, d) : Comes(h, d) < t}
               gone == {h \in Inside(holders, d) :
                          \/ Goes(h, d) < t
                          \/ Goes(h, d) = t /\ h.party >= g.party}
    <2>1. u \in Instants(d) /\ t \in Nat
      BY Times DEF Instants, Slot
    <2>2. came \ gone \subseteq Present(holders, u)
      <3>1. \A h \in Inside(holders, d) :
              Comes(h, d) \in Nat /\ Goes(h, d) \in Nat
        BY Times
      <3>2. Present(holders, u) = {h \in Inside(holders, d) :
                                     Comes(h, d) <= u /\ u < Goes(h, d)}
        BY <2>1, PresentIs
      <3> HIDE DEF t
      <3> QED BY <2>1, <3>1, <3>2
    <2>3. Total(UpTo(holders, d, e)) = Cardinality(People(came \ gone))
      BY <1>2, DepartureTotal
    <2> HIDE DEF u, came, gone
    <2> QED BY <1>m, <2>1, <2>2, <2>3
  <1> QED BY <1>1, <1>2, EventsAre

\* One holder stands for as many people as the party has.
LEMMA PeopleOfOne ==
  ASSUME NEW h, h.party \in Nat
  PROVE  Counted({h}) /\ Cardinality(People({h})) = h.party
  <1>1. People({h}) = {h.id} \X (1 .. h.party)
    BY DEF People
  <1>2. IsFiniteSet({h.id}) /\ Cardinality({h.id}) = 1
    BY FS_Singleton
  <1>3. IsFiniteSet(1 .. h.party) /\ Cardinality(1 .. h.party) = h.party
    BY FS_Interval
  <1>4. Cardinality({h.id} \X (1 .. h.party))
          = Cardinality({h.id}) * Cardinality(1 .. h.party)
    BY ONLY <1>2, <1>3, FS_Product, Zenon
  <1>5. 1 * h.party = h.party
    OBVIOUS
  <1>6. Cardinality(People({h})) = h.party
    BY ONLY <1>1, <1>2, <1>3, <1>4, <1>5, Zenon
  <1>7. Counted({h})
    BY <1>2, FS_Singleton DEF Counted
  <1> QED BY <1>6, <1>7

\* The running total at the last arrival before an instant counts everyone who
\* is present at that instant.
LEMMA TotalsHigh ==
  ASSUME NEW holders, Sound(holders), NEW d \in Slot, d.start < d.end,
         NEW t \in Instants(d)
  PROVE  \/ Load(holders, t) = 0
         \/ \E e \in Events(holders, d) :
              Load(holders, t) <= Total(UpTo(holders, d, e))
  <1> DEFINE so_far == {h \in Inside(holders, d) : Comes(h, d) <= t}
  <1>c. Counted(holders) /\ \A h \in Inside(holders, d) : h \in holders
    BY DEF Sound, Inside
  <1>t. /\ t \in Nat
        /\ Present(holders, t) = {h \in Inside(holders, d) :
                                    Comes(h, d) <= t /\ t < Goes(h, d)}
    BY PresentIs
  <1>n. \A h \in Inside(holders, d) :
          /\ Comes(h, d) \in Nat /\ Goes(h, d) \in Nat
          /\ h.party \in Nat /\ h.party > 0
    BY Times
  <1>1. CASE so_far = {}
    <2>1. Present(holders, t) = {}
      BY <1>1, <1>t
    <2> QED BY <2>1, NoPeople, LoadIs
  <1>2. CASE so_far # {}
    <2> DEFINE T == {Comes(h, d) : h \in so_far}
    <2>1. T \in SUBSET Int /\ T # {} /\ t \in Int /\ \A x \in T : x <= t
      BY <1>2, <1>n, <1>t
    <2>2. Max(T) \in T /\ \A x \in T : x <= Max(T)
      <3> HIDE DEF T
      <3> QED BY <2>1, HasMax
    <2> DEFINE last == {h \in so_far : Comes(h, d) = Max(T)}
               P == {h.party : h \in last}
               b == Cardinality(People(holders))
    <2>3. last # {}
      BY <2>2
    <2>4. b \in Int /\ \A h \in last : h.party <= b
      <3>1. ASSUME NEW h \in last
            PROVE  h.party <= b
        <4>1. {h} \subseteq holders /\ h.party \in Nat
          BY <1>c, <1>n
        <4>2. Cardinality(People({h})) <= b /\ Cardinality(People({h})) = h.party
          BY <4>1, <1>c, PeopleFewer, PeopleOfOne
        <4> QED BY <4>2
      <3> QED BY <3>1, <1>c, PeopleFinite
    <2>5. P \in SUBSET Int /\ P # {} /\ \A x \in P : x <= b
      <3> HIDE DEF b, so_far
      <3>1. \A h \in last : h.party \in Int
        BY <1>n DEF so_far
      <3>2. \E h \in last : h.party \in P
        BY <2>3
      <3> HIDE DEF last
      <3> QED BY <2>4, <3>1, <3>2
    <2>6. Max(P) \in P /\ \A x \in P : x <= Max(P)
      <3> HIDE DEF P, b
      <3> QED BY <2>4, <2>5, HasMax
    <2>7. PICK g \in last : g.party = Max(P)
      BY <2>6
    <2> DEFINE m == Comes(g, d)
               came == {h \in Inside(holders, d) :
                          \/ Comes(h, d) < m
                          \/ Comes(h, d) = m /\ h.party <= g.party}
               gone == {h \in Inside(holders, d) : Goes(h, d) <= m}
    <2>8. g \in Inside(holders, d) /\ m = Max(T) /\ m <= t
      BY <2>7
    <2>9. Present(holders, t) \subseteq came \ gone
      <3>1. ASSUME NEW h \in Inside(holders, d), Comes(h, d) <= t, t < Goes(h, d)
            PROVE  h \in came /\ h \notin gone
        <4>1. Comes(h, d) <= m
          BY <2>2, <2>8, <3>1
        <4>2. Comes(h, d) = m => h.party <= g.party
          <5>1. Comes(h, d) = m => h \in last
            BY <2>8, <3>1
          <5> QED BY <5>1, <2>6, <2>7
        <4>3. m \in Nat
          BY <2>8, <1>n
        <4>4. h \in came
          <5> HIDE DEF m
          <5> QED BY <4>1, <4>2, <4>3, <1>n
        <4>5. h \notin gone
          <5> HIDE DEF m
          <5> QED BY <4>3, <2>8, <3>1, <1>n, <1>t
        <4> QED BY <4>4, <4>5
      <3> HIDE DEF came, gone
      <3> QED BY <3>1, <1>t
    <2>10. Total(UpTo(holders, d, Arrival(g, d))) = Cardinality(People(came \ gone))
      BY <2>8, ArrivalTotal
    <2>11. came \ gone \subseteq holders
      BY <1>c
    <2>12. Load(holders, t) <= Total(UpTo(holders, d, Arrival(g, d)))
      <3> HIDE DEF came, gone, m
      <3>1. Counted(came \ gone)
        BY <2>11, <1>c, PeopleFewer
      <3> QED BY <2>9, <2>10, <3>1, PeopleFewer, LoadIs
    <2>13. Arrival(g, d) \in Events(holders, d)
      BY <2>8, EventsAre
    <2> QED BY <2>12, <2>13
  <1> QED BY <1>1, <1>2

\* The highest running total is the highest number of people present.
LEMMA PeakIs ==
  ASSUME NEW holders, Sound(holders), NEW d \in Slot, d.start < d.end
  PROVE  /\ Peak(holders, d) \in Nat
         /\ \A t \in Instants(d) : /\ Load(holders, t) \in Nat
                                   /\ Load(holders, t) <= Peak(holders, d)
         /\ \E t \in Instants(d) : Load(holders, t) = Peak(holders, d)
  <1> DEFINE events == Events(holders, d)
             S == {0} \cup {Total(UpTo(holders, d, e)) : e \in events}
             b == Cardinality(People(holders))
  <1>c. Counted(holders)
    BY DEF Sound
  <1>1. \A t : Load(holders, t) \in Nat /\ b \in Nat /\ Load(holders, t) <= b
    <2>1. \A t : Present(holders, t) \subseteq holders
      BY DEF Present
    <2> QED BY <1>c, <2>1, PeopleFewer, LoadIs
  <1>2. S \in SUBSET Int /\ S # {} /\ b \in Int /\ \A x \in S : x <= b
    <2>1. ASSUME NEW e \in events
          PROVE  /\ Total(UpTo(holders, d, e)) \in Nat
                 /\ Total(UpTo(holders, d, e)) <= b
      <3>1. PICK t \in Instants(d) :
              Total(UpTo(holders, d, e)) <= Load(holders, t)
        BY TotalsLow
      <3>2. Total(UpTo(holders, d, e)) \in Nat
        BY TotalsLow
      <3> QED BY <1>1, <3>1, <3>2
    <2> HIDE DEF b
    <2> QED BY <1>1, <2>1
  <1>3. Peak(holders, d) = Max(S)
    BY DEF Peak, UpTo
  <1>4. Max(S) \in S /\ \A x \in S : x <= Max(S)
    <2> HIDE DEF S, b
    <2> QED BY <1>2, HasMax
  <1>5. Max(S) \in Nat
    BY <1>2, <1>4
  <1>6. ASSUME NEW t \in Instants(d)
        PROVE  Load(holders, t) <= Max(S)
    <2>1. CASE Load(holders, t) = 0
      BY <1>4, <2>1
    <2>2. ASSUME NEW e \in events,
                 Load(holders, t) <= Total(UpTo(holders, d, e))
          PROVE  Load(holders, t) <= Max(S)
      <3>1. Total(UpTo(holders, d, e)) \in S
        OBVIOUS
      <3>2. Total(UpTo(holders, d, e)) \in Nat
        BY TotalsLow
      <3> HIDE DEF S
      <3> QED BY <1>1, <1>4, <1>5, <2>2, <3>1, <3>2
    <2> QED BY <2>1, <2>2, TotalsHigh
  <1>7. \E t \in Instants(d) : Max(S) <= Load(holders, t)
    <2>1. CASE Max(S) = 0
      <3>1. d.start \in Instants(d)
        BY DEF Instants, Slot
      <3> QED BY <2>1, <3>1, <1>1
    <2>2. ASSUME NEW e \in events, Max(S) = Total(UpTo(holders, d, e))
          PROVE  \E t \in Instants(d) : Max(S) <= Load(holders, t)
      BY <2>2, TotalsLow
    <2> QED BY <2>1, <2>2, <1>4
  <1>8. PICK t \in Instants(d) : Max(S) <= Load(holders, t)
    BY <1>7
  <1>9. Load(holders, t) = Max(S)
    <2> HIDE DEF S
    <2> QED BY <1>1, <1>5, <1>6, <1>8
  <1> HIDE DEF S
  <1> QED BY <1>1, <1>3, <1>5, <1>6, <1>9

\* What the code takes for the most people present is that, whenever no
\* reservation in the resource ends before it begins.
LEMMA PeakOfRows ==
  ASSUME NEW holders, Sound(holders), NEW d \in Slot, d.start < d.end
  PROVE  Peak(holders, d) = Max({Load(holders, t) : t \in Instants(d)})
  <1> DEFINE S == {Load(holders, t) : t \in Instants(d)}
             p == Peak(holders, d)
  <1>1. p \in Nat /\ p \in S /\ S \in SUBSET Int /\ \A x \in S : x <= p
    BY PeakIs
  <1> HIDE DEF p, S
  <1>2. Max(S) \in S /\ \A x \in S : x <= Max(S)
    BY <1>1, HasMax
  <1>3. Max(S) \in Int /\ Max(S) <= p /\ p <= Max(S)
    BY <1>1, <1>2
  <1>4. p = Max(S)
    BY <1>1, <1>3
  <1> QED BY <1>4 DEF p, S

-----------------------------------------------------------------------------
(* The invariant. *)

\* Reservations that exist, and the columns that no one changes but the two
\* commits under the lock of the resource.
Exists(i) == i \in Rows /\ row[i].status # "none"
RowsPlaced ==
  /\ revived \subseteq Rows /\ mixed \subseteq Rows
  /\ \A i \in Rows :
       /\ row[i].series \subseteq Rows
       /\ row[i].status = "none" => /\ row[i].user = None
                                    /\ i \notin revived /\ i \notin mixed
       /\ row[i].status # "none" =>
            /\ row[i].res \in Resources /\ row[i].party \in Parties
            /\ row[i].slot \in Slot
            /\ i \notin mixed => row[i].slot.start < row[i].slot.end

\* A checkout belongs to a reservation.
IsPayment(p) == p = [status |-> p.status, amount |-> p.amount, session |-> p.session]
PaymentsOK ==
  /\ pay = [i \in Rows |-> pay[i]]
  /\ \A i \in Rows : /\ IsPayment(pay[i])
                     /\ pay[i].session # None => row[i].status # "none"

\* What a session has read, whatever it does with it.
Reads(j) ==
  /\ j.row # None => Exists(j.row)
  /\ \A i \in j.rows : Exists(i)
  /\ j.op = "book" =>
       /\ j.res \in Resources /\ j.slots \in Requests /\ j.party \in Parties
       /\ j.user \in Users /\ j.at \in Nat /\ j.at <= now
  /\ j.op = "move" =>
       /\ Exists(j.row) /\ j.slot \in Slot
       /\ \E d \in Moves : j.slots = {d}
       /\ j.user = row[j.row].user /\ j.res = row[j.row].res
       /\ j.party = row[j.row].party

\* Resources in which every reservation lies where it was checked, and the room
\* that a checked request has until it commits.
Unmixed(r) == \A i \in mixed : row[i].res # r
Asked(slots, party) == {[id |-> e, slot |-> e, party |-> party] : e \in slots}
RoomToBook(j) ==
  Unmixed(j.res) => \A t \in Nat :
    Load(Holders(j.res, revived), t) + Load(Asked(j.slots, j.party), t)
      <= Capacity[j.res]
RoomToMove(j) ==
  Unmixed(j.res) => \A d \in j.slots : \A t \in Instants(d) :
    Load(Holders(j.res, {j.row} \cup revived), t) + j.party <= Capacity[j.res]
RoomInLimit(j) ==
  Cardinality(ActiveOf(j.user, now) \ revived) + Cardinality(j.slots)
    <= Rules.limit

BookLabels == {"book_user", "book_resource", "book_insert"}
MoveLabels == {"move_user", "move_price", "move_resource", "move_commit"}
CancelLabels == {"cancel_next", "cancel_commit"}

\* The locks a session relies on, and what it has found under them.
Stands(label, j, h) ==
  /\ label \in BookLabels => j.op = "book"
  /\ label \in MoveLabels => j.op = "move"
  /\ label \in CancelLabels => j.op \notin {"book", "move"}
  /\ label \in {"book_resource", "book_insert", "move_price", "move_resource",
                "move_commit"} => h.user = j.user
  /\ label \in {"book_insert", "move_commit"} => h.res = j.res
  /\ label \in {"book_resource", "book_insert"} => RoomInLimit(j)
  /\ label = "book_insert" => RoomToBook(j)
  /\ label = "move_commit" => RoomToMove(j)

ResourceLocksOK ==
  \A s, t \in Sessions : s # t =>
    (held[s].res # None => held[s].res # held[t].res)

RoomOK ==
  \A r \in Resources : Unmixed(r) =>
    \A t \in Nat : Load(Holders(r, revived), t) <= Capacity[r]

PlacesInv ==
  /\ RowsPlaced /\ PaymentsOK /\ ResourceLocksOK /\ RoomOK
  /\ \A s \in Sessions : Reads(job[s]) /\ Stands(pc[s], job[s], held[s])

-----------------------------------------------------------------------------
(* What the commits do to the places that reservations take. *)

SamePlace(i) ==
  /\ row'[i].user = row[i].user /\ row'[i].res = row[i].res
  /\ row'[i].party = row[i].party /\ row'[i].slot = row[i].slot
  /\ row'[i].series = row[i].series
  /\ row[i].status # "none" /\ row'[i].status # "none"
KeepsPlace(i) == row'[i] = row[i] \/ SamePlace(i)

\* One reservation is written, in other columns.
Alike(q, x) ==
  /\ q.user = x.user /\ q.res = x.res /\ q.party = x.party /\ q.slot = x.slot
  /\ q.series = x.series
LEMMA ColumnsKept ==
  ASSUME NEW x, IsRow(x), NEW a, NEW b
  PROVE  /\ Alike(WithStatus(x, a), x) /\ WithStatus(x, a).status = a
         /\ Alike(WithAttend(x, a), x) /\ WithAttend(x, a).status = x.status
         /\ Alike(WithDecision(x, a, b), x) /\ WithDecision(x, a, b).status = a
  <1>1. ASSUME NEW q, q = WithStatus(x, a)
        PROVE  Alike(q, x) /\ q.status = a
    BY <1>1 DEF IsRow, WithStatus, Alike
  <1>2. ASSUME NEW q, q = WithAttend(x, a)
        PROVE  Alike(q, x) /\ q.status = x.status
    BY <1>2 DEF IsRow, WithAttend, Alike
  <1>3. ASSUME NEW q, q = WithDecision(x, a, b)
        PROVE  Alike(q, x) /\ q.status = a
    BY <1>3 DEF IsRow, WithDecision, Alike
  <1> QED BY <1>1, <1>2, <1>3

LEMMA OneRowKept ==
  ASSUME RowsShape, NEW i, i \in Rows => row[i].status # "none", NEW q,
         row' = [row EXCEPT ![i] = q],
         i \in Rows => Alike(q, row[i]) /\ q.status # "none"
  PROVE  \A k \in Rows : KeepsPlace(k)
  <1>1. \A k \in Rows : row'[k] = IF k = i THEN q ELSE row[k]
    BY DEF RowsShape
  <1> QED BY <1>1 DEF KeepsPlace, SamePlace, Alike

LEMMA StatusPlaces ==
  ASSUME RowsShape, NEW s \in Sessions, Reads(job[s]),
         CancelCommit(s) \/ ConfirmCommit(s) \/ CheckInCommit(s)
           \/ CompleteCommit(s)
  PROVE  \A i \in Rows : KeepsPlace(i)
  <1> DEFINE i == job[s].row
  <1>1. i \in Rows => row[i].status # "none" /\ IsRow(row[i])
    BY NoneAssumption DEF Reads, Exists, RowsShape
  <1>2. \/ row' = [row EXCEPT ![i] = WithStatus(row[i], "cancelled")]
        \/ row' = [row EXCEPT ![i] = WithStatus(row[i], "completed")]
        \/ row' = [row EXCEPT ![i] = WithAttend(row[i], "checked_in")]
        \/ row' = [row EXCEPT ![i] = WithDecision(row[i], "confirmed", None)]
    BY DEF CancelCommit, ConfirmCommit, CheckInCommit, CompleteCommit,
           WithStatus, WithAttend, WithDecision
  <1>3. \A a, b : i \in Rows =>
          /\ Alike(WithStatus(row[i], a), row[i])
          /\ WithStatus(row[i], a).status = a
          /\ Alike(WithAttend(row[i], a), row[i])
          /\ WithAttend(row[i], a).status = row[i].status
          /\ Alike(WithDecision(row[i], a, b), row[i])
          /\ WithDecision(row[i], a, b).status = a
    BY <1>1, ColumnsKept
  <1> HIDE DEF i
  <1>4. \E q : /\ row' = [row EXCEPT ![i] = q]
               /\ i \in Rows => Alike(q, row[i]) /\ q.status # "none"
    BY <1>1, <1>2, <1>3
  <1> QED BY <1>1, <1>4, OneRowKept

LEMMA ExpirePlaces ==
  ASSUME RowsShape, NEW s \in Sessions, Reads(job[s]), ExpireOne(s)
  PROVE  \A i \in Rows : KeepsPlace(i)
  <1>1. PICK i \in job[s].rows :
          row' = [row EXCEPT ![i] = WithStatus(@, "expired")]
    BY DEF ExpireOne, WithStatus
  <1>2. i \in Rows /\ row[i].status # "none" /\ IsRow(row[i])
    BY DEF Reads, Exists, RowsShape
  <1>3. /\ Alike(WithStatus(row[i], "expired"), row[i])
        /\ WithStatus(row[i], "expired").status # "none"
    BY <1>2, ColumnsKept
  <1>4. row' = [row EXCEPT ![i] = WithStatus(row[i], "expired")]
    BY <1>1
  <1> QED BY <1>2, <1>3, <1>4, OneRowKept

LEMMA NoShowPlaces ==
  ASSUME RowsShape, NEW s \in Sessions, NoShowJob(s)
  PROVE  \A i \in Rows : KeepsPlace(i)
  <1>1. \A i \in Rows : row'[i] = row[i] \/
          /\ row[i].status = "confirmed"
          /\ row'[i] = WithAttend(row[i], "no_show")
    BY DEF NoShowJob, WithAttend
  <1>2. \A i \in Rows : /\ Alike(WithAttend(row[i], "no_show"), row[i])
                        /\ WithAttend(row[i], "no_show").status = row[i].status
    BY ColumnsKept DEF RowsShape
  <1> QED BY <1>1, <1>2 DEF KeepsPlace, SamePlace, Alike

\* A reservation that is moved keeps everything but its slot.
LEMMA SlotColumns ==
  ASSUME NEW x, IsRow(x), NEW a, NEW b
  PROVE  LET q == WithSlot(x, a, b) IN
         /\ q.user = x.user /\ q.res = x.res /\ q.party = x.party
         /\ q.series = x.series /\ q.status = x.status /\ q.hold = x.hold
         /\ q.slot = a
  <1>1. ASSUME NEW q, q = WithSlot(x, a, b)
        PROVE  /\ q.user = x.user /\ q.res = x.res /\ q.party = x.party
               /\ q.series = x.series /\ q.status = x.status /\ q.hold = x.hold
               /\ q.slot = a
    BY <1>1 DEF IsRow, WithSlot
  <1> QED BY <1>1

MovedRow(s, i) ==
  /\ row[i].status # "none" /\ row'[i].status = row[i].status
  /\ row'[i].user = row[i].user /\ row'[i].res = row[i].res
  /\ row'[i].party = row[i].party /\ row'[i].series = row[i].series
  /\ row'[i].hold = row[i].hold
  /\ row[i].slot \in Slot => row'[i].slot \in Slot
LEMMA MovePlaces ==
  ASSUME RowsShape, NEW s \in Sessions, Reads(job[s]), job[s].op = "move",
         MoveCommit(s)
  PROVE  /\ job[s].row \in Rows /\ MovedRow(s, job[s].row)
         /\ \A k \in Rows : k # job[s].row => row'[k] = row[k]
  <1> DEFINE j == job[s]
             i == j.row
  <1>1. PICK d \in j.slots :
          row' = [row EXCEPT
                    ![i].slot = [start |-> Column(d.start, j.slot.start, @.start),
                                 end |-> Column(d.end, j.slot.end, @.end)],
                    ![i].price = Column(Price(d), j.price, @)]
    BY DEF MoveCommit
  <1> DEFINE a == [start |-> Column(d.start, j.slot.start, row[i].slot.start),
                   end |-> Column(d.end, j.slot.end, row[i].slot.end)]
             b == Column(Price(d), j.price, row[i].price)
             q == WithSlot(row[i], a, b)
  <1>2. i \in Rows /\ row[i].status # "none" /\ IsRow(row[i])
    BY DEF Reads, Exists, RowsShape
  <1>3. /\ q.user = row[i].user /\ q.res = row[i].res /\ q.party = row[i].party
        /\ q.series = row[i].series /\ q.status = row[i].status
        /\ q.hold = row[i].hold /\ q.slot = a
    BY <1>2, SlotColumns
  <1>4. row' = [row EXCEPT ![i] = q]
    <2>1. row' = [row EXCEPT ![i] = [row[i] EXCEPT !.slot = a, !.price = b]]
      BY <1>1
    <2> HIDE DEF a, b
    <2> QED BY <2>1 DEF WithSlot
  <1>5. row[i].slot \in Slot => a \in Slot
    <2>1. d \in Slot
      BY SlotsAssumption DEF Reads
    <2> QED BY <2>1 DEF Slot, Column
  <1> HIDE DEF a, b, q
  <1>6. row'[i] = q /\ \A k \in Rows : k # i => row'[k] = row[k]
    BY <1>2, <1>4 DEF RowsShape
  <1> QED BY <1>2, <1>3, <1>5, <1>6 DEF MovedRow

\* The reservations of a booking take the slots that were asked for.
BookedRow(s, i, d) ==
  /\ row'[i].status = "pending" /\ row'[i].user = job[s].user
  /\ row'[i].res = job[s].res /\ row'[i].party = job[s].party
  /\ row'[i].slot = d /\ row'[i].series \subseteq Rows
LEMMA NewColumns ==
  ASSUME NEW u, NEW c, NEW d, NEW p, NEW h, NEW k, NEW g, NEW z
  PROVE  LET r == NewRecord(u, c, d, p, h, k, g, z) IN
         /\ r.status = "pending" /\ r.user = u /\ r.res = c /\ r.party = p
         /\ r.slot = d /\ r.series = g
  <1>1. ASSUME NEW r, r = NewRecord(u, c, d, p, h, k, g, z)
        PROVE  /\ r.status = "pending" /\ r.user = u /\ r.res = c /\ r.party = p
               /\ r.slot = d /\ r.series = g
    BY <1>1 DEF NoRow, NewRecord
  <1> QED BY <1>1

LEMMA BookPlaces ==
  ASSUME NEW s \in Sessions, BookInsert(s)
  PROVE  \E f \in [job[s].slots -> FreeRows] :
           /\ \A d \in job[s].slots : BookedRow(s, f[d], d)
           /\ \A i \in Rows : (\A d \in job[s].slots : i # f[d]) => row'[i] = row[i]
  <1> DEFINE j == job[s]
             r(f, i, d) ==
               NewRecord(j.user, j.res, d, j.party, j.hold, j.key,
                         IF Cardinality(j.slots) > 1 THEN Range(f) ELSE {},
                         Price(d))
  <1>1. PICK f \in Injection(j.slots, FreeRows) :
          row' = [i \in Rows |-> IF i \notin Range(f) THEN row[i]
                                 ELSE r(f, i, CHOOSE d \in j.slots : f[d] = i)]
    BY DEF BookInsert, NewRecord
  <1>2. f \in [j.slots -> FreeRows] /\ \A d, e \in j.slots : f[d] = f[e] => d = e
    BY DEF Injection, IsInjective
  <1>3. Range(f) = {f[d] : d \in j.slots} /\ Range(f) \subseteq Rows
    BY <1>2 DEF Range, FreeRows
  <1>4. \A i, d : /\ r(f, i, d).status = "pending" /\ r(f, i, d).user = j.user
                  /\ r(f, i, d).res = j.res /\ r(f, i, d).party = j.party
                  /\ r(f, i, d).slot = d
                  /\ r(f, i, d).series
                       = IF Cardinality(j.slots) > 1 THEN Range(f) ELSE {}
    BY NewColumns
  <1> HIDE DEF r
  <1>5. ASSUME NEW d \in j.slots
        PROVE  BookedRow(s, f[d], d)
    <2>1. (CHOOSE e \in j.slots : f[e] = f[d]) = d
      BY <1>2
    <2>2. row'[f[d]] = r(f, f[d], d)
      BY <1>1, <1>3, <2>1
    <2> DEFINE q == r(f, f[d], d)
    <2>3. q.series = Range(f) \/ q.series = {}
      BY <1>4
    <2>4. q.series \subseteq Rows
      BY <1>3, <2>3
    <2>5. /\ q.status = "pending" /\ q.user = j.user /\ q.res = j.res
          /\ q.party = j.party /\ q.slot = d
      BY <1>4
    <2>6. row'[f[d]] = q
      BY <2>2
    <2> HIDE DEF q
    <2> QED BY <2>4, <2>5, <2>6 DEF BookedRow
  <1>6. \A i \in Rows : (\A d \in j.slots : i # f[d]) => row'[i] = row[i]
    BY <1>1, <1>3
  <1> QED BY <1>2, <1>5, <1>6

-----------------------------------------------------------------------------
(* What every step does to the reservations. *)

\* A step leaves all places alone, or moves a reservation, or books.
LEMMA PlacesStep ==
  ASSUME HourlyInv, PlacesInv, [Next]_vars
  PROVE  \/ \A i \in Rows : KeepsPlace(i)
         \/ \E s \in Sessions : MoveCommit(s)
         \/ \E s \in Sessions : BookInsert(s)
  <1>1. RowsShape /\ \A s \in Sessions : Reads(job[s])
    BY DEF HourlyInv, PlacesInv
  <1>2. ASSUME UNCHANGED row
        PROVE  \A i \in Rows : KeepsPlace(i)
    BY <1>2 DEF KeepsPlace
  <1>3. ASSUME UNCHANGED <<tables, pc, job, held>> \/ Tick
        PROVE  \A i \in Rows : KeepsPlace(i)
    BY <1>2, <1>3 DEF tables, Tick
  <1>4. ASSUME NEW s \in Sessions, Start(s)
        PROVE  \A i \in Rows : KeepsPlace(i)
    <2>1. NoShowJob(s) \/ UNCHANGED row
      BY <1>4 DEF Start, tables, MoveStart, BookStart, CancelRead, SeriesRead,
         ConfirmRead, PayRead, DecideOrExpire, CheckoutRead, CheckInLock,
         CompleteRead, HookRead, ExpireScan
    <2> QED BY <1>1, <1>2, <2>1, NoShowPlaces
  <1>5. ASSUME NEW s \in Sessions, Continue(s) \/ Abort(s)
        PROVE  (\A i \in Rows : KeepsPlace(i)) \/ MoveCommit(s) \/ BookInsert(s)
    <2>1. \/ UNCHANGED row
          \/ BookInsert(s) \/ MoveCommit(s) \/ CancelCommit(s) \/ ConfirmCommit(s)
          \/ ExpireOne(s) \/ CheckInCommit(s) \/ CompleteCommit(s)
      BY <1>5 DEF Continue, Abort, tables, BookLockUser, BookLockResource,
         MoveLockUser, MovePrice, MoveLockResource, CancelNext, PayLookup,
         PayCreate, PayMark, CheckoutSave, HookMark, HookReadRow
    <2> QED BY <1>1, <1>2, <2>1, StatusPlaces, ExpirePlaces
  <1> QED BY <1>3, <1>4, <1>5, Steps

\* The two commits, with what their sessions know.
LEMMA MoveKnown ==
  ASSUME HourlyInv, PlacesInv, NEW s \in Sessions, MoveCommit(s)
  PROVE  /\ job[s].op = "move" /\ Reads(job[s])
         /\ held[s].user = job[s].user /\ held[s].res = job[s].res
         /\ RoomToMove(job[s]) /\ pc'[s] = "idle" /\ pc[s] = "move_commit"
         /\ job[s].row \in Rows /\ MovedRow(s, job[s].row)
         /\ row[job[s].row].user = job[s].user /\ row[job[s].row].res = job[s].res
         /\ \A k \in Rows : k # job[s].row => row'[k] = row[k]
  <1>1. pc[s] = "move_commit" /\ pc'[s] = "idle"
    BY DEF MoveCommit, Finish, HourlyInv, SessionsShape
  <1>2. Reads(job[s]) /\ Stands(pc[s], job[s], held[s]) /\ RowsShape
    BY DEF PlacesInv, HourlyInv
  <1>3. job[s].op = "move" /\ held[s].user = job[s].user
        /\ held[s].res = job[s].res /\ RoomToMove(job[s])
    BY <1>1, <1>2 DEF Stands, MoveLabels
  <1>4. /\ job[s].row \in Rows /\ MovedRow(s, job[s].row)
        /\ \A k \in Rows : k # job[s].row => row'[k] = row[k]
    BY <1>2, <1>3, MovePlaces
  <1>5. row[job[s].row].user = job[s].user /\ row[job[s].row].res = job[s].res
    BY <1>2, <1>3 DEF Reads
  <1> QED BY <1>1, <1>2, <1>3, <1>4, <1>5

LEMMA BookKnown ==
  ASSUME HourlyInv, PlacesInv, NEW s \in Sessions, BookInsert(s)
  PROVE  /\ job[s].op = "book" /\ Reads(job[s])
         /\ held[s].user = job[s].user /\ held[s].res = job[s].res
         /\ RoomToBook(job[s]) /\ RoomInLimit(job[s])
         /\ pc[s] = "book_insert" /\ pc'[s] = "idle"
  <1>1. pc[s] = "book_insert" /\ pc'[s] = "idle"
    BY DEF BookInsert, Finish, HourlyInv, SessionsShape
  <1>2. Reads(job[s]) /\ Stands(pc[s], job[s], held[s])
    BY DEF PlacesInv
  <1> QED BY <1>1, <1>2 DEF Stands, BookLabels

\* A reservation that exists goes on to exist, for the same people.
Lasts(i) ==
  /\ row'[i].status # "none" /\ row'[i].user = row[i].user
  /\ row'[i].res = row[i].res /\ row'[i].party = row[i].party
LEMMA RowsLast ==
  ASSUME HourlyInv, PlacesInv, [Next]_vars, NEW i \in Rows,
         row[i].status # "none"
  PROVE  Lasts(i)
  <1>1. CASE \A k \in Rows : KeepsPlace(k)
    BY <1>1 DEF KeepsPlace, SamePlace, Lasts
  <1>2. ASSUME NEW s \in Sessions, MoveCommit(s)
        PROVE  Lasts(i)
    BY <1>2, MoveKnown DEF MovedRow, Lasts
  <1>3. ASSUME NEW s \in Sessions, BookInsert(s)
        PROVE  Lasts(i)
    <2>1. PICK f \in [job[s].slots -> FreeRows] :
            \A k \in Rows : (\A d \in job[s].slots : k # f[d]) => row'[k] = row[k]
      BY <1>3, BookPlaces
    <2>2. \A d \in job[s].slots : i # f[d]
      BY DEF FreeRows
    <2> QED BY <2>1, <2>2 DEF Lasts
  <1> QED BY <1>1, <1>2, <1>3, PlacesStep

\* What the history variables remember.
LEMMA History ==
  ASSUME HourlyInv, [Next]_vars
  PROVE  revived' = revived \cup Revivals /\ mixed' = mixed \cup Mixed
  <1>1. CASE UNCHANGED vars
    <2>1. Revivals = {}
      BY <1>1 DEF vars, tables, Revivals, Active, ActiveAt
    <2>2. Mixed = {}
      BY <1>1 DEF vars, tables, Mixed
    <2> QED BY <1>1, <2>1, <2>2 DEF vars
  <1>2. CASE Next
    BY <1>2 DEF Next, Logged
  <1> QED BY <1>1, <1>2

-----------------------------------------------------------------------------
(* The people who hold places, from one step to the next. *)

Holder(i) == [id |-> i, slot |-> row[i].slot, party |-> row[i].party]

LEMMA HoldersCounted ==
  ASSUME RowsPlaced, NEW r, NEW self
  PROVE  /\ Counted(Holders(r, self)) /\ Distinct(Holders(r, self))
         /\ \A h \in Holders(r, self) : h.id \in Rows
         /\ \A h \in Holders(r, self) :
              h.party > 0 /\ h.slot \in Slot
         /\ Unmixed(r) => Sound(Holders(r, self))
  <1> DEFINE K == {k \in Rows \ self : Active(k) /\ row[k].res = r}
             f == [k \in K |-> Holder(k)]
  <1>1. Holders(r, self) = {Holder(k) : k \in K}
    BY DEF Holders, Holder
  <1>2. \A k \in K : row[k].status # "none"
    BY DEF Active, ActiveAt
  <1>3. \A k \in K : /\ k \in Rows /\ row[k].party \in Parties
                     /\ row[k].slot \in Slot /\ row[k].res = r
                     /\ k \notin mixed => row[k].slot.start < row[k].slot.end
    BY <1>2 DEF RowsPlaced
  <1>4. IsFiniteSet(K)
    BY RowsAssumption, FS_Subset
  <1> HIDE DEF K
  <1>5. f \in Surjection(K, {Holder(k) : k \in K})
    BY DEF Surjection
  <1>6. IsFiniteSet(Holders(r, self))
    BY <1>1, <1>4, <1>5, FS_Surjection
  <1>7. \A h \in Holders(r, self) : \E k \in K :
          h.id = k /\ h.slot = row[k].slot /\ h.party = row[k].party
    BY <1>1 DEF Holder
  <1>8. /\ \A h \in Holders(r, self) : h.party \in Nat /\ h.party > 0
        /\ \A h \in Holders(r, self) : h.id \in Rows /\ h.slot \in Slot
    <2>1. \A p \in Parties : p \in Nat /\ p > 0
      BY NumbersAssumption
    <2> QED BY <1>3, <1>7, <2>1
  <1>9. Counted(Holders(r, self))
    BY <1>6, <1>8 DEF Counted
  <1>10. Distinct(Holders(r, self))
    BY <1>1 DEF Distinct, Holder
  <1>11. Unmixed(r) => \A h \in Holders(r, self) : h.slot.start < h.slot.end
    BY <1>3, <1>7 DEF Unmixed
  <1> QED BY <1>8, <1>9, <1>10, <1>11 DEF Sound

LEMMA LoadFewer ==
  ASSUME NEW K, NEW L, K \subseteq L, Counted(L), NEW t
  PROVE  /\ Counted(K) /\ Load(K, t) \in Nat /\ Load(L, t) \in Nat
         /\ Load(K, t) <= Load(L, t)
  <1>1. /\ Present(K, t) \subseteq Present(L, t)
        /\ Present(L, t) \subseteq L
    BY DEF Present
  <1>2. Counted(K) /\ Counted(Present(L, t))
    BY <1>1, PeopleFewer
  <1> QED BY <1>1, <1>2, PeopleFewer, LoadIs

LEMMA LoadAtMost ==
  ASSUME NEW K, NEW L, Counted(K), Counted(L), NEW t
  PROVE  /\ Counted(K \cup L) /\ Load(K \cup L, t) <= Load(K, t) + Load(L, t)
         /\ (\A g \in K, h \in L : g.id # h.id)
              => Load(K \cup L, t) = Load(K, t) + Load(L, t)
  <1> DEFINE A == Present(K, t)
             B == Present(L, t)
  <1>1. Present(K \cup L, t) = A \cup B /\ A \subseteq K /\ B \subseteq L
    BY DEF Present
  <1>2. Counted(A) /\ Counted(B)
    BY <1>1, PeopleFewer
  <1>3. (\A g \in K, h \in L : g.id # h.id) => \A g \in A, h \in B : g.id # h.id
    BY <1>1
  <1>4. /\ Load(K, t) = Cardinality(People(A)) /\ Load(L, t) = Cardinality(People(B))
        /\ Load(K \cup L, t) = Cardinality(People(A \cup B))
    BY <1>1, LoadIs
  <1> HIDE DEF A, B
  <1>5. Counted(K \cup L)
    BY PeopleAtMost
  <1>6. Load(K \cup L, t) <= Load(K, t) + Load(L, t)
    BY <1>2, <1>4, PeopleAtMost
  <1>7. (\A g \in A, h \in B : g.id # h.id)
          => Load(K \cup L, t) = Load(K, t) + Load(L, t)
    BY <1>2, <1>4, PeopleApart
  <1> QED BY <1>3, <1>5, <1>6, <1>7

Apart(K, L) == \A g \in K, h \in L : g.id # h.id
LEMMA LoadApart ==
  ASSUME NEW K, NEW L, Counted(K), Counted(L), NEW t, Apart(K, L)
  PROVE  Counted(K \cup L) /\ Load(K \cup L, t) = Load(K, t) + Load(L, t)
  BY LoadAtMost DEF Apart

\* Nobody joins the holders of a resource but by a commit that touches it.
LEMMA HoldersKept ==
  ASSUME HourlyInv, [Next]_vars, NEW r, NEW self,
         \A i \in Rows \ self : KeepsPlace(i) \/ row'[i].res # r
  PROVE  Holders(r, self \cup revived)' \subseteq Holders(r, self \cup revived)
  <1>1. revived' = revived \cup Revivals
    BY History
  <1>2. ASSUME NEW k \in Rows \ (self \cup revived'), Active(k)', row'[k].res = r
        PROVE  /\ k \in Rows \ (self \cup revived) /\ Active(k) /\ row[k].res = r
               /\ Holder(k)' = Holder(k)
    <2>1. KeepsPlace(k)
      BY <1>2
    <2>2. row[k].status # "none"
      BY <1>2, <2>1 DEF KeepsPlace, SamePlace, Active, ActiveAt
    <2>3. Active(k)
      BY <1>1, <1>2, <2>2 DEF Revivals
    <2>4. k \notin revived
      BY <1>1, <1>2
    <2> QED BY <1>2, <2>1, <2>3, <2>4 DEF KeepsPlace, SamePlace, Holder
  <1> QED BY <1>2 DEF Holders, Holder

LEMMA UnmixedBefore ==
  ASSUME HourlyInv, PlacesInv, [Next]_vars, NEW r, Unmixed(r)'
  PROVE  Unmixed(r)
  <1>1. ASSUME NEW i \in mixed
        PROVE  row[i].res # r
    <2>1. i \in Rows /\ row[i].status # "none"
      BY <1>1 DEF PlacesInv, RowsPlaced
    <2>2. i \in mixed' /\ row'[i].res = row[i].res
      BY <1>1, <2>1, History, RowsLast DEF Lasts
    <2> QED BY <2>2 DEF Unmixed
  <1> QED BY <1>1 DEF Unmixed

LEMMA LoadKept ==
  ASSUME HourlyInv, PlacesInv, [Next]_vars, NEW r, NEW self, NEW t,
         \A i \in Rows \ self : KeepsPlace(i) \/ row'[i].res # r
  PROVE  /\ Load(Holders(r, self \cup revived), t)' \in Nat
         /\ Load(Holders(r, self \cup revived), t) \in Nat
         /\ Load(Holders(r, self \cup revived), t)'
              <= Load(Holders(r, self \cup revived), t)
  <1>1. Counted(Holders(r, self \cup revived))
    BY HoldersCounted DEF PlacesInv
  <1>2. Holders(r, self \cup revived)' \subseteq Holders(r, self \cup revived)
    BY HoldersKept
  <1>3. \A K : K \subseteq Holders(r, self \cup revived) =>
          /\ Load(K, t) \in Nat /\ Load(Holders(r, self \cup revived), t) \in Nat
          /\ Load(K, t) <= Load(Holders(r, self \cup revived), t)
    BY <1>1, LoadFewer
  <1> QED BY <1>2, <1>3

LEMMA AskedCounted ==
  ASSUME NEW slots, IsFiniteSet(slots), NEW party \in Nat
  PROVE  /\ Counted(Asked(slots, party))
         /\ \A t : Load(Asked(slots, party), t) \in Nat
  <1> DEFINE f == [d \in slots |-> [id |-> d, slot |-> d, party |-> party]]
  <1>1. f \in Surjection(slots, Asked(slots, party))
    BY DEF Surjection, Asked
  <1>2. IsFiniteSet(Asked(slots, party))
    BY <1>1, FS_Surjection
  <1>3. \A h \in Asked(slots, party) : h.party = party
    BY DEF Asked
  <1>4. Counted(Asked(slots, party))
    BY <1>2, <1>3 DEF Counted
  <1> QED BY <1>4, LoadFewer

\* The room that was found is there until the commit, as long as nobody else
\* writes the resource, or the customer's reservations.
LEMMA RoomStays ==
  ASSUME HourlyInv, PlacesInv, [Next]_vars, NEW j, j.res \in Resources,
         j.party \in Nat, IsFiniteSet(j.slots),
         \A i \in Rows : KeepsPlace(i) \/ row'[i].res # j.res
  PROVE  /\ RoomToBook(j) => RoomToBook(j)'
         /\ RoomToMove(j) => RoomToMove(j)'
  <1>1. Capacity[j.res] \in Nat
    BY CapacityAssumption
  <1>2. Unmixed(j.res)' => Unmixed(j.res)
    BY UnmixedBefore
  <1>3. ASSUME RoomToMove(j)
        PROVE  RoomToMove(j)'
    <2> SUFFICES ASSUME Unmixed(j.res)', NEW d \in j.slots, NEW t \in Instants(d)
                 PROVE  Load(Holders(j.res, {j.row} \cup revived), t)' + j.party
                          <= Capacity[j.res]
      BY DEF RoomToMove
    <2>1. Load(Holders(j.res, {j.row} \cup revived), t) + j.party
            <= Capacity[j.res]
      BY <1>2, <1>3 DEF RoomToMove
    <2>2. /\ Load(Holders(j.res, {j.row} \cup revived), t)' \in Nat
          /\ Load(Holders(j.res, {j.row} \cup revived), t) \in Nat
          /\ Load(Holders(j.res, {j.row} \cup revived), t)'
               <= Load(Holders(j.res, {j.row} \cup revived), t)
      BY LoadKept
    <2> QED BY <1>1, <2>1, <2>2
  <1>4. ASSUME RoomToBook(j), Unmixed(j.res)', NEW t \in Nat
        PROVE  Load(Holders(j.res, revived), t)' + Load(Asked(j.slots, j.party), t)
                 <= Capacity[j.res]
    <2>1. Load(Holders(j.res, revived), t) + Load(Asked(j.slots, j.party), t)
            <= Capacity[j.res]
      BY <1>2, <1>4 DEF RoomToBook
    <2>2. {} \cup revived = revived /\ {} \cup revived' = revived'
      OBVIOUS
    <2>3. /\ Load(Holders(j.res, {} \cup revived), t)' \in Nat
          /\ Load(Holders(j.res, {} \cup revived), t) \in Nat
          /\ Load(Holders(j.res, {} \cup revived), t)'
               <= Load(Holders(j.res, {} \cup revived), t)
      BY LoadKept
    <2>4. /\ Load(Holders(j.res, revived), t)' \in Nat
          /\ Load(Holders(j.res, revived), t) \in Nat
          /\ Load(Holders(j.res, revived), t)' <= Load(Holders(j.res, revived), t)
      BY <2>2, <2>3
    <2>5. Load(Asked(j.slots, j.party), t) \in Nat
      BY AskedCounted
    <2> QED BY <1>1, <2>1, <2>4, <2>5
  <1> QED BY <1>3, <1>4 DEF RoomToBook

\* Nobody joins a customer's active reservations but by a commit for the customer.
LEMMA ActiveKept ==
  ASSUME HourlyInv, PlacesInv, [Next]_vars, NEW u, NEW self,
         \A i \in Rows \ self : KeepsPlace(i) \/ row'[i].user # u
  PROVE  (ActiveOf(u, now)' \ revived') \ self \subseteq ActiveOf(u, now) \ revived
  <1>1. revived' = revived \cup Revivals
    BY History
  <1>2. now' \in Nat /\ now \in Nat /\ now' >= now
    BY ClockStep DEF ClockOK, HourlyInv, NumbersOK
  <1>3. ASSUME NEW k \in Rows \ self, ActiveAt(k, now)', row'[k].user = u,
               row'[k].slot.end > now', k \notin revived'
        PROVE  k \in ActiveOf(u, now) \ revived
    <2>1. KeepsPlace(k)
      BY <1>3
    <2>2. row[k].status # "none"
      BY <1>3, <2>1 DEF KeepsPlace, SamePlace, ActiveAt
    <2>3. ActiveAt(k, now)
      BY <1>1, <1>3, <2>2 DEF Revivals, Active
    <2>4. k \notin revived
      BY <1>1, <1>3
    <2>5. row'[k].slot = row[k].slot /\ row[k].user = u
      BY <1>3, <2>1 DEF KeepsPlace, SamePlace
    <2>6. row[k].slot \in Slot
      BY <2>2 DEF PlacesInv, RowsPlaced
    <2>7. row[k].slot.end > now
      BY <1>2, <1>3, <2>5, <2>6 DEF Slot
    <2> QED BY <1>3, <2>3, <2>4, <2>5, <2>7 DEF ActiveOf
  <1> QED BY <1>3 DEF ActiveOf

LEMMA SomeActive ==
  ASSUME NEW u, NEW t
  PROVE  /\ IsFiniteSet(ActiveOf(u, t)) /\ IsFiniteSet(ActiveOf(u, t) \ revived)
         /\ Cardinality(ActiveOf(u, t) \ revived) \in Nat
         /\ Cardinality(ActiveOf(u, t)) \in Nat
  <1>1. ActiveOf(u, t) \subseteq Rows /\ ActiveOf(u, t) \ revived \subseteq Rows
    BY DEF ActiveOf
  <1> QED BY <1>1, RowsAssumption, FS_Subset, FS_CardinalityType

LEMMA LimitStays ==
  ASSUME HourlyInv, PlacesInv, [Next]_vars, NEW j, IsFiniteSet(j.slots),
         \A i \in Rows : KeepsPlace(i) \/ row'[i].user # j.user
  PROVE  RoomInLimit(j) => RoomInLimit(j)'
  <1> DEFINE A == ActiveOf(j.user, now) \ revived
  <1>1. (ActiveOf(j.user, now)' \ revived') \ {} \subseteq A
    BY ActiveKept
  <1>2. (ActiveOf(j.user, now)' \ revived') \subseteq A
    BY <1>1
  <1>3. IsFiniteSet(A)
    BY SomeActive
  <1>4. /\ Cardinality(ActiveOf(j.user, now)' \ revived') \in Nat
        /\ Cardinality(A) \in Nat
        /\ Cardinality(ActiveOf(j.user, now)' \ revived') <= Cardinality(A)
    <2> HIDE DEF A
    <2> QED BY <1>2, <1>3, FS_Subset, FS_CardinalityType
  <1>5. Cardinality(j.slots) \in Nat /\ Rules.limit \in Nat
    BY FS_CardinalityType, RulesAssumption
  <1> QED BY <1>4, <1>5 DEF RoomInLimit

\* What others do while a session holds the lock of a resource or a customer.
LEMMA LockedPlaces ==
  ASSUME HourlyInv, PlacesInv, [Next]_vars, NEW t \in Sessions,
         pc'[t] = pc[t], pc[t] # "idle"
  PROVE  /\ held[t].res \in Resources => \A i \in Rows :
              KeepsPlace(i) \/ row'[i].res # held[t].res
         /\ held[t].user \in Users => \A i \in Rows :
              KeepsPlace(i) \/ row'[i].user # held[t].user
  <1>1. CASE \A i \in Rows : KeepsPlace(i)
    BY <1>1
  <1>o. LocksOK /\ ResourceLocksOK
    BY DEF HourlyInv, PlacesInv
  <1>a. None \notin Resources \cup Users
    BY NoneAssumption
  <1>2. ASSUME NEW s \in Sessions, MoveCommit(s)
        PROVE  /\ held[t].res \in Resources => \A i \in Rows :
                    KeepsPlace(i) \/ row'[i].res # held[t].res
               /\ held[t].user \in Users => \A i \in Rows :
                    KeepsPlace(i) \/ row'[i].user # held[t].user
    <2> DEFINE i == job[s].row
    <2>1. /\ pc'[s] = "idle" /\ i \in Rows
          /\ row'[i].user = held[s].user /\ row'[i].res = held[s].res
          /\ \A k \in Rows : k # i => row'[k] = row[k]
      BY <1>2, MoveKnown DEF MovedRow
    <2> HIDE DEF i
    <2>2. s # t
      BY <2>1
    <2>3. /\ held[t].res \in Resources => row'[i].res # held[t].res
          /\ held[t].user \in Users => row'[i].user # held[t].user
      BY <1>o, <1>a, <2>1, <2>2 DEF LocksOK, ResourceLocksOK
    <2> QED BY <2>1, <2>3 DEF KeepsPlace
  <1>3. ASSUME NEW s \in Sessions, BookInsert(s)
        PROVE  /\ held[t].res \in Resources => \A i \in Rows :
                    KeepsPlace(i) \/ row'[i].res # held[t].res
               /\ held[t].user \in Users => \A i \in Rows :
                    KeepsPlace(i) \/ row'[i].user # held[t].user
    <2>1. /\ pc'[s] = "idle" /\ held[s].user = job[s].user
          /\ held[s].res = job[s].res
      BY <1>3, BookKnown
    <2>2. s # t
      BY <2>1
    <2>3. \A i \in Rows : \/ row'[i] = row[i]
                          \/ row'[i].res = held[s].res /\ row'[i].user = held[s].user
      BY <1>3, <2>1, BookPlaces DEF BookedRow
    <2>4. /\ held[t].res \in Resources => held[s].res # held[t].res
          /\ held[t].user \in Users => held[s].user # held[t].user
      BY <1>o, <1>a, <2>2 DEF LocksOK, ResourceLocksOK
    <2> QED BY <2>3, <2>4 DEF KeepsPlace
  <1> QED BY <1>1, <1>2, <1>3, PlacesStep

\* What a session has read remains true, whoever takes a step.
LEMMA ReadsStay ==
  ASSUME HourlyInv, PlacesInv, [Next]_vars, NEW j, Reads(j)
  PROVE  Reads(j)'
  <1>1. \A i : Exists(i) => Exists(i)'
    BY RowsLast DEF Exists, Lasts
  <1>2. now' \in Nat /\ now \in Nat /\ now' >= now
    BY ClockStep DEF ClockOK, HourlyInv, NumbersOK
  <1>3. j.row # None => Exists(j.row)'
    BY <1>1 DEF Reads
  <1>4. \A i \in j.rows : Exists(i)'
    BY <1>1 DEF Reads
  <1>5. ASSUME j.op = "book"
        PROVE  /\ j.res \in Resources /\ j.slots \in Requests /\ j.party \in Parties
               /\ j.user \in Users /\ j.at \in Nat /\ j.at <= now'
    BY <1>2, <1>5 DEF Reads
  <1>6. ASSUME j.op = "move"
        PROVE  /\ Exists(j.row)' /\ j.slot \in Slot
               /\ \E d \in Moves : j.slots = {d}
               /\ j.user = row'[j.row].user /\ j.res = row'[j.row].res
               /\ j.party = row'[j.row].party
    BY <1>1, <1>6, RowsLast DEF Reads, Exists, Lasts
  <1> QED BY <1>3, <1>4, <1>5, <1>6 DEF Reads

\* What a request that books or moves knows of its resource and its slots.
LEMMA ReadsMeans ==
  ASSUME RowsPlaced, NEW j, Reads(j), j.op \in {"book", "move"}
  PROVE  /\ j.res \in Resources /\ j.party \in Nat /\ j.party > 0
         /\ IsFiniteSet(j.slots) /\ j.slots \subseteq Slot
         /\ \A d \in j.slots : d.start < d.end
         /\ \A d, e \in j.slots : d.start = e.start => d = e
  <1>1. \A p \in Parties : p \in Nat /\ p > 0
    BY NumbersAssumption
  <1>2. CASE j.op = "book"
    <2>1. j.res \in Resources /\ j.slots \in Requests /\ j.party \in Parties
      BY <1>2 DEF Reads
    <2> QED BY <1>1, <2>1, SlotsAssumption
  <1>3. CASE j.op = "move"
    <2>1. /\ j.row \in Rows /\ row[j.row].status # "none"
          /\ j.res = row[j.row].res /\ j.party = row[j.row].party
      BY <1>3 DEF Reads, Exists
    <2>2. j.res \in Resources /\ j.party \in Parties
      BY <2>1 DEF RowsPlaced
    <2>3. PICK d \in Moves : j.slots = {d}
      BY <1>3 DEF Reads
    <2>4. d \in Slot /\ d.start < d.end
      BY SlotsAssumption
    <2>5. IsFiniteSet(j.slots)
      BY <2>3, FS_Singleton
    <2> QED BY <1>1, <2>2, <2>3, <2>4, <2>5
  <1> QED BY <1>2, <1>3

\* A session keeps what it stands on while others take their steps.
LEMMA OthersStand ==
  ASSUME HourlyInv, PlacesInv, [Next]_vars, NEW t \in Sessions,
         pc'[t] = pc[t], job'[t] = job[t], held'[t] = held[t]
  PROVE  Reads(job[t])' /\ Stands(pc[t], job[t], held[t])'
  <1> SUFFICES ASSUME NEW j, j = job[t], NEW h, h = held[t], NEW label,
                      label = pc[t]
               PROVE  Reads(j)' /\ Stands(label, j, h)'
    OBVIOUS
  <1>1. Reads(j) /\ Stands(label, j, h) /\ RowsPlaced
    BY DEF PlacesInv
  <1>2. ASSUME label \in {"book_insert", "move_commit"}
        PROVE  /\ RoomToBook(j) => RoomToBook(j)'
               /\ RoomToMove(j) => RoomToMove(j)'
    <2>1. j.op \in {"book", "move"} /\ h.res = j.res
      BY <1>1, <1>2 DEF Stands, BookLabels, MoveLabels
    <2>2. j.res \in Resources /\ j.party \in Nat /\ IsFiniteSet(j.slots)
      BY <1>1, <2>1, ReadsMeans
    <2>3. \A i \in Rows : KeepsPlace(i) \/ row'[i].res # j.res
      BY <1>2, <2>1, <2>2, LockedPlaces
    <2> QED BY <2>2, <2>3, RoomStays
  <1>3. ASSUME label \in {"book_resource", "book_insert"}
        PROVE  RoomInLimit(j)'
    <2>1. j.op = "book" /\ h.user = j.user /\ RoomInLimit(j)
      BY <1>1, <1>3 DEF Stands, BookLabels
    <2>2. j.user \in Users /\ IsFiniteSet(j.slots)
      BY <1>1, <2>1, ReadsMeans DEF Reads
    <2>3. \A i \in Rows : KeepsPlace(i) \/ row'[i].user # j.user
      BY <1>3, <2>1, <2>2, LockedPlaces
    <2> QED BY <2>1, <2>2, <2>3, LimitStays
  <1>4. Stands(label, j, h)'
    BY <1>1, <1>2, <1>3 DEF Stands
  <1>5. Reads(j)'
    BY <1>1, ReadsStay
  <1> QED BY <1>4, <1>5

-----------------------------------------------------------------------------
(* What the commits leave behind. *)

\* A reservation that is not remembered as mixed lies where it lay, or where
\* the rescheduling was checked.
LEMMA MovedTo ==
  ASSUME HourlyInv, PlacesInv, [Next]_vars, NEW s \in Sessions, MoveCommit(s),
         job[s].row \notin mixed'
  PROVE  \/ row'[job[s].row].slot = row[job[s].row].slot
         \/ row'[job[s].row].slot \in job[s].slots
  <1>1. job[s].row \notin Mixed
    BY History
  <1>2. /\ pc[s] = "move_commit" /\ pc'[s] = "idle" /\ job[s].row \in Rows
    BY MoveKnown
  <1> QED BY <1>1, <1>2 DEF Mixed

LEMMA RowsPlacedStep ==
  ASSUME HourlyInv, PlacesInv, [Next]_vars
  PROVE  RowsPlaced'
  <1>1. revived' = revived \cup Revivals /\ mixed' = mixed \cup Mixed
    BY History
  <1>2. revived' \subseteq Rows /\ mixed' \subseteq Rows
    BY <1>1 DEF PlacesInv, RowsPlaced, Revivals, Mixed
  <1> DEFINE Placed(i) ==
               /\ row'[i].res \in Resources /\ row'[i].party \in Parties
               /\ row'[i].slot \in Slot
               /\ i \notin mixed' => row'[i].slot.start < row'[i].slot.end
  <1>3. ASSUME NEW i \in Rows, KeepsPlace(i)
        PROVE  /\ row'[i].series \subseteq Rows
               /\ row'[i].status = "none" => row'[i] = row[i]
               /\ row'[i].status # "none" => Placed(i)
    <2>1. /\ row[i].series \subseteq Rows
          /\ row[i].status # "none" =>
               /\ row[i].res \in Resources /\ row[i].party \in Parties
               /\ row[i].slot \in Slot
               /\ i \notin mixed => row[i].slot.start < row[i].slot.end
      BY DEF PlacesInv, RowsPlaced
    <2>2. mixed \subseteq mixed'
      BY <1>1
    <2> QED BY <1>3, <2>1, <2>2 DEF KeepsPlace, SamePlace
  <1>4. ASSUME NEW s \in Sessions, MoveCommit(s), NEW i \in Rows
        PROVE  /\ row'[i].series \subseteq Rows
               /\ row'[i].status = "none" => row'[i] = row[i]
               /\ row'[i].status # "none" => Placed(i)
    <2>1. CASE i # job[s].row
      <3>1. KeepsPlace(i)
        BY <1>4, <2>1, MoveKnown DEF KeepsPlace
      <3> QED BY <1>3, <3>1
    <2>2. CASE i = job[s].row
      <3>1. /\ job[s].op = "move" /\ Reads(job[s]) /\ MovedRow(s, i)
        BY <1>4, <2>2, MoveKnown
      <3>2. /\ row[i].series \subseteq Rows
            /\ row[i].res \in Resources /\ row[i].party \in Parties
            /\ row[i].slot \in Slot
            /\ i \notin mixed => row[i].slot.start < row[i].slot.end
        BY <3>1 DEF MovedRow, PlacesInv, RowsPlaced
      <3>3. \A d \in job[s].slots : d.start < d.end
        BY <3>1, ReadsMeans DEF PlacesInv
      <3>4. i \notin mixed' => i \notin mixed
        BY <1>1
      <3>5. i \notin mixed' => row'[i].slot.start < row'[i].slot.end
        BY <1>4, <2>2, <3>2, <3>3, <3>4, MovedTo
      <3> QED BY <3>1, <3>2, <3>5 DEF MovedRow
    <2> QED BY <2>1, <2>2
  <1>5. ASSUME NEW s \in Sessions, BookInsert(s), NEW i \in Rows
        PROVE  /\ row'[i].series \subseteq Rows
               /\ row'[i].status = "none" => row'[i] = row[i]
               /\ row'[i].status # "none" => Placed(i)
    <2>1. job[s].op = "book" /\ Reads(job[s])
      BY <1>5, BookKnown
    <2>2. /\ \A d \in job[s].slots : d \in Slot /\ d.start < d.end
          /\ job[s].res \in Resources
      BY <2>1, ReadsMeans DEF PlacesInv
    <2>3. job[s].party \in Parties
      BY <2>1 DEF Reads
    <2>4. row'[i] = row[i] \/ \E d \in job[s].slots : BookedRow(s, i, d)
      BY <1>5, BookPlaces
    <2>5. CASE row'[i] = row[i]
      BY <1>3, <2>5 DEF KeepsPlace
    <2>6. ASSUME NEW d \in job[s].slots, BookedRow(s, i, d)
          PROVE  /\ row'[i].series \subseteq Rows /\ row'[i].status # "none"
                 /\ Placed(i)
      BY <2>2, <2>3, <2>6 DEF BookedRow
    <2> QED BY <2>4, <2>5, <2>6
  <1>6. \A i \in Rows : /\ row'[i].series \subseteq Rows
                        /\ row'[i].status = "none" => row'[i] = row[i]
                        /\ row'[i].status # "none" => Placed(i)
    BY <1>3, <1>4, <1>5, PlacesStep
  <1>7. ASSUME NEW i \in Rows, row'[i].status = "none"
        PROVE  /\ row'[i].user = None /\ i \notin revived' /\ i \notin mixed'
    <2>1. /\ row'[i] = row[i] /\ row[i].status = "none"
      BY <1>6, <1>7
    <2>2. row[i].user = None /\ i \notin revived /\ i \notin mixed
      BY <2>1 DEF PlacesInv, RowsPlaced
    <2>3. i \notin Revivals
      BY <2>1 DEF Revivals
    <2>4. ASSUME NEW s \in Sessions, pc[s] = "move_commit", job[s].row = i
          PROVE  FALSE
      <3>1. Reads(job[s]) /\ Stands(pc[s], job[s], held[s])
        BY DEF PlacesInv
      <3>2. job[s].op = "move"
        BY <2>4, <3>1 DEF Stands, MoveLabels
      <3> QED BY <2>1, <2>4, <3>1, <3>2 DEF Reads, Exists
    <2>5. i \notin Mixed
      BY <2>4 DEF Mixed
    <2> QED BY <1>1, <2>1, <2>2, <2>3, <2>5
  <1> HIDE DEF Placed
  <1>8. ASSUME NEW i \in Rows
        PROVE /\ row'[i].series \subseteq Rows
              /\ row'[i].status = "none" => /\ row'[i].user = None
                                            /\ i \notin revived' /\ i \notin mixed'
              /\ row'[i].status # "none" => Placed(i)
    BY <1>6, <1>7
  <1> QED BY <1>2, <1>8 DEF RowsPlaced, Placed

\* The people of some requests of one size.
LEMMA PeopleAlike ==
  ASSUME NEW K, NEW D, NEW f, NEW party \in Nat,
         \A h \in K : \E d \in D : h.id = f[d] /\ h.party = party,
         \A d \in D : \E h \in K : h.id = f[d] /\ h.party = party
  PROVE  /\ \A y \in People(K) : \E x \in D \X (1 .. party) : y = <<f[x[1]], x[2]>>
         /\ \A x \in D \X (1 .. party) : <<f[x[1]], x[2]>> \in People(K)
  <1>1. ASSUME NEW y \in People(K)
        PROVE  \E x \in D \X (1 .. party) : y = <<f[x[1]], x[2]>>
    <2>1. PICK h \in K : y \in {h.id} \X (1 .. h.party)
      BY DEF People
    <2>2. PICK d \in D : h.id = f[d] /\ h.party = party
      OBVIOUS
    <2>3. PICK n \in 1 .. party : y = <<f[d], n>>
      BY <2>1, <2>2
    <2>4. <<d, n>> \in D \X (1 .. party) /\ <<d, n>>[1] = d /\ <<d, n>>[2] = n
      OBVIOUS
    <2> QED BY <2>3, <2>4
  <1>2. ASSUME NEW d \in D, NEW n \in 1 .. party
        PROVE  <<f[d], n>> \in People(K)
    <2>1. PICK h \in K : h.id = f[d] /\ h.party = party
      OBVIOUS
    <2>2. <<f[d], n>> \in {h.id} \X (1 .. h.party)
      BY <2>1
    <2> QED BY <2>2 DEF People
  <1>3. ASSUME NEW x \in D \X (1 .. party)
        PROVE  <<f[x[1]], x[2]>> \in People(K)
    <2>1. x[1] \in D /\ x[2] \in 1 .. party
      OBVIOUS
    <2> QED BY <1>2, <2>1
  <1> QED BY <1>1, <1>3

\* The people of a booking are those for whom room was asked.
Placed(f, slots, party) == {[id |-> f[d], slot |-> d, party |-> party] : d \in slots}
LEMMA PlacedLoad ==
  ASSUME NEW slots, IsFiniteSet(slots), NEW party \in Nat, NEW f, NEW t
  PROVE  /\ Counted(Placed(f, slots, party))
         /\ Load(Placed(f, slots, party), t) \in Nat
         /\ Load(Placed(f, slots, party), t) <= Load(Asked(slots, party), t)
  <1> SUFFICES ASSUME NEW D, D = {d \in slots : t \in Instants(d)}
               PROVE  /\ Counted(Placed(f, slots, party))
                      /\ Load(Placed(f, slots, party), t) \in Nat
                      /\ Load(Placed(f, slots, party), t)
                           <= Load(Asked(slots, party), t)
    OBVIOUS
  <1> DEFINE A == Asked(slots, party)
             B == Placed(f, slots, party)
             P == D \X (1 .. party)
             g == [x \in P |-> <<f[x[1]], x[2]>>]
  <1>1. Counted(A)
    BY AskedCounted
  <1>2. Counted(B)
    <2> DEFINE k == [d \in slots |-> [id |-> f[d], slot |-> d, party |-> party]]
    <2>1. k \in Surjection(slots, B)
      BY DEF Surjection, Placed
    <2>2. IsFiniteSet(B)
      BY <2>1, FS_Surjection
    <2>3. \A h \in B : h.party = party
      BY DEF Placed
    <2> QED BY <2>2, <2>3 DEF Counted
  <1>3. Counted(Present(A, t)) /\ Counted(Present(B, t))
    <2>1. Present(A, t) \subseteq A /\ Present(B, t) \subseteq B
      BY DEF Present
    <2> QED BY <1>1, <1>2, <2>1, PeopleFewer
  <1>4. Load(A, t) = Cardinality(P) /\ IsFiniteSet(P)
    <2> DEFINE e == [d \in D |-> d]
               r(d) == [id |-> d, slot |-> d, party |-> party]
    <2>0. \A d \in D : e[d] = d /\ r(d) \in Present(A, t)
      BY DEF Present, Asked
    <2>1. \A h \in Present(A, t) : \E d \in D : h = r(d)
      BY DEF Present, Asked
    <2>5. \A d : r(d).id = d /\ r(d).party = party
      OBVIOUS
    <2> HIDE DEF e, r, A
    <2>6. /\ \A h \in Present(A, t) : \E d \in D : h.id = e[d] /\ h.party = party
          /\ \A d \in D : \E h \in Present(A, t) : h.id = e[d] /\ h.party = party
      BY <2>0, <2>1, <2>5
    <2>2. /\ \A y \in People(Present(A, t)) : \E x \in P : y = <<e[x[1]], x[2]>>
          /\ \A x \in P : <<e[x[1]], x[2]>> \in People(Present(A, t))
      BY ONLY <2>6, party \in Nat, PeopleAlike
    <2>3. \A x \in P : <<e[x[1]], x[2]>> = x
      BY <2>0
    <2>4. People(Present(A, t)) = P
      <3> HIDE DEF P
      <3> QED BY <2>2, <2>3
    <2> QED BY <1>3, <2>4, PeopleFinite, LoadIs
  <1>5. /\ \A h \in Present(B, t) : \E d \in D : h.id = f[d] /\ h.party = party
        /\ \A d \in D : \E h \in Present(B, t) : h.id = f[d] /\ h.party = party
    <2> DEFINE r(d) == [id |-> f[d], slot |-> d, party |-> party]
    <2>0. \A d \in D : r(d) \in Present(B, t)
      BY DEF Present, Placed
    <2>1. \A h \in Present(B, t) : \E d \in D : h = r(d)
      BY DEF Present, Placed
    <2>5. \A d : r(d).id = f[d] /\ r(d).party = party
      OBVIOUS
    <2> HIDE DEF r, B
    <2> QED BY <2>0, <2>1, <2>5
  <1> HIDE DEF B
  <1>6. g \in Surjection(P, People(Present(B, t)))
    <2>1. /\ \A y \in People(Present(B, t)) : \E x \in P : y = <<f[x[1]], x[2]>>
          /\ \A x \in P : <<f[x[1]], x[2]>> \in People(Present(B, t))
      BY ONLY <1>5, party \in Nat, PeopleAlike
    <2> HIDE DEF P
    <2> QED BY <2>1 DEF Surjection
  <1>8. Load(B, t) = Cardinality(People(Present(B, t))) /\ Load(B, t) \in Nat
    BY <1>2, LoadIs, LoadFewer
  <1>9. Cardinality(People(Present(B, t))) <= Cardinality(P)
    BY <1>4, <1>6, FS_Surjection
  <1> QED BY <1>2, <1>4, <1>8, <1>9 DEF B

\* A booking takes no more than the room that was found for it.
LEMMA BookedRoom ==
  ASSUME HourlyInv, PlacesInv, [Next]_vars, NEW s \in Sessions, BookInsert(s),
         NEW r, r = job[s].res, Unmixed(r)', NEW t \in Nat
  PROVE  Load(Holders(r, revived), t)' <= Capacity[r]
  <1> SUFFICES ASSUME NEW j, j = job[s]
               PROVE  Load(Holders(r, revived), t)' <= Capacity[r]
    OBVIOUS
  <1>1. /\ j.op = "book" /\ Reads(j) /\ RoomToBook(j)
    BY BookKnown
  <1>2. /\ j.res \in Resources /\ j.party \in Nat /\ IsFiniteSet(j.slots)
    BY <1>1, ReadsMeans DEF PlacesInv
  <1>3. PICK f \in [j.slots -> FreeRows] :
          /\ \A d \in j.slots : BookedRow(s, f[d], d)
          /\ \A i \in Rows : (\A d \in j.slots : i # f[d]) => row'[i] = row[i]
    BY BookPlaces
  <1> DEFINE F == {f[d] : d \in j.slots}
             L == Holders(r, F \cup revived)
             B == Placed(f, j.slots, j.party)
  <1>4. \A i \in Rows \ F : KeepsPlace(i)
    BY <1>3 DEF KeepsPlace
  <1>5. L' \subseteq L
    <2> HIDE DEF F
    <2> QED BY <1>4, HoldersKept
  <1>6. L \subseteq Holders(r, revived)
    BY DEF Holders
  <1>7. Holders(r, revived)' \subseteq L' \cup B
    <2>1. ASSUME NEW i \in Rows \ revived', Active(i)', row'[i].res = r
          PROVE  Holder(i)' \in L' \cup B
      <3>1. CASE i \in F
        <4>1. PICK d \in j.slots : i = f[d]
          BY <3>1
        <4>2. row'[i].slot = d /\ row'[i].party = j.party
          BY <1>3, <4>1 DEF BookedRow
        <4> QED BY <4>1, <4>2 DEF Holder, Placed
      <3>2. CASE i \notin F
        <4> HIDE DEF F
        <4> QED BY <2>1, <3>2 DEF Holders, Holder
      <3> QED BY <3>1, <3>2
    <2> HIDE DEF L, B
    <2> QED BY <2>1 DEF Holders, Holder
  <1>8. Counted(Holders(r, revived))
    BY HoldersCounted DEF PlacesInv
  <1> HIDE DEF F, B
  <1>9. /\ Counted(L') /\ Load(L', t) \in Nat
        /\ Load(L', t) <= Load(Holders(r, revived), t)
        /\ Load(Holders(r, revived), t) \in Nat
    <2>1. L' \subseteq Holders(r, revived)
      BY <1>5, <1>6
    <2> HIDE DEF L
    <2> QED BY <1>8, <2>1, LoadFewer
  <1>10. /\ Counted(B) /\ Load(B, t) \in Nat
         /\ Load(B, t) <= Load(Asked(j.slots, j.party), t)
         /\ Load(Asked(j.slots, j.party), t) \in Nat
    BY <1>2, PlacedLoad, AskedCounted DEF B
  <1> HIDE DEF L
  <1>11. /\ Counted(L' \cup B)
         /\ Load(L' \cup B, t) <= Load(L', t) + Load(B, t)
    BY <1>9, <1>10, LoadAtMost
  <1>12. /\ Load(Holders(r, revived)', t) <= Load(L' \cup B, t)
         /\ Load(Holders(r, revived)', t) \in Nat /\ Load(L' \cup B, t) \in Nat
    BY <1>7, <1>11, LoadFewer
  <1>13. Unmixed(r)
    BY UnmixedBefore
  <1>14. Load(Holders(r, revived), t) + Load(Asked(j.slots, j.party), t)
           <= Capacity[r]
    BY <1>1, <1>13 DEF RoomToBook
  <1>15. Capacity[r] \in Nat
    BY <1>2, CapacityAssumption
  <1> QED BY <1>9, <1>10, <1>11, <1>12, <1>14, <1>15

\* So does a rescheduling, unless another one has made the slot a mixed one.
LEMMA MovedRoom ==
  ASSUME HourlyInv, PlacesInv, [Next]_vars, NEW s \in Sessions, MoveCommit(s),
         NEW r, r = job[s].res, Unmixed(r)', NEW t \in Nat
  PROVE  Load(Holders(r, revived), t)' <= Capacity[r]
  <1> SUFFICES ASSUME NEW j, j = job[s], NEW i, i = j.row
               PROVE  Load(Holders(r, revived), t)' <= Capacity[r]
    OBVIOUS
  <1>1. /\ j.op = "move" /\ Reads(j) /\ RoomToMove(j)
        /\ i \in Rows /\ MovedRow(s, i) /\ row[i].res = j.res
        /\ \A k \in Rows : k # i => row'[k] = row[k]
    BY MoveKnown
  <1>2. /\ r \in Resources /\ j.party \in Nat /\ j.slots \subseteq Slot
    BY <1>1, ReadsMeans DEF PlacesInv
  <1>3. row'[i].party = j.party /\ row'[i].res = r
    BY <1>1 DEF MovedRow, Reads
  <1>4. Unmixed(r)
    BY UnmixedBefore
  <1>5. i \notin mixed'
    BY <1>3 DEF Unmixed
  <1>6. row'[i].slot = row[i].slot \/ row'[i].slot \in j.slots
    BY <1>5, MovedTo
  <1>c. Capacity[r] \in Nat
    BY <1>2, CapacityAssumption
  <1> DEFINE H == Holders(r, revived)
             L == Holders(r, {i} \cup revived)
  <1>7. Counted(H)
    BY HoldersCounted DEF PlacesInv
  <1>8. Load(H, t) \in Nat /\ Load(H, t) <= Capacity[r]
    BY <1>2, <1>4, <1>7, LoadFewer DEF PlacesInv, RoomOK
  <1>9. CASE row'[i].slot = row[i].slot
    <2>1. \A k \in Rows \ {} : KeepsPlace(k)
      BY <1>1, <1>9 DEF KeepsPlace, SamePlace, MovedRow
    <2>2. Holders(r, {} \cup revived)' \subseteq Holders(r, {} \cup revived)
      BY <2>1, HoldersKept
    <2>3. {} \cup revived = revived /\ {} \cup revived' = revived'
      OBVIOUS
    <2>4. H' \subseteq H
      BY <2>2, <2>3
    <2> HIDE DEF H
    <2>5. Load(H', t) <= Load(H, t) /\ Load(H', t) \in Nat
      BY <1>7, <2>4, LoadFewer
    <2>6. Load(H', t) <= Capacity[r]
      BY <1>8, <1>c, <2>5
    <2> QED BY <2>6 DEF H
  <1>10. ASSUME NEW d \in j.slots, row'[i].slot = d
         PROVE  Load(H', t) <= Capacity[r]
    <2> DEFINE h == [id |-> i, slot |-> d, party |-> j.party]
    <2>1. L' \subseteq L
      <3>1. \A k \in Rows \ {i} : KeepsPlace(k)
        BY <1>1 DEF KeepsPlace
      <3> QED BY <3>1, HoldersKept
    <2>2. H' \subseteq L' \cup {h}
      <3>1. ASSUME NEW k \in Rows \ revived', Active(k)', row'[k].res = r
            PROVE  Holder(k)' \in L' \cup {h}
        <4>1. CASE k = i
          BY <1>3, <1>10, <4>1 DEF Holder
        <4>2. CASE k # i
          BY <3>1, <4>2 DEF Holders, Holder
        <4> QED BY <4>1, <4>2
      <3> HIDE DEF L, h
      <3> QED BY <3>1 DEF Holders, Holder
    <2>3. L \subseteq H
      BY DEF Holders
    <2>4. /\ Counted(L) /\ Load(L, t) \in Nat /\ Load(L, t) <= Load(H, t)
      <3> HIDE DEF L, H
      <3> QED BY <1>7, <2>3, LoadFewer
    <2>5. /\ Counted(L') /\ Load(L', t) \in Nat /\ Load(L', t) <= Load(L, t)
      <3> HIDE DEF L
      <3> QED BY <2>1, <2>4, LoadFewer
    <2>6. /\ Counted({h}) /\ Load({h}, t) \in Nat /\ Load({h}, t) <= j.party
          /\ t \notin Instants(d) => Load({h}, t) = 0
      <3>1. h.party = j.party /\ h.slot = d
        OBVIOUS
      <3> HIDE DEF h
      <3>2. Counted({h}) /\ Cardinality(People({h})) = j.party
        BY <1>2, <3>1, PeopleOfOne
      <3>3. Present({h}, t) \subseteq {h}
        BY DEF Present
      <3>4. /\ Load({h}, t) \in Nat /\ Load({h}, t) <= j.party
        BY <3>2, <3>3, PeopleFewer, LoadIs
      <3>5. t \notin Instants(d) => Load({h}, t) = 0
        <4>1. t \notin Instants(d) => Present({h}, t) = {}
          BY <3>1 DEF Present
        <4> QED BY <4>1, NoPeople, LoadIs
      <3> QED BY <3>2, <3>4, <3>5
    <2>7. /\ Counted(L' \cup {h})
          /\ Load(L' \cup {h}, t) <= Load(L', t) + Load({h}, t)
      <3> HIDE DEF L, h
      <3> QED BY <2>5, <2>6, LoadAtMost
    <2>8. /\ Load(H', t) \in Nat /\ Load(L' \cup {h}, t) \in Nat
          /\ Load(H', t) <= Load(L' \cup {h}, t)
      <3> HIDE DEF L, H, h
      <3> QED BY <2>2, <2>7, LoadFewer
    <2>9. t \in Instants(d) => Load(L, t) + j.party <= Capacity[r]
      BY <1>1, <1>4 DEF RoomToMove
    <2> HIDE DEF L, H, h
    <2> QED BY <1>2, <1>8, <1>c, <2>4, <2>5, <2>6, <2>7, <2>8, <2>9
  <1>11. Load(H', t) <= Capacity[r]
    BY <1>6, <1>9, <1>10
  <1> QED BY <1>11 DEF H

LEMMA RoomStep ==
  ASSUME HourlyInv, PlacesInv, [Next]_vars
  PROVE  RoomOK'
  <1> SUFFICES ASSUME NEW r \in Resources, Unmixed(r)', NEW t \in Nat
               PROVE  Load(Holders(r, revived), t)' <= Capacity[r]
    BY DEF RoomOK
  <1>1. ASSUME \A i \in Rows : KeepsPlace(i) \/ row'[i].res # r
        PROVE  Load(Holders(r, revived), t)' <= Capacity[r]
    <2>1. Load(Holders(r, revived), t) <= Capacity[r]
      BY UnmixedBefore DEF PlacesInv, RoomOK
    <2>2. {} \cup revived = revived /\ {} \cup revived' = revived'
      OBVIOUS
    <2>3. /\ Load(Holders(r, {} \cup revived), t)' \in Nat
          /\ Load(Holders(r, {} \cup revived), t) \in Nat
          /\ Load(Holders(r, {} \cup revived), t)'
               <= Load(Holders(r, {} \cup revived), t)
      BY <1>1, LoadKept
    <2>4. Capacity[r] \in Nat
      BY CapacityAssumption
    <2> QED BY <2>1, <2>2, <2>3, <2>4
  <1>2. ASSUME NEW s \in Sessions, MoveCommit(s)
        PROVE  Load(Holders(r, revived), t)' <= Capacity[r]
    <2>1. CASE job[s].res = r
      BY <1>2, <2>1, MovedRoom
    <2>2. CASE job[s].res # r
      <3>1. \A i \in Rows : row'[i] = row[i] \/ row'[i].res # r
        BY <1>2, <2>2, MoveKnown DEF MovedRow
      <3> QED BY <1>1, <3>1 DEF KeepsPlace
    <2> QED BY <2>1, <2>2
  <1>3. ASSUME NEW s \in Sessions, BookInsert(s)
        PROVE  Load(Holders(r, revived), t)' <= Capacity[r]
    <2>1. CASE job[s].res = r
      BY <1>3, <2>1, BookedRoom
    <2>2. CASE job[s].res # r
      <3>1. \A i \in Rows : row'[i] = row[i] \/ row'[i].res # r
        BY <1>3, <2>2, BookPlaces DEF BookedRow
      <3> QED BY <1>1, <3>1 DEF KeepsPlace
    <2> QED BY <2>1, <2>2
  <1> QED BY <1>1, <1>2, <1>3, PlacesStep

\* A booking never takes the customer past the limit.
LEMMA LimitAfterBooking ==
  ASSUME HourlyInv, PlacesInv, [Next]_vars, NEW s \in Sessions, BookInsert(s),
         NEW u, u = job[s].user
  PROVE  Cardinality(ActiveOf(u, now)' \ revived') <= Rules.limit
  <1> SUFFICES ASSUME NEW j, j = job[s]
               PROVE  Cardinality(ActiveOf(u, now)' \ revived') <= Rules.limit
    OBVIOUS
  <1>1. j.op = "book" /\ Reads(j) /\ RoomInLimit(j)
    BY BookKnown
  <1>2. IsFiniteSet(j.slots)
    BY <1>1, ReadsMeans DEF PlacesInv
  <1>3. PICK f \in [j.slots -> FreeRows] :
          \A i \in Rows : (\A d \in j.slots : i # f[d]) => row'[i] = row[i]
    BY BookPlaces
  <1> DEFINE F == {f[d] : d \in j.slots}
             A == ActiveOf(u, now) \ revived
             B == ActiveOf(u, now)' \ revived'
  <1>4. \A i \in Rows \ F : KeepsPlace(i)
    BY <1>3 DEF KeepsPlace
  <1>5. f \in Surjection(j.slots, F)
    BY <1>3 DEF Surjection
  <1>6. IsFiniteSet(F) /\ Cardinality(F) <= Cardinality(j.slots)
    BY <1>2, <1>5, FS_Surjection
  <1>7. IsFiniteSet(A) /\ Cardinality(A) \in Nat
    BY SomeActive
  <1> HIDE DEF F
  <1>8. B \ F \subseteq A
    BY <1>4, ActiveKept
  <1> HIDE DEF A, B
  <1>9. /\ IsFiniteSet(A \cup F)
        /\ Cardinality(A \cup F) <= Cardinality(A) + Cardinality(F)
    BY <1>6, <1>7, TwoSets
  <1>10. B \subseteq A \cup F
    BY <1>8
  <1>11. Cardinality(B) <= Cardinality(A \cup F)
    BY <1>9, <1>10, FS_Subset
  <1>12. IsFiniteSet(B)
    BY <1>9, <1>10, FS_Subset
  <1>13. /\ Cardinality(B) \in Nat /\ Cardinality(F) \in Nat
         /\ Cardinality(j.slots) \in Nat /\ Cardinality(A \cup F) \in Nat
    BY <1>2, <1>6, <1>9, <1>12, FS_CardinalityType
  <1>14. Cardinality(A) + Cardinality(j.slots) <= Rules.limit
    BY <1>1 DEF RoomInLimit, A
  <1>15. Rules.limit \in Nat
    BY RulesAssumption
  <1>16. Cardinality(B) <= Rules.limit
    BY <1>6, <1>7, <1>9, <1>11, <1>13, <1>14, <1>15
  <1> QED BY <1>16 DEF B

-----------------------------------------------------------------------------
(* What the checks establish. *)

\* The highest number of people present together with a request.
LEMMA FitsMeans ==
  ASSUME NEW r, NEW slots, NEW party \in Nat, NEW self, Fits(r, slots, party, self),
         Capacity[r] \in Nat, NEW d \in slots, d \in Slot, d.start < d.end,
         Sound(Holders(r, self) \cup Earlier(slots, d, party)),
         NEW t \in Instants(d)
  PROVE  Load(Holders(r, self) \cup Earlier(slots, d, party), t) + party
           <= Capacity[r]
  <1> DEFINE H == Holders(r, self) \cup Earlier(slots, d, party)
  <1>1. Peak(H, d) + party <= Capacity[r]
    BY DEF Fits
  <1> HIDE DEF H
  <1>2. /\ Peak(H, d) \in Nat /\ Load(H, t) \in Nat /\ Load(H, t) <= Peak(H, d)
    <2>1. Sound(H)
      BY DEF H
    <2> QED BY <2>1, PeakIs
  <1>3. Load(H, t) + party <= Capacity[r]
    BY <1>1, <1>2
  <1> QED BY <1>3 DEF H

\* A rescheduling that fits has room.
LEMMA MoveFits ==
  ASSUME HourlyInv, PlacesInv, NEW j, Reads(j), j.op = "move",
         Fits(j.res, j.slots, j.party, {j.row})
  PROVE  RoomToMove(j)
  <1> SUFFICES ASSUME Unmixed(j.res), NEW d \in j.slots, NEW t \in Instants(d)
               PROVE  Load(Holders(j.res, {j.row} \cup revived), t) + j.party
                        <= Capacity[j.res]
    BY DEF RoomToMove
  <1> DEFINE H == Holders(j.res, {j.row})
             L == Holders(j.res, {j.row} \cup revived)
  <1>1. /\ j.res \in Resources /\ j.party \in Nat /\ d \in Slot /\ d.start < d.end
        /\ \A e \in j.slots : e.start = d.start => e = d
    BY ReadsMeans DEF PlacesInv
  <1>2. Earlier(j.slots, d, j.party) = {}
    <2>1. j.slots = {d}
      BY DEF Reads
    <2>2. \A e \in j.slots : ~(e.start < d.start)
      BY <1>1, <2>1 DEF Slot
    <2> QED BY <2>2 DEF Earlier
  <1>3. Sound(H) /\ Counted(H)
    BY HoldersCounted DEF PlacesInv
  <1>4. Sound(H \cup Earlier(j.slots, d, j.party)) /\ H \cup Earlier(j.slots, d, j.party) = H
    BY <1>2, <1>3
  <1>5. Capacity[j.res] \in Nat
    BY <1>1, CapacityAssumption
  <1>6. Load(H, t) + j.party <= Capacity[j.res]
    BY <1>1, <1>4, <1>5, FitsMeans
  <1>7. L \subseteq H
    BY DEF Holders
  <1> HIDE DEF H, L
  <1>8. Load(L, t) <= Load(H, t) /\ Load(L, t) \in Nat /\ Load(H, t) \in Nat
    BY <1>3, <1>7, LoadFewer
  <1>9. Load(L, t) + j.party <= Capacity[j.res]
    BY <1>1, <1>5, <1>6, <1>8
  <1> QED BY <1>9 DEF L

LEMMA LoadOfOne ==
  ASSUME NEW h, NEW party \in Nat, h.party = party, NEW t
  PROVE  Counted({h}) /\ Load({h}, t) \in Nat /\ Load({h}, t) <= party
  <1>1. Counted({h}) /\ Cardinality(People({h})) = party
    BY PeopleOfOne
  <1>2. Present({h}, t) \subseteq {h}
    BY DEF Present
  <1> QED BY <1>1, <1>2, PeopleFewer, LoadIs

\* A booking that fits has room for all of its slots together, because the
\* occurrences of a series are checked with the ones that begin earlier: at any
\* instant, the last of them to begin has been checked with all the others.
LEMMA BookFits ==
  ASSUME HourlyInv, PlacesInv, NEW j, Reads(j), j.op = "book",
         Fits(j.res, j.slots, j.party, {})
  PROVE  RoomToBook(j)
  <1> SUFFICES ASSUME Unmixed(j.res), NEW t \in Nat
               PROVE  Load(Holders(j.res, revived), t)
                        + Load(Asked(j.slots, j.party), t) <= Capacity[j.res]
    BY DEF RoomToBook
  <1> DEFINE H == Holders(j.res, {})
             L == Holders(j.res, revived)
             A == Asked(j.slots, j.party)
  <1>1. /\ j.res \in Resources /\ j.party \in Nat /\ j.party > 0
        /\ IsFiniteSet(j.slots) /\ j.slots \subseteq Slot
        /\ \A d \in j.slots : d.start < d.end
        /\ \A d, e \in j.slots : d.start = e.start => d = e
    BY ReadsMeans DEF PlacesInv
  <1>2. Sound(H) /\ Counted(H) /\ \A h \in H : h.id \in Rows
    BY HoldersCounted DEF PlacesInv
  <1>3. Counted(A) /\ Load(A, t) \in Nat
    BY <1>1, AskedCounted
  <1>4. Capacity[j.res] \in Nat
    BY <1>1, CapacityAssumption
  <1>5. L \subseteq H
    BY DEF Holders
  <1>6. Load(L, t) \in Nat /\ Load(L, t) <= Load(H, t) /\ Load(H, t) \in Nat
    <2> HIDE DEF L, H
    <2> QED BY <1>2, <1>5, LoadFewer
  <1>7. Load(L, t) <= Capacity[j.res]
    BY <1>1 DEF PlacesInv, RoomOK
  <1>8. CASE \A d \in j.slots : t \notin Instants(d)
    <2>1. Present(A, t) = {}
      BY <1>8 DEF Present, Asked
    <2>2. Load(A, t) = 0
      BY <2>1, NoPeople, LoadIs
    <2> HIDE DEF L, A
    <2>3. Load(L, t) + Load(A, t) <= Capacity[j.res]
      BY <1>4, <1>6, <1>7, <2>2
    <2> QED BY <2>3 DEF L, A
  <1>9. CASE \E d \in j.slots : t \in Instants(d)
    <2> DEFINE D == {d \in j.slots : t \in Instants(d)}
               S == {d.start : d \in D}
    <2>1. \A d \in D : d.start \in Nat /\ d.start <= t
      BY <1>1 DEF Slot, Instants
    <2>2. S \in SUBSET Int /\ S # {} /\ \A x \in S : x <= t
      BY <1>9, <2>1
    <2>3. Max(S) \in S /\ \A x \in S : x <= Max(S)
      <3> HIDE DEF S
      <3> QED BY <2>2, HasMax
    <2>4. PICK d \in D : d.start = Max(S)
      BY <2>3
    <2>5. \A e \in D : e.start <= d.start
      BY <2>3, <2>4
    <2>6. /\ d \in j.slots /\ t \in Instants(d)
          /\ \A e \in D : e # d => e.start < d.start
      <3>1. \A e \in D : e \in j.slots
        OBVIOUS
      <3>2. d \in j.slots /\ t \in Instants(d)
        OBVIOUS
      <3> HIDE DEF D
      <3> QED BY <1>1, <2>1, <2>5, <3>1, <3>2
    <2> DEFINE E == Earlier(j.slots, d, j.party)
               h == [id |-> d, slot |-> d, party |-> j.party]
    <2>7. E \subseteq A
      BY DEF Earlier, Asked
    <2>8. Counted(E) /\ Load(E, t) \in Nat
      BY <1>3, <2>7, LoadFewer
    <2>9. /\ \A g \in E : /\ g.id \in Slot /\ g.party > 0 /\ g.slot \in Slot
                          /\ g.slot.start < g.slot.end
          /\ Distinct(E)
      BY <1>1 DEF Earlier, Distinct
    <2>10. \A g \in H, k \in E : g.id # k.id
      BY <1>2, <2>9, RowsAssumption
    <2>a. Apart(H, E)
      BY <2>10 DEF Apart
    <2>11. /\ Counted(H \cup E) /\ Load(H \cup E, t) = Load(H, t) + Load(E, t)
      <3> HIDE DEF H, E
      <3> QED BY ONLY <1>2, <2>8, <2>a, LoadApart
    <2>12. Sound(H \cup E)
      <3> HIDE DEF H, E
      <3>1. Distinct(H \cup E)
        BY <1>2, <2>9, <2>10 DEF Sound, Distinct
      <3> QED BY <1>2, <2>9, <2>11, <3>1 DEF Sound
    <2>13. Load(H \cup E, t) + j.party <= Capacity[j.res]
      BY <1>1, <1>4, <2>6, <2>12, FitsMeans
    <2>14. Present(A, t) \subseteq Present(E \cup {h}, t)
      <3>1. ASSUME NEW e \in j.slots, t \in Instants(e)
            PROVE  [id |-> e, slot |-> e, party |-> j.party] \in E \cup {h}
        <4>1. e \in D
          BY <3>1
        <4> HIDE DEF D
        <4> QED BY <2>6, <4>1 DEF Earlier
      <3> HIDE DEF E, h
      <3> QED BY <3>1 DEF Present, Asked
    <2>15. /\ Counted({h}) /\ Load({h}, t) \in Nat /\ Load({h}, t) <= j.party
      <3>1. h.party = j.party
        OBVIOUS
      <3> HIDE DEF h
      <3> QED BY <1>1, <3>1, LoadOfOne
    <2> HIDE DEF E, h, A, H, L, D, S
    <2>16. /\ Counted(E \cup {h})
           /\ Load(E \cup {h}, t) <= Load(E, t) + Load({h}, t)
      BY <2>8, <2>15, LoadAtMost
    <2>17. Load(E \cup {h}, t) \in Nat
      BY <2>16, LoadFewer
    <2>18. Load(A, t) <= Load(E \cup {h}, t)
      <3>1. Counted(Present(E \cup {h}, t))
        <4>1. Present(E \cup {h}, t) \subseteq E \cup {h}
          BY DEF Present
        <4> QED BY <2>16, <4>1, PeopleFewer
      <3> QED BY <2>14, <3>1, PeopleFewer, LoadIs
    <2>19. Load(L, t) + Load(A, t) <= Capacity[j.res]
      BY <1>1, <1>3, <1>4, <1>6, <2>8, <2>11, <2>13, <2>15, <2>16, <2>17, <2>18
    <2> QED BY <2>19 DEF L, A
  <1> QED BY <1>8, <1>9

\* A booking accepted under the lock of the customer is within the limit.
LEMMA LimitFits ==
  ASSUME HourlyInv, PlacesInv, NEW j, Reads(j), j.op = "book",
         Cardinality(ActiveOf(j.user, j.at)) + Cardinality(j.slots) <= Rules.limit
  PROVE  RoomInLimit(j)
  <1>1. j.at \in Nat /\ now \in Nat /\ j.at <= now
    BY DEF Reads, HourlyInv, NumbersOK
  <1>2. ASSUME NEW i \in Rows, ActiveAt(i, now), row[i].slot.end > now
        PROVE  ActiveAt(i, j.at) /\ row[i].slot.end > j.at
    <2>1. row[i].status # "none"
      BY <1>2 DEF ActiveAt
    <2>2. row[i].slot \in Slot
      BY <2>1 DEF PlacesInv, RowsPlaced
    <2>3. row[i].hold \in Nat \cup {None}
      BY DEF HourlyInv, NumbersOK
    <2> QED BY <1>1, <1>2, <2>2, <2>3 DEF ActiveAt, Slot
  <1> DEFINE A == ActiveOf(j.user, now) \ revived
             B == ActiveOf(j.user, j.at)
  <1>3. A \subseteq B
    BY <1>2 DEF ActiveOf
  <1>4. IsFiniteSet(B) /\ Cardinality(A) \in Nat /\ Cardinality(B) \in Nat
    BY SomeActive
  <1>5. Cardinality(j.slots) \in Nat /\ Rules.limit \in Nat
    BY ReadsMeans, FS_CardinalityType, RulesAssumption DEF PlacesInv
  <1> HIDE DEF A, B
  <1>6. Cardinality(A) <= Cardinality(B)
    BY <1>3, <1>4, FS_Subset
  <1>7. Cardinality(B) + Cardinality(j.slots) <= Rules.limit
    BY DEF B
  <1>8. Cardinality(A) + Cardinality(j.slots) <= Rules.limit
    BY <1>4, <1>5, <1>6, <1>7
  <1> QED BY <1>8 DEF A, RoomInLimit

-----------------------------------------------------------------------------
(* What the steps of a session do to what it stands on. *)

Own(s) == Reads(job[s])' /\ Stands(pc[s], job[s], held[s])'
Relied == BookLabels \cup MoveLabels \cup CancelLabels
LEMMA NothingStood ==
  ASSUME NEW label, label \notin Relied, NEW j, NEW h
  PROVE  Stands(label, j, h) /\ Stands(label, j, h)'
  BY DEF Relied, BookLabels, MoveLabels, CancelLabels, Stands

LEMMA FinishOwn ==
  ASSUME HourlyInv, NEW s \in Sessions, Finish(s)
  PROVE  Own(s)
  <1>1. pc'[s] = "idle" /\ job'[s] = NoJob
    BY FinishShape DEF HourlyInv
  <1>2. NoJob.row = None /\ NoJob.rows = {} /\ NoJob.op = "none"
    BY DEF NoJob
  <1>3. Reads(job[s])'
    BY <1>1, <1>2 DEF Reads
  <1>4. "idle" \notin Relied
    BY DEF Relied, BookLabels, MoveLabels, CancelLabels
  <1> QED BY <1>1, <1>3, <1>4, NothingStood DEF Own

\* A request begins with what it has read and relies on nothing yet.
Starts(label, j) ==
  \/ label = "book_user" /\ j.op = "book"
  \/ label = "move_user" /\ j.op = "move"
  \/ label = "cancel_next" /\ j.op \notin {"book", "move"}
  \/ label \notin Relied
LEMMA BeginOwn ==
  ASSUME HourlyInv, PlacesInv, [Next]_vars, NEW s \in Sessions, NEW label,
         NEW j, IsJob(j), Begin(s, label, j), Reads(j), Starts(label, j)
  PROVE  Own(s)
  <1>1. pc'[s] = label /\ job'[s] = j
    BY BeginShape DEF HourlyInv
  <1>2. Reads(j)'
    BY ReadsStay
  <1>3. \A h : Stands(label, j, h)'
    BY NothingStood DEF Starts, Stands, BookLabels, MoveLabels, CancelLabels
  <1> QED BY <1>1, <1>2, <1>3 DEF Own

LEMMA BeginsPlain ==
  ASSUME RowsPlaced, NEW j, j.op \notin {"book", "move"},
         j.row # None => Exists(j.row), \A i \in j.rows : Exists(i)
  PROVE  Reads(j)
  BY DEF Reads

LEMMA MoveOwn ==
  ASSUME HourlyInv, PlacesInv, [Next]_vars, NEW s \in Sessions, NEW i \in Rows,
         NEW d \in Moves, MoveStart(s, i, d)
  PROVE  Own(s)
  <1> DEFINE q == [NoJob EXCEPT !.op = "move", !.user = row[i].user,
                     !.res = row[i].res, !.slots = {d},
                     !.party = row[i].party, !.row = i, !.at = now,
                     !.slot = row[i].slot, !.price = row[i].price]
  <1>a. ASSUME NEW j, j = q
        PROVE  /\ IsJob(j) /\ j.op = "move" /\ j.user = row[i].user
               /\ j.res = row[i].res /\ j.slots = {d} /\ j.party = row[i].party
               /\ j.row = i /\ j.slot = row[i].slot /\ j.rows = {}
    BY <1>a DEF NoJob, IsJob
  <1>b. Begin(s, "move_user", q)
    BY DEF MoveStart
  <1> HIDE DEF q
  <1>c. /\ IsJob(q) /\ q.op = "move" /\ q.user = row[i].user
        /\ q.res = row[i].res /\ q.slots = {d} /\ q.party = row[i].party
        /\ q.row = i /\ q.slot = row[i].slot /\ q.rows = {}
    BY ONLY <1>a
  <1>d. row[i].status # "none" /\ row[i].slot \in Slot
    BY DEF MoveStart, Open, PlacesInv, RowsPlaced
  <1>e. Exists(i)
    BY <1>d DEF Exists
  <1>f. Reads(q)
    BY <1>c, <1>d, <1>e DEF Reads
  <1>g. Starts("move_user", q)
    BY <1>c DEF Starts
  <1> QED BY <1>b, <1>c, <1>f, <1>g, BeginOwn

LEMMA BookOwn ==
  ASSUME HourlyInv, PlacesInv, [Next]_vars, NEW s \in Sessions, NEW u \in Users,
         NEW r \in Resources, NEW slots \in Requests, NEW party \in Parties,
         NEW key, BookStart(s, u, r, slots, party, key)
  PROVE  Own(s)
  <1> DEFINE q == [NoJob EXCEPT !.op = "book", !.user = u, !.res = r,
                     !.slots = slots, !.party = party, !.key = key, !.at = now]
  <1>a. ASSUME NEW j, j = q
        PROVE  /\ IsJob(j) /\ j.op = "book" /\ j.user = u /\ j.res = r
               /\ j.slots = slots /\ j.party = party /\ j.at = now
               /\ j.row = None /\ j.rows = {}
    BY <1>a DEF NoJob, IsJob
  <1>b. Begin(s, "book_user", q)
    BY DEF BookStart
  <1> HIDE DEF q
  <1>c. /\ IsJob(q) /\ q.op = "book" /\ q.user = u /\ q.res = r
        /\ q.slots = slots /\ q.party = party /\ q.at = now
        /\ q.row = None /\ q.rows = {}
    BY ONLY <1>a
  <1>d. now \in Nat /\ now <= now
    BY DEF HourlyInv, NumbersOK
  <1>f. Reads(q)
    BY <1>c, <1>d DEF Reads
  <1>g. Starts("book_user", q)
    BY <1>c DEF Starts
  <1> QED BY <1>b, <1>c, <1>f, <1>g, BeginOwn

\* The requests that only read a reservation, or some.
LEMMA PlainOwn ==
  ASSUME HourlyInv, PlacesInv, [Next]_vars, NEW s \in Sessions, NEW label,
         label \notin BookLabels \cup MoveLabels, NEW j,
         IsJob(j), Begin(s, label, j), j.op \notin {"book", "move"},
         j.row # None => Exists(j.row), \A i \in j.rows : Exists(i)
  PROVE  Own(s)
  <1>1. Reads(j)
    BY BeginsPlain DEF PlacesInv
  <1>2. label \in CancelLabels => \A h : Stands(label, j, h)'
    BY DEF CancelLabels, Stands, BookLabels, MoveLabels
  <1>3. pc'[s] = label /\ job'[s] = j
    BY BeginShape DEF HourlyInv
  <1>4. Reads(j)'
    BY <1>1, ReadsStay
  <1>5. \A h : Stands(label, j, h)'
    BY <1>2, NothingStood DEF Relied
  <1> QED BY <1>3, <1>4, <1>5 DEF Own

LEMMA RowOwn ==
  ASSUME HourlyInv, PlacesInv, [Next]_vars, NEW s \in Sessions,
         NEW i \in Rows, row[i].status # "none",
         NEW op \in {"confirm", "pay", "checkout", "webhook", "checkin", "complete"},
         NEW label \in {"confirm_commit", "pay_lookup", "hook_mark",
                        "checkin_commit", "complete_commit"}, NEW price, NEW q,
         \/ q = [NoJob EXCEPT !.op = op, !.row = i]
         \/ q = [NoJob EXCEPT !.op = op, !.row = i, !.price = price],
         Begin(s, label, q)
  PROVE  Own(s)
  <1>1. IsJob(q) /\ q.op = op /\ q.row = i /\ q.rows = {}
    BY DEF NoJob, IsJob
  <1>2. label \notin BookLabels \cup MoveLabels /\ op \notin {"book", "move"}
    BY DEF BookLabels, MoveLabels
  <1>3. Exists(i)
    BY DEF Exists
  <1> QED BY <1>1, <1>2, <1>3, PlainOwn

\* The requests that go through some reservations one by one.
LEMMA ListOwn ==
  ASSUME HourlyInv, PlacesInv, [Next]_vars, NEW s \in Sessions,
         NEW i, NEW rows, \A k \in rows : Exists(k), i # None => Exists(i),
         NEW op \in {"cancel", "series", "confirm", "pay", "expire"},
         NEW label \in {"cancel_next", "expire_one"}, NEW price, NEW seen, NEW q,
         \/ q = [NoJob EXCEPT !.op = op, !.rows = rows, !.seen = seen] /\ i = None
         \/ q = [NoJob EXCEPT !.op = op, !.rows = rows] /\ i = None
         \/ q = [NoJob EXCEPT !.op = op, !.row = i, !.rows = rows]
         \/ q = [NoJob EXCEPT !.op = op, !.row = i, !.price = price, !.rows = rows],
         Begin(s, label, q)
  PROVE  Own(s)
  <1>1. IsJob(q) /\ q.op = op /\ q.row = i /\ q.rows = rows
    BY DEF NoJob, IsJob
  <1>2. label \notin BookLabels \cup MoveLabels /\ op \notin {"book", "move"}
    BY DEF BookLabels, MoveLabels
  <1> QED BY <1>1, <1>2, PlainOwn

LEMMA StartOwn ==
  ASSUME HourlyInv, PlacesInv, [Next]_vars, NEW s \in Sessions, Start(s)
  PROVE  Own(s) \/ NoShowJob(s)
  <1>1. CASE \E u \in Users, r \in Resources, slots \in Requests, party \in Parties,
                key \in Keys \cup {None} : BookStart(s, u, r, slots, party, key)
    BY <1>1, BookOwn
  <1>2. ASSUME NEW i \in Rows, \E d \in Moves : MoveStart(s, i, d)
        PROVE  Own(s)
    BY <1>2, MoveOwn
  <1>3. ASSUME NEW i \in Rows, CancelRead(s, i)
        PROVE  Own(s)
    <2>1. \A k \in {i} : Exists(k)
      BY <1>3 DEF CancelRead, Open, Exists
    <2>2. Begin(s, "cancel_next", [NoJob EXCEPT !.op = "cancel", !.rows = {i},
                                                !.seen = Copies({i})])
      BY <1>3 DEF CancelRead
    <2> QED BY <2>1, <2>2, ListOwn
  <1>4. ASSUME NEW i \in Rows, NEW cutoff, SeriesRead(s, i, cutoff)
        PROVE  Own(s)
    <2> DEFINE rows == {k \in row[i].series :
                         /\ Open(k) /\ row[k].slot.start > now
                         /\ row[k].slot.start >= cutoff}
    <2>1. \A k \in rows : Exists(k)
      BY DEF Open, Exists, PlacesInv, RowsPlaced
    <2>2. Begin(s, "cancel_next", [NoJob EXCEPT !.op = "series", !.rows = rows,
                                                !.seen = Copies(rows)])
      BY <1>4 DEF SeriesRead
    <2> HIDE DEF rows
    <2> QED BY <2>1, <2>2, ListOwn
  <1>5. ASSUME NEW i \in Rows, ConfirmRead(s, i)
        PROVE  Own(s)
    <2> DEFINE q == [NoJob EXCEPT !.op = "confirm", !.row = i]
    <2>1. row[i].status # "none" /\ \A k \in {i} : Exists(k)
      BY <1>5 DEF ConfirmRead, DecideOrExpire, Exists
    <2>2. \/ Begin(s, "confirm_commit", q)
          \/ Begin(s, "expire_one", [NoJob EXCEPT !.op = "confirm", !.row = i,
                                                  !.rows = {i}])
      BY <1>5 DEF ConfirmRead, DecideOrExpire
    <2> HIDE DEF q
    <2>3. CASE Begin(s, "confirm_commit", q)
      BY <2>1, <2>3, RowOwn DEF q
    <2>4. CASE Begin(s, "expire_one", [NoJob EXCEPT !.op = "confirm", !.row = i,
                                                    !.rows = {i}])
      BY <2>1, <2>4, ListOwn
    <2> QED BY <2>2, <2>3, <2>4
  <1>6. ASSUME NEW i \in Rows, PayRead(s, i)
        PROVE  Own(s)
    <2> DEFINE q == [NoJob EXCEPT !.op = "pay", !.row = i, !.price = row[i].price]
    <2>1. row[i].status # "none" /\ \A k \in {i} : Exists(k)
      BY <1>6 DEF PayRead, DecideOrExpire, Exists
    <2>2. \/ Begin(s, "pay_lookup", q)
          \/ Begin(s, "expire_one", [NoJob EXCEPT !.op = "pay", !.row = i,
                                       !.price = row[i].price, !.rows = {i}])
      BY <1>6 DEF PayRead, DecideOrExpire
    <2> HIDE DEF q
    <2>3. CASE Begin(s, "pay_lookup", q)
      BY <2>1, <2>3, RowOwn DEF q
    <2>4. CASE Begin(s, "expire_one", [NoJob EXCEPT !.op = "pay", !.row = i,
                                         !.price = row[i].price, !.rows = {i}])
      BY <2>1, <2>4, ListOwn
    <2> QED BY <2>2, <2>3, <2>4
  <1>7. ASSUME NEW i \in Rows,
               CheckoutRead(s, i) \/ CheckInLock(s, i) \/ CompleteRead(s, i)
        PROVE  Own(s)
    <2>1. row[i].status # "none"
      BY <1>7 DEF CheckoutRead, CheckInLock, CompleteRead
    <2>2. CASE CheckoutRead(s, i)
      BY <2>1, <2>2, RowOwn DEF CheckoutRead
    <2>3. CASE CheckInLock(s, i)
      BY <2>1, <2>3, RowOwn DEF CheckInLock
    <2>4. CASE CompleteRead(s, i)
      BY <2>1, <2>4, RowOwn DEF CompleteRead
    <2> QED BY <1>7, <2>2, <2>3, <2>4
  <1>8. ASSUME NEW k \in Checkouts, HookRead(s, k)
        PROVE  Own(s)
    <2>1. PICK i \in Rows :
            /\ pay[i].session = k
            /\ Begin(s, "hook_mark", [NoJob EXCEPT !.op = "webhook", !.row = i])
      BY <1>8 DEF HookRead
    <2>2. row[i].status # "none"
      BY <2>1, NoneAssumption DEF PlacesInv, PaymentsOK
    <2> QED BY <2>1, <2>2, RowOwn
  <1>9. ASSUME ExpireScan(s)
        PROVE  Own(s)
    <2> DEFINE rows == {i \in Rows : row[i].status = "pending" /\ Elapsed(i)}
    <2>1. \A k \in rows : Exists(k)
      BY DEF Exists
    <2>2. Begin(s, "expire_one", [NoJob EXCEPT !.op = "expire", !.rows = rows])
      BY <1>9 DEF ExpireScan
    <2> HIDE DEF rows
    <2> QED BY <2>1, <2>2, ListOwn
  <1> QED BY <1>1, <1>2, <1>3, <1>4, <1>5, <1>6, <1>7, <1>8, <1>9 DEF Start

\* A request that goes on with the same reading.
SameReads(q, j) ==
  /\ q.op = j.op /\ q.user = j.user /\ q.res = j.res /\ q.slots = j.slots
  /\ q.party = j.party /\ q.row = j.row /\ q.rows = j.rows /\ q.at = j.at
  /\ q.slot = j.slot
LEMMA SameReadsStay ==
  ASSUME HourlyInv, PlacesInv, [Next]_vars, NEW s \in Sessions,
         SameReads(job'[s], job[s])
  PROVE  Reads(job[s])'
  <1>1. Reads(job[s])
    BY DEF PlacesInv
  <1>2. \A j, q : Reads(j)' /\ SameReads(q, j) => Reads(q)'
    BY DEF Reads, SameReads
  <1>3. \A j : Reads(j) => Reads(j)'
    BY ReadsStay
  <1> QED BY <1>1, <1>2, <1>3

LEMMA GoesOn ==
  ASSUME HourlyInv, PlacesInv, [Next]_vars, NEW s \in Sessions,
         NEW label, label \notin Relied, Goto(s, label),
         UNCHANGED job \/ \E a : job' = [job EXCEPT ![s].amount = a]
  PROVE  Own(s)
  <1>1. pc'[s] = label
    BY DEF Goto, HourlyInv, SessionsShape
  <1>2. SameReads(job'[s], job[s])
    BY DEF HourlyInv, SessionsShape, IsJob, SameReads
  <1> QED BY <1>1, <1>2, SameReadsStay, NothingStood DEF Own

LEMMA FewerReads ==
  ASSUME HourlyInv, PlacesInv, [Next]_vars, NEW j, NEW q, Reads(j),
         q.op = j.op, j.op \notin {"book", "move"},
         q.row = j.row \/ q.row \in j.rows, q.rows \subseteq j.rows
  PROVE  Reads(q)'
  <1>1. Reads(j)'
    BY ReadsStay
  <1>2. (j.row # None => Exists(j.row)') /\ \A i \in j.rows : Exists(i)'
    BY <1>1 DEF Reads
  <1>3. q.row # None => Exists(q.row)'
    BY <1>2
  <1>4. \A i \in q.rows : Exists(i)'
    BY <1>2
  <1> QED BY <1>3, <1>4 DEF Reads

\* Cancelling goes on with fewer reservations, or with one of them.
LEMMA RestOwn ==
  ASSUME HourlyInv, PlacesInv, [Next]_vars, NEW s \in Sessions,
         pc[s] \in CancelLabels, NEW rows \in SUBSET job[s].rows,
         CancelRest(s, rows)
  PROVE  Own(s)
  <1>1. CASE Finish(s)
    BY <1>1, FinishOwn
  <1>2. CASE /\ job' = [job EXCEPT ![s].rows = rows]
             /\ Goto(s, "cancel_next") /\ UNCHANGED held
    <2>1. /\ pc'[s] = "cancel_next" /\ job'[s].row = job[s].row
          /\ job'[s].rows = rows /\ job'[s].op = job[s].op
      BY <1>2 DEF Goto, HourlyInv, SessionsShape, IsJob
    <2>2. Reads(job[s]) /\ Stands(pc[s], job[s], held[s])
      BY DEF PlacesInv
    <2>3. job[s].op \notin {"book", "move"}
      BY <2>2 DEF Stands
    <2>4. Reads(job[s])'
      BY <2>1, <2>2, <2>3, FewerReads
    <2>5. Stands(pc[s], job[s], held[s])'
      BY <2>1, <2>3 DEF Stands, BookLabels, MoveLabels
    <2> QED BY <2>4, <2>5 DEF Own
  <1> QED BY <1>1, <1>2 DEF CancelRest

LEMMA CancelNextOwn ==
  ASSUME HourlyInv, PlacesInv, [Next]_vars, NEW s \in Sessions, CancelNext(s)
  PROVE  Own(s)
  <1>1. PICK i \in job[s].rows :
          \/ CancelRest(s, job[s].rows \ {i})
          \/ /\ job' = [job EXCEPT ![s].row = i,
                            ![s].refund = RefundOf(i, job[s].seen[i])]
             /\ Goto(s, "cancel_commit") /\ UNCHANGED held
    BY DEF CancelNext
  <1>l. pc[s] \in CancelLabels
    BY DEF CancelNext, CancelLabels
  <1>2. CASE CancelRest(s, job[s].rows \ {i})
    BY <1>l, <1>2, RestOwn
  <1>3. CASE /\ job' = [job EXCEPT ![s].row = i,
                           ![s].refund = RefundOf(i, job[s].seen[i])]
             /\ Goto(s, "cancel_commit") /\ UNCHANGED held
    <2> DEFINE f == RefundOf(i, job[s].seen[i])
               x == WithRefund(job[s], i, f)
    <2>1. job' = [job EXCEPT ![s] = x]
      BY <1>3 DEF WithRefund
    <2>2. x.row = i /\ x.rows = job[s].rows /\ x.op = job[s].op
      <3>1. ASSUME NEW j, IsJob(j), NEW a, NEW b, NEW q, q = WithRefund(j, a, b)
            PROVE  q.row = a /\ q.rows = j.rows /\ q.op = j.op
        BY <3>1 DEF IsJob, WithRefund
      <3> QED BY <3>1 DEF HourlyInv, SessionsShape
    <2> HIDE DEF x
    <2>3. /\ pc'[s] = "cancel_commit" /\ job'[s].row = i
          /\ job'[s].rows = job[s].rows /\ job'[s].op = job[s].op
      BY <1>3, <2>1, <2>2 DEF Goto, HourlyInv, SessionsShape
    <2>4. Reads(job[s]) /\ Stands(pc[s], job[s], held[s])
      BY DEF PlacesInv
    <2>5. job[s].op \notin {"book", "move"}
      BY <1>l, <2>4 DEF Stands
    <2>6. Reads(job[s])'
      BY <2>3, <2>4, <2>5, FewerReads
    <2>7. Stands(pc[s], job[s], held[s])'
      BY <2>3, <2>5 DEF Stands, BookLabels, MoveLabels
    <2> QED BY <2>6, <2>7 DEF Own
  <1> QED BY <1>1, <1>2, <1>3

\* A list that gets shorter keeps what else has been read.
LEMMA RowsGone ==
  ASSUME NEW j, IsJob(j), NEW rows, NEW q, q = WithRows(j, rows)
  PROVE  /\ q.op = j.op /\ q.user = j.user /\ q.res = j.res /\ q.slots = j.slots
         /\ q.party = j.party /\ q.row = j.row /\ q.rows = rows /\ q.at = j.at
         /\ q.slot = j.slot
  BY DEF IsJob, WithRows

LEMMA ExpireOwn ==
  ASSUME HourlyInv, PlacesInv, [Next]_vars, NEW s \in Sessions, ExpireOne(s)
  PROVE  Own(s)
  <1>1. CASE Finish(s)
    BY <1>1, FinishOwn
  <1>2. ASSUME NEW i, job' = [job EXCEPT ![s].rows = @ \ {i}],
               UNCHANGED <<pc, held>>
        PROVE  Own(s)
    <2> DEFINE j == job[s]
               q == WithRows(j, j.rows \ {i})
    <2>1. job'[s] = q
      BY <1>2 DEF WithRows, HourlyInv, SessionsShape
    <2>2. /\ q.op = j.op /\ q.user = j.user /\ q.res = j.res /\ q.slots = j.slots
          /\ q.party = j.party /\ q.row = j.row /\ q.rows = j.rows \ {i}
          /\ q.at = j.at /\ q.slot = j.slot
      BY RowsGone DEF HourlyInv, SessionsShape
    <2>3. \A k : Reads(k) => Reads(k)'
      BY ReadsStay
    <2>4. Reads(j)
      BY DEF PlacesInv
    <2> SUFFICES ASSUME NEW a, a = j, NEW b, b = q
                 PROVE  Own(s)
      OBVIOUS
    <2>5. /\ Reads(a)' /\ b.op = a.op /\ b.user = a.user /\ b.res = a.res
          /\ b.slots = a.slots /\ b.party = a.party /\ b.row = a.row
          /\ b.rows \subseteq a.rows /\ b.at = a.at /\ b.slot = a.slot
          /\ job'[s] = b
      BY <2>1, <2>2, <2>3, <2>4
    <2> HIDE DEF j, q
    <2>6. (a.row # None => Exists(a.row)') /\ \A k \in a.rows : Exists(k)'
      BY <2>5 DEF Reads
    <2>7. (b.row # None => Exists(b.row)') /\ \A k \in b.rows : Exists(k)'
      BY <2>5, <2>6
    <2>8. Reads(b)'
      BY <2>5, <2>7 DEF Reads
    <2>9. pc'[s] = "expire_one" /\ "expire_one" \notin Relied
      BY <1>2 DEF ExpireOne, Relied, BookLabels, MoveLabels, CancelLabels
    <2> QED BY <2>5, <2>8, <2>9, NothingStood DEF Own
  <1> QED BY <1>1, <1>2 DEF ExpireOne

\* Taking the locks.
LEMMA BookUserOwn ==
  ASSUME HourlyInv, PlacesInv, [Next]_vars, NEW s \in Sessions, BookLockUser(s)
  PROVE  Own(s)
  <1> SUFFICES ASSUME NEW j, j = job[s]
               PROVE  Own(s)
    OBVIOUS
  <1>1. CASE Finish(s)
    BY <1>1, FinishOwn
  <1>2. CASE /\ Cardinality(ActiveOf(j.user, j.at)) + Cardinality(j.slots)
                  <= Rules.limit
             /\ held' = [held EXCEPT ![s].user = j.user]
             /\ job' = [job EXCEPT ![s].hold = now + Hold]
             /\ Goto(s, "book_resource")
    <2>1. /\ SameReads(job'[s], j) /\ pc'[s] = "book_resource"
          /\ held'[s].user = j.user
      BY <1>2 DEF Goto, HourlyInv, SessionsShape, IsJob, IsLocks, SameReads
    <2>2. UNCHANGED row /\ pc[s] = "book_user"
      BY DEF BookLockUser, tables
    <2>3. Reads(j) /\ j.op = "book"
      BY <2>2 DEF PlacesInv, Stands, BookLabels
    <2>4. RoomInLimit(j)
      BY <1>2, <2>3, LimitFits
    <2>5. RoomInLimit(j)'
      <3>1. IsFiniteSet(j.slots)
        BY <2>3, ReadsMeans DEF PlacesInv
      <3>2. \A i \in Rows : KeepsPlace(i)
        BY <2>2 DEF KeepsPlace
      <3> QED BY <2>4, <3>1, <3>2, LimitStays
    <2>6. RoomInLimit(job[s])'
      BY <2>1, <2>5 DEF RoomInLimit, SameReads
    <2>7. Stands(pc[s], job[s], held[s])'
      BY <2>1, <2>3, <2>6 DEF Stands, BookLabels, MoveLabels, CancelLabels, SameReads
    <2> QED BY <2>1, <2>7, SameReadsStay DEF Own
  <1> QED BY <1>1, <1>2 DEF BookLockUser

LEMMA BookResourceOwn ==
  ASSUME HourlyInv, PlacesInv, [Next]_vars, NEW s \in Sessions, BookLockResource(s)
  PROVE  Own(s)
  <1> SUFFICES ASSUME NEW j, j = job[s]
               PROVE  Own(s)
    OBVIOUS
  <1>1. CASE Finish(s)
    BY <1>1, FinishOwn
  <1>2. CASE /\ Fits(j.res, j.slots, j.party, {})
             /\ held' = [held EXCEPT ![s].res = j.res]
             /\ Goto(s, "book_insert") /\ UNCHANGED job
    <2>1. /\ job'[s] = j /\ pc'[s] = "book_insert"
          /\ held'[s].res = j.res /\ held'[s].user = held[s].user
      BY <1>2 DEF Goto, HourlyInv, SessionsShape, IsLocks
    <2>2. UNCHANGED row /\ pc[s] = "book_resource"
      BY DEF BookLockResource, tables
    <2>3. Reads(j) /\ j.op = "book" /\ held[s].user = j.user /\ RoomInLimit(j)
      BY <2>2 DEF PlacesInv, Stands, BookLabels
    <2>4. RoomToBook(j)
      BY <1>2, <2>3, BookFits
    <2>5. j.res \in Resources /\ j.party \in Nat /\ IsFiniteSet(j.slots)
      BY <2>3, ReadsMeans DEF PlacesInv
    <2>6. \A i \in Rows : KeepsPlace(i)
      BY <2>2 DEF KeepsPlace
    <2>7. RoomInLimit(j)' /\ RoomToBook(j)'
      BY <2>3, <2>4, <2>5, <2>6, LimitStays, RoomStays
    <2>8. RoomInLimit(job[s])' /\ RoomToBook(job[s])'
      BY <2>1, <2>7
    <2>9. Stands(pc[s], job[s], held[s])'
      BY <2>1, <2>3, <2>8 DEF Stands, BookLabels, MoveLabels, CancelLabels
    <2>10. Reads(job[s])'
      BY <2>1, <2>3, ReadsStay
    <2> QED BY <2>9, <2>10 DEF Own
  <1> QED BY <1>1, <1>2 DEF BookLockResource

LEMMA MoveLocksOwn ==
  ASSUME HourlyInv, PlacesInv, [Next]_vars, NEW s \in Sessions,
         MoveLockUser(s) \/ MovePrice(s)
  PROVE  Own(s)
  <1> SUFFICES ASSUME NEW j, j = job[s]
               PROVE  Own(s)
    OBVIOUS
  <1>1. CASE Finish(s)
    BY <1>1, FinishOwn
  <1>2. ASSUME NEW label \in {"move_price", "move_resource"}, Goto(s, label),
               UNCHANGED job, held'[s].user = j.user, j.op = "move"
        PROVE  Own(s)
    <2>1. job'[s] = j /\ pc'[s] = label
      BY <1>2 DEF Goto, HourlyInv, SessionsShape
    <2>2. Stands(pc[s], job[s], held[s])'
      BY <1>2, <2>1 DEF Stands, BookLabels, MoveLabels, CancelLabels
    <2>3. Reads(job[s])'
      <3>1. Reads(j)
        BY DEF PlacesInv
      <3> QED BY <2>1, <3>1, ReadsStay
    <2> QED BY <2>2, <2>3 DEF Own
  <1>3. /\ j.op = "move"
        /\ pc[s] = "move_price" => held[s].user = j.user
    BY DEF MoveLockUser, MovePrice, PlacesInv, Stands, MoveLabels
  <1>4. CASE MoveLockUser(s) /\ ~Finish(s)
    <2>1. /\ UNCHANGED job /\ held' = [held EXCEPT ![s].user = j.user]
          /\ Goto(s, "move_price") \/ Goto(s, "move_resource")
      BY <1>4 DEF MoveLockUser
    <2>2. held'[s].user = j.user
      BY <2>1 DEF HourlyInv, SessionsShape, IsLocks
    <2> QED BY <1>2, <1>3, <2>1, <2>2
  <1>5. CASE MovePrice(s)
    <2>1. /\ UNCHANGED job /\ held' = [held EXCEPT ![s].row = j.row]
          /\ Goto(s, "move_resource") /\ pc[s] = "move_price"
      BY <1>5 DEF MovePrice
    <2>2. held'[s].user = held[s].user
      BY <2>1 DEF HourlyInv, SessionsShape, IsLocks
    <2> QED BY <1>2, <1>3, <2>1, <2>2
  <1> QED BY <1>1, <1>4, <1>5

LEMMA MoveResourceOwn ==
  ASSUME HourlyInv, PlacesInv, [Next]_vars, NEW s \in Sessions, MoveLockResource(s)
  PROVE  Own(s)
  <1> SUFFICES ASSUME NEW j, j = job[s]
               PROVE  Own(s)
    OBVIOUS
  <1>1. CASE Finish(s)
    BY <1>1, FinishOwn
  <1>2. CASE /\ Fits(j.res, j.slots, j.party, {j.row})
             /\ held' = [held EXCEPT ![s].res = j.res]
             /\ Goto(s, "move_commit") /\ UNCHANGED job
    <2>1. /\ job'[s] = j /\ pc'[s] = "move_commit"
          /\ held'[s].res = j.res /\ held'[s].user = held[s].user
      BY <1>2 DEF Goto, HourlyInv, SessionsShape, IsLocks
    <2>2. UNCHANGED row /\ pc[s] = "move_resource"
      BY DEF MoveLockResource, tables
    <2>3. Reads(j) /\ j.op = "move" /\ held[s].user = j.user
      BY <2>2 DEF PlacesInv, Stands, MoveLabels
    <2>4. RoomToMove(j)
      BY <1>2, <2>3, MoveFits
    <2>5. j.res \in Resources /\ j.party \in Nat /\ IsFiniteSet(j.slots)
      BY <2>3, ReadsMeans DEF PlacesInv
    <2>6. \A i \in Rows : KeepsPlace(i)
      BY <2>2 DEF KeepsPlace
    <2>7. RoomToMove(j)'
      BY <2>4, <2>5, <2>6, RoomStays
    <2>8. RoomToMove(job[s])'
      BY <2>1, <2>7
    <2>9. Stands(pc[s], job[s], held[s])'
      BY <2>1, <2>3, <2>8 DEF Stands, BookLabels, MoveLabels, CancelLabels
    <2>10. Reads(job[s])'
      BY <2>1, <2>3, ReadsStay
    <2> QED BY <2>9, <2>10 DEF Own
  <1> QED BY <1>1, <1>2 DEF MoveLockResource

LEMMA ContinueOwn ==
  ASSUME HourlyInv, PlacesInv, [Next]_vars, NEW s \in Sessions,
         Continue(s) \/ Abort(s)
  PROVE  Own(s)
  <1>1. \/ Finish(s)
        \/ BookLockUser(s) \/ BookLockResource(s)
        \/ MoveLockUser(s) \/ MovePrice(s) \/ MoveLockResource(s)
        \/ CancelNext(s) \/ CancelCommit(s) \/ ExpireOne(s)
        \/ PayLookup(s) \/ PayCreate(s) \/ PayMark(s) \/ HookMark(s)
        \/ HookReadRow(s)
    BY DEF Continue, Abort, BookInsert, MoveCommit, ConfirmCommit, CheckoutSave,
           CheckInCommit, CompleteCommit
  <1>2. ASSUME CancelCommit(s)
        PROVE  Own(s)
    BY <1>2, RestOwn DEF CancelCommit, CancelLabels
  <1>3. ASSUME PayLookup(s) \/ PayCreate(s) \/ PayMark(s) \/ HookMark(s)
               \/ HookReadRow(s)
        PROVE  Own(s)
    <2>1. \/ Finish(s)
          \/ \E label \in {"pay_create", "pay_mark", "checkout_save",
                           "confirm_commit", "hook_read"} :
               /\ Goto(s, label)
               /\ UNCHANGED job \/ \E a : job' = [job EXCEPT ![s].amount = a]
      BY <1>3 DEF PayLookup, PayCreate, PayMark, HookMark, HookReadRow, Charge
    <2>2. \A label \in {"pay_create", "pay_mark", "checkout_save",
                        "confirm_commit", "hook_read"} : label \notin Relied
      BY DEF Relied, BookLabels, MoveLabels, CancelLabels
    <2> QED BY <2>1, <2>2, FinishOwn, GoesOn
  <1> QED BY <1>1, <1>2, <1>3, FinishOwn, BookUserOwn, BookResourceOwn,
             MoveLocksOwn, MoveResourceOwn, CancelNextOwn, ExpireOwn

-----------------------------------------------------------------------------
(* The locks of the resources, and the payments. *)

\* A step that takes a resource finds it free; the others keep it or let it go.
FreshResource(s) ==
  \/ held'[s].res \in {held[s].res, None}
  \/ \A t \in Sessions \ {s} : held[t].res # held'[s].res

LEMMA StartResource ==
  ASSUME HourlyInv, NEW s \in Sessions, Start(s)
  PROVE  FreshResource(s)
  <1>1. UNCHANGED held \/ \E i \in Rows : held' = [held EXCEPT ![s].row = i]
    BY DEF Start, BookStart, MoveStart, CancelRead, SeriesRead, ConfirmRead,
           PayRead, DecideOrExpire, CheckoutRead, CheckInLock, CompleteRead,
           HookRead, ExpireScan, NoShowJob
  <1> QED BY <1>1 DEF HourlyInv, SessionsShape, IsLocks, FreshResource

LEMMA ContinueResource ==
  ASSUME HourlyInv, NEW s \in Sessions, Continue(s) \/ Abort(s)
  PROVE  FreshResource(s)
  <1>1. \/ Finish(s)
        \/ UNCHANGED held
        \/ \E u : held' = [held EXCEPT ![s].user = u]
        \/ \E i : held' = [held EXCEPT ![s].row = i]
        \/ \E r : ResourceFree(s, r) /\ held' = [held EXCEPT ![s].res = r]
    <2>1. CASE BookLockUser(s) \/ BookLockResource(s) \/ BookInsert(s)
      BY <2>1 DEF BookLockUser, BookLockResource, BookInsert
    <2>2. CASE MoveLockUser(s) \/ MovePrice(s) \/ MoveLockResource(s) \/ MoveCommit(s)
      BY <2>2 DEF MoveLockUser, MovePrice, MoveLockResource, MoveCommit
    <2>3. CASE CancelNext(s) \/ CancelCommit(s)
      BY <2>3 DEF CancelNext, CancelCommit, CancelRest
    <2>4. CASE \/ ConfirmCommit(s) \/ PayLookup(s) \/ PayCreate(s) \/ PayMark(s)
               \/ CheckoutSave(s) \/ HookMark(s) \/ HookReadRow(s)
      BY <2>4 DEF ConfirmCommit, PayLookup, PayCreate, PayMark, CheckoutSave,
                  HookMark, HookReadRow
    <2>5. CASE ExpireOne(s) \/ CheckInCommit(s) \/ CompleteCommit(s) \/ Abort(s)
      BY <2>5 DEF ExpireOne, CheckInCommit, CompleteCommit, Abort
    <2> QED BY <2>1, <2>2, <2>3, <2>4, <2>5 DEF Continue
  <1>2. CASE Finish(s)
    BY <1>2, FinishShape DEF HourlyInv, NoLocks, FreshResource
  <1> QED BY <1>1, <1>2 DEF HourlyInv, SessionsShape, IsLocks, ResourceFree,
                            FreshResource

LEMMA ResourceLocksStep ==
  ASSUME HourlyInv, PlacesInv, [Next]_vars
  PROVE  ResourceLocksOK'
  <1>1. CASE UNCHANGED held
    BY <1>1 DEF PlacesInv, ResourceLocksOK
  <1>2. ASSUME NEW s \in Sessions, Start(s) \/ Continue(s) \/ Abort(s),
               held' # held
        PROVE  ResourceLocksOK'
    <2>1. Turn(s)
      BY <1>2, StartTurn, ContinueTurn, ClockStep DEF NoShowJob
    <2>2. FreshResource(s)
      BY <1>2, StartResource, ContinueResource
    <2>3. ResourceLocksOK
      BY DEF PlacesInv
    <2> QED BY <2>1, <2>2, <2>3 DEF Turn, Kept, FreshResource, ResourceLocksOK
  <1> QED BY <1>1, <1>2, Steps DEF Tick

\* Of a payment one column is written, or two.
Paid(p, a, b) == [p EXCEPT !.status = a, !.amount = b]
Settled(p, a) == [p EXCEPT !.status = a]
Saved(p, k) == [p EXCEPT !.session = k]
LEMMA PaymentColumns ==
  ASSUME NEW p, IsPayment(p), NEW a, NEW b, NEW k
  PROVE  /\ IsPayment(Paid(p, a, b)) /\ Paid(p, a, b).session = p.session
         /\ IsPayment(Settled(p, a)) /\ Settled(p, a).session = p.session
         /\ IsPayment(Saved(p, k)) /\ Saved(p, k).session = k
  <1>3. ASSUME NEW q, q = Settled(p, a)
        PROVE  IsPayment(q) /\ q.session = p.session
    BY <1>3 DEF IsPayment, Settled
  <1>1. ASSUME NEW q, q = Paid(p, a, b)
        PROVE  IsPayment(q) /\ q.session = p.session
    BY <1>1 DEF IsPayment, Paid
  <1>2. ASSUME NEW q, q = Saved(p, k)
        PROVE  IsPayment(q) /\ q.session = k
    BY <1>2 DEF IsPayment, Saved
  <1> QED BY <1>1, <1>2, <1>3

\* What is done to the payments: one is replaced.
LEMMA OnePayment ==
  ASSUME HourlyInv, PlacesInv, [Next]_vars, NEW i, NEW q,
         pay' = [pay EXCEPT ![i] = q],
         i \in Rows => /\ IsPayment(q)
                       /\ q.session \in {pay[i].session, None} \/ row[i].status # "none"
  PROVE  PaymentsOK'
  <1>1. \A k \in Rows : row[k].status # "none" => row'[k].status # "none"
    BY RowsLast DEF Lasts
  <1>2. PaymentsOK
    BY DEF PlacesInv
  <1> QED BY <1>1, <1>2 DEF PaymentsOK

LEMMA PaymentsStep ==
  ASSUME HourlyInv, PlacesInv, [Next]_vars
  PROVE  PaymentsOK'
  <1>1. CASE UNCHANGED pay
    <2>1. \A k \in Rows : row[k].status # "none" => row'[k].status # "none"
      BY RowsLast DEF Lasts
    <2> QED BY <1>1, <2>1 DEF PlacesInv, PaymentsOK
  <1>2. ASSUME NEW s \in Sessions, Start(s) \/ Continue(s) \/ Abort(s),
               pay' # pay
        PROVE  PaymentsOK'
    <2> DEFINE i == job[s].row
               p == pay[i]
    <2>1. \/ \E a : pay' = [pay EXCEPT ![i].status = a]
          \/ \E a, b : pay' = [pay EXCEPT ![i].status = a, ![i].amount = b]
          \/ \E k : pay' = [pay EXCEPT ![i].session = k]
          \/ \E b : pay' = [pay EXCEPT ![i] = [status |-> "pending", amount |-> b,
                                               session |-> None]]
      <3>1. ~Start(s) /\ ~Abort(s)
        BY <1>2 DEF tables, Start, Abort, BookStart, MoveStart, CancelRead,
             SeriesRead, ConfirmRead, PayRead, DecideOrExpire, CheckoutRead,
             CheckInLock, CompleteRead, HookRead, ExpireScan, NoShowJob
      <3>2. \/ CancelCommit(s) \/ PayCreate(s) \/ PayMark(s) \/ CheckoutSave(s)
            \/ HookMark(s)
        BY <1>2, <3>1 DEF tables, Continue, BookLockUser, BookLockResource,
             BookInsert, MoveLockUser, MovePrice, MoveLockResource, MoveCommit,
             CancelNext, ConfirmCommit, PayLookup, HookReadRow, ExpireOne,
             CheckInCommit, CompleteCommit
      <3>3. CASE CancelCommit(s)
        BY <3>3 DEF CancelCommit
      <3>4. CASE PayCreate(s)
        BY <1>2, <3>4 DEF PayCreate
      <3>5. CASE PayMark(s)
        BY <3>5 DEF PayMark
      <3>6. CASE CheckoutSave(s)
        BY <3>6 DEF CheckoutSave
      <3>7. CASE HookMark(s)
        BY <3>7 DEF HookMark
      <3> QED BY <3>2, <3>3, <3>4, <3>5, <3>6, <3>7
    <2>2. /\ i \in Rows => IsPayment(p) /\ row[i].status # "none"
      BY NoneAssumption DEF PlacesInv, PaymentsOK, Reads, Exists
    <2>3. \E q : /\ pay' = [pay EXCEPT ![i] = q]
                 /\ i \in Rows => IsPayment(q)
      <3>1. CASE \E a : pay' = [pay EXCEPT ![i].status = a]
        <4>1. PICK a : pay' = [pay EXCEPT ![i] = Settled(p, a)]
          BY <3>1 DEF Settled
        <4>2. i \in Rows => IsPayment(Settled(p, a))
          BY <2>2, PaymentColumns
        <4> QED BY <4>1, <4>2
      <3>2. CASE \E a, b : pay' = [pay EXCEPT ![i].status = a, ![i].amount = b]
        <4>1. PICK a, b : pay' = [pay EXCEPT ![i] = Paid(p, a, b)]
          BY <3>2 DEF Paid
        <4>2. i \in Rows => IsPayment(Paid(p, a, b))
          BY <2>2, PaymentColumns
        <4> QED BY <4>1, <4>2
      <3>3. CASE \E k : pay' = [pay EXCEPT ![i].session = k]
        <4>1. PICK k : pay' = [pay EXCEPT ![i] = Saved(p, k)]
          BY <3>3 DEF Saved
        <4>2. i \in Rows => IsPayment(Saved(p, k))
          BY <2>2, PaymentColumns
        <4> QED BY <4>1, <4>2
      <3>4. CASE \E b : pay' = [pay EXCEPT ![i] = [status |-> "pending",
                                         amount |-> b, session |-> None]]
        BY <3>4 DEF IsPayment
      <3> QED BY <2>1, <3>1, <3>2, <3>3, <3>4
    <2> QED BY <2>2, <2>3, OnePayment
  <1> QED BY <1>1, <1>2, Steps DEF Tick, tables

-----------------------------------------------------------------------------
(* The invariant holds. *)

LEMMA PlacesInitially ==
  ASSUME Init
  PROVE  PlacesInv
  <1>1. /\ revived = {} /\ mixed = {}
        /\ \A i \in Rows : row[i] = NoRow
        /\ \A i \in Rows : pay[i] = NoPayment
        /\ pay = [i \in Rows |-> pay[i]]
        /\ \A s \in Sessions : pc[s] = "idle" /\ job[s] = NoJob /\ held[s] = NoLocks
    BY DEF Init
  <1>2. /\ NoRow.status = "none" /\ NoRow.user = None /\ NoRow.series = {}
        /\ IsPayment(NoPayment) /\ NoPayment.session = None
        /\ NoJob.op = "none" /\ NoJob.row = None /\ NoJob.rows = {}
        /\ NoLocks.res = None
    BY DEF NoRow, NoPayment, NoJob, NoLocks, IsPayment
  <1>3. RowsPlaced
    BY <1>1, <1>2 DEF RowsPlaced
  <1>4. PaymentsOK /\ ResourceLocksOK
    BY <1>1, <1>2 DEF PaymentsOK, ResourceLocksOK
  <1>5. RoomOK
    <2> SUFFICES ASSUME NEW r \in Resources, NEW t \in Nat
                 PROVE  Load(Holders(r, revived), t) <= Capacity[r]
      BY DEF RoomOK
    <2>1. Holders(r, revived) = {}
      BY <1>1, <1>2 DEF Holders, Active, ActiveAt
    <2>2. Present(Holders(r, revived), t) = {}
      BY <2>1 DEF Present
    <2>3. Load(Holders(r, revived), t) = 0
      BY <2>2, LoadIs, NoPeople
    <2> QED BY <2>3, CapacityAssumption
  <1>6. ASSUME NEW s \in Sessions
        PROVE  Reads(job[s]) /\ Stands(pc[s], job[s], held[s])
    BY <1>1, <1>2, NothingStood DEF Reads, Relied, BookLabels, MoveLabels,
       CancelLabels
  <1> QED BY <1>3, <1>4, <1>5, <1>6 DEF PlacesInv

LEMMA PlacesInductive ==
  ASSUME HourlyInv, PlacesInv, [Next]_vars
  PROVE  PlacesInv'
  <1>1. RowsPlaced' /\ PaymentsOK' /\ ResourceLocksOK' /\ RoomOK'
    BY RowsPlacedStep, PaymentsStep, ResourceLocksStep, RoomStep
  <1>2. ASSUME NEW t \in Sessions, pc'[t] = pc[t], job'[t] = job[t],
               held'[t] = held[t]
        PROVE  Own(t)
    BY <1>2, OthersStand DEF Own
  <1>3. \A t \in Sessions : Own(t)
    <2>1. CASE UNCHANGED <<pc, job, held>>
      BY <1>2, <2>1
    <2>2. ASSUME NEW s \in Sessions, Start(s) \/ Continue(s) \/ Abort(s),
                 ~UNCHANGED <<pc, job, held>>
          PROVE  \A t \in Sessions : Own(t)
      <3>1. Turn(s) /\ Own(s)
        BY <2>2, StartTurn, ContinueTurn, ClockStep, StartOwn, ContinueOwn
           DEF NoShowJob
      <3> QED BY <1>2, <3>1 DEF Turn, Kept
    <2> QED BY <2>1, <2>2, Steps DEF Tick
  <1> QED BY <1>1, <1>3 DEF PlacesInv, Own

LEMMA PlacesInvariance == Spec => [](HourlyInv /\ PlacesInv)
  <1>1. Init => HourlyInv /\ PlacesInv
    BY Initially, PlacesInitially
  <1>2. HourlyInv /\ PlacesInv /\ [Next]_vars => (HourlyInv /\ PlacesInv)'
    BY Inductive, PlacesInductive
  <1> QED BY <1>1, <1>2, PTL DEF Spec

-----------------------------------------------------------------------------
(* What follows. *)

\* The sweep over sorted arrivals and departures finds the largest number of
\* people present at any instant of a slot, whatever reservations hold places,
\* as long as each of them begins before it ends (_peak_occupancy).
THEOREM PeakIsHighestAlways == Spec => []PeakIsHighest
  <1>1. HourlyInv /\ PlacesInv => PeakIsHighest
    <2> SUFFICES ASSUME PlacesInv, NEW r \in Resources,
                        NEW d \in (UNION Requests) \cup Moves,
                        \A h \in Holders(r, {}) : h.slot.start < h.slot.end
                 PROVE  Peak(Holders(r, {}), d)
                          = Max({Load(Holders(r, {}), t) : t \in Instants(d)})
      BY DEF PeakIsHighest
    <2>1. d \in Slot /\ d.start < d.end
      BY SlotsAssumption
    <2>2. Sound(Holders(r, {}))
      BY HoldersCounted DEF PlacesInv, Sound
    <2> QED BY <2>1, <2>2, PeakOfRows
  <1> QED BY <1>1, PlacesInvariance, PTL

\* No resource is ever overbooked: bookings, series and reschedulings check the
\* capacity under the lock of the resource, against a count that nothing else
\* can raise before they commit, for any capacity, any party sizes and any
\* number of concurrent requests (create_with_conflict_lock and its siblings).
\* The exceptions are those that CapacityKept names.
THEOREM CapacityKeptAlways == Spec => []CapacityKept
  <1>1. HourlyInv /\ PlacesInv => CapacityKept
    <2> SUFFICES ASSUME PlacesInv, NEW r \in Resources,
                        NEW d \in (UNION Requests) \cup Moves,
                        NEW t \in Instants(d), Unmixed(r)
                 PROVE  Load(Holders(r, revived), t) <= Capacity[r]
      BY DEF CapacityKept, Unmixed
    <2>1. d.start \in Nat /\ d.end \in Nat
      BY SlotsAssumption DEF Slot
    <2>2. t \in Nat
      BY <2>1 DEF Instants
    <2> QED BY <2>2 DEF PlacesInv, RoomOK
  <1> QED BY <1>1, PlacesInvariance, PTL

\* No booking takes a customer past the limit of active reservations, although
\* the limit is checked in an earlier step than the one that inserts: the lock
\* of the customer's row is held in between (_validate_booking_rules).
THEOREM LimitKeptAlways == Spec => LimitKept
  <1>1. HourlyInv /\ PlacesInv /\ [Next]_vars => LimitStep
    <2> SUFFICES ASSUME HourlyInv, PlacesInv, [Next]_vars, NEW u \in Users,
                        NEW i \in Rows, row[i].status = "none", row'[i].user = u
                 PROVE  Cardinality(ActiveOf(u, now)' \ revived') <= Rules.limit
      BY DEF LimitStep
    <2>1. row[i].user = None /\ u # None
      BY NoneAssumption DEF PlacesInv, RowsPlaced
    <2>2. ~KeepsPlace(i)
      BY <2>1 DEF KeepsPlace, SamePlace
    <2>3. \A s \in Sessions : ~MoveCommit(s)
      <3>1. ASSUME NEW s \in Sessions, MoveCommit(s)
            PROVE  row'[i].user = row[i].user
        BY <3>1, MoveKnown DEF MovedRow
      <3> QED BY <2>1, <3>1
    <2>4. PICK s \in Sessions : BookInsert(s)
      BY <2>2, <2>3, PlacesStep
    <2>5. job[s].user = u
      BY <2>1, <2>4, BookPlaces DEF BookedRow
    <2> QED BY <2>4, <2>5, LimitAfterBooking
  <1> QED BY <1>1, PlacesInvariance, PTL DEF LimitKept, Spec
=============================================================================
