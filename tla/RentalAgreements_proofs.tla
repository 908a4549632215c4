---------------------- MODULE RentalAgreements_proofs -----------------------
(***************************************************************************)
(* No venue is let twice for a month, for any number of venues, listings,   *)
(* inquiries, agreements and concurrent requests.                           *)
(*                                                                         *)
(* The argument: two busy sessions hold disjoint row locks (LocksApart), so *)
(* what one of them has decided about its agreement stays true until it     *)
(* commits (Decided): nobody else writes an agreement of the same venue.    *)
(***************************************************************************)
EXTENDS RentalAgreements, TLAPS

Ops == {"propose", "accept", "decline", "withdraw", "pay", "propose_end",
        "decide_end"}

\* An agreement that exists: whose inquiry it is in and when it ends.  Only
\* such an agreement has proposals to end it early.
RowOK(row) ==
  /\ row.inquiry \in Inquiries
  /\ row.start \in Nat /\ row.months \in Nat \ {0}
  /\ row.ended # None =>
       /\ row.status = "accepted"
       /\ row.ended \in Int /\ row.ended < row.start + row.months

RowsOK ==
  /\ DOMAIN agreement = Agreements
  /\ \A a \in Agreements :
       IF agreement[a].status = "none" THEN DOMAIN ends[a] = {}
                                       ELSE RowOK(agreement[a])

\* A busy session works for an inquiry, and on an agreement unless it makes one.
RequestOK(w) ==
  /\ w.op \in Ops /\ w.inquiry \in Inquiries
  /\ w.op = "propose" => w.start \in Nat /\ w.months \in Nat \ {0}
  /\ w.op # "propose" => w.row \in Agreements

RequestsOK ==
  /\ DOMAIN work = Sessions /\ DOMAIN ends = Agreements
  /\ \A s \in Sessions : work[s] # Idle => RequestOK(work[s])

\* The row locks of two busy sessions.
LocksApart ==
  \A s, t \in Sessions :
    s # t /\ work[s] # Idle /\ work[t] # Idle
    => LockedBy(work[s].inquiry) \cap LockedBy(work[t].inquiry) = {}

\* The row of the inquiry that a request is about.
OnRow(w) ==
  w.op # "propose" =>
    agreement[w.row].inquiry = w.inquiry /\ agreement[w.row].status # "none"

\* No other agreement in force overlaps the one to be accepted.
RoomFor(w) ==
  w.op = "accept" =>
    /\ agreement[w.row].status = "proposed"
    /\ w.inquiry \in active
    /\ \A b \in Agreements :
         agreement[b].status = "accepted" /\ VenueIn(b) = VenueOf[w.inquiry]
         => ~Overlap(w.row, b)

\* The agreement is still open to what was decided about it.
StillOpen(w) ==
  /\ w.op \in {"decline", "withdraw"} => agreement[w.row].status = "proposed"
  /\ w.op = "decide_end" /\ w.decision = "accepted" =>
       /\ agreement[w.row].status = "accepted" /\ agreement[w.row].ended = None
       /\ ends[w.row][w.proposal].end \in Boundaries(w.row)

Decided(w) == OnRow(w) /\ RoomFor(w) /\ StillOpen(w)

AllDecided == \A s \in Sessions : work[s] # Idle => Decided(work[s])

\* The inductive invariant.
LetInv == RowsOK /\ RequestsOK /\ LocksApart /\ AllDecided /\ NoDoubleLet

-----------------------------------------------------------------------------
(* Locks. *)

\* Two busy sessions work for different inquiries about different venues.
LEMMA BusyApart ==
  ASSUME LocksApart, NEW s \in Sessions, NEW t \in Sessions, s # t,
         work[s] # Idle, work[t] # Idle
  PROVE  /\ work[s].inquiry # work[t].inquiry
         /\ VenueOf[work[s].inquiry] # VenueOf[work[t].inquiry]
BY DEF LocksApart, LockedBy

\* A session that finishes leaves the requests and the locks of the others.
LEMMA FinishKeepsLocks ==
  ASSUME RequestsOK, LocksApart, NEW s \in Sessions, Finish(s),
         DOMAIN ends' = Agreements
  PROVE  /\ RequestsOK' /\ LocksApart'
         /\ \A t \in Sessions : work'[t] # Idle => t # s /\ work'[t] = work[t]
<1>1. \A t \in Sessions : work'[t] = IF t = s THEN Idle ELSE work[t]
  BY DEF Finish, RequestsOK
<1>2. RequestsOK'
  BY <1>1 DEF Finish, RequestsOK, RequestOK
<1>3. LocksApart'
  BY <1>1 DEF LocksApart, LockedBy
<1>4. QED
  BY <1>1, <1>2, <1>3

\* What the other sessions have decided stands when one commits that has
\* written no agreement but those of its own inquiry.
LEMMA OthersDecided ==
  ASSUME LetInv, NEW s \in Sessions, work[s] # Idle, active' = active,
         \A t \in Sessions : work'[t] # Idle => t # s /\ work'[t] = work[t],
         \A a \in Agreements :
           agreement[a].status # "none" /\ agreement[a].inquiry # work[s].inquiry
           => agreement'[a] = agreement[a] /\ ends'[a] = ends[a],
         \A a \in Agreements :
           agreement'[a].status = "accepted" =>
             \/ agreement'[a] = agreement[a]
             \/ agreement'[a].inquiry = work[s].inquiry
  PROVE  AllDecided'
<1> SUFFICES ASSUME NEW t \in Sessions, work'[t] # Idle
             PROVE  Decided(work[t])'
  BY DEF AllDecided
<1>0. PICK w : w = work[t]
  OBVIOUS
<1>1. t # s /\ work'[t] = w /\ work[t] = w /\ w # Idle
  BY <1>0
<1>2. w.inquiry # work[s].inquiry /\ VenueOf[w.inquiry] # VenueOf[work[s].inquiry]
  BY <1>1, BusyApart DEF LetInv
<1>3. Decided(w) /\ RequestOK(w)
  BY <1>1 DEF LetInv, AllDecided, RequestsOK
<1>4. w.op # "propose" => /\ w.row \in Agreements
                          /\ agreement'[w.row] = agreement[w.row]
                          /\ ends'[w.row] = ends[w.row]
  BY <1>2, <1>3 DEF Decided, OnRow, RequestOK
<1>5. OnRow(w)'
  BY <1>1, <1>3, <1>4 DEF Decided, OnRow
<1>6. RoomFor(w)'
  <2> SUFFICES ASSUME w.op = "accept"
               PROVE  /\ agreement'[w.row].status = "proposed"
                      /\ w.inquiry \in active'
                      /\ \A b \in Agreements :
                           agreement'[b].status = "accepted"
                           /\ VenueIn(b)' = VenueOf[w.inquiry]
                           => ~Overlap(w.row, b)'
    BY <1>1 DEF RoomFor
  <2>1. w.row \in Agreements /\ agreement'[w.row] = agreement[w.row]
    BY <1>4
  <2>2. ASSUME NEW b \in Agreements, agreement'[b].status = "accepted",
               VenueIn(b)' = VenueOf[w.inquiry]
        PROVE  ~Overlap(w.row, b)'
    <3>1. agreement'[b] = agreement[b]
      BY <1>2, <2>2 DEF VenueIn
    <3>2. ~Overlap(w.row, b)
      BY <1>3, <2>2, <3>1 DEF Decided, RoomFor, VenueIn
    <3>3. QED
      BY <2>1, <3>1, <3>2 DEF Overlap, PlannedEnd, End
  <2>3. QED
    BY <1>3, <2>1, <2>2 DEF Decided, RoomFor
<1>7. StillOpen(w)'
  BY <1>1, <1>3, <1>4 DEF Decided, StillOpen, Boundaries
<1>8. QED
  BY <1>1, <1>5, <1>6, <1>7 DEF Decided

\* A request that begins has decided under locks of which nobody holds any.
LEMMA BeginKeeps ==
  ASSUME LetInv, NEW s \in Sessions, NEW w, RequestOK(w), Decided(w), Begin(s, w)
  PROVE  LetInv'
<1>1. \A t \in Sessions : work'[t] = IF t = s THEN w ELSE work[t]
  BY DEF Begin, LetInv, RequestsOK
<1>2. RowsOK' /\ NoDoubleLet'
  BY DEF LetInv, Begin, RowsOK, NoDoubleLet, VenueIn, End, PlannedEnd
<1>3. RequestsOK'
  BY <1>1 DEF LetInv, Begin, RequestsOK, RequestOK
<1>4. LocksApart'
  BY <1>1 DEF LetInv, Begin, LocksApart, LockedBy
<1>5. AllDecided'
  <2> SUFFICES ASSUME NEW t \in Sessions, work'[t] # Idle
               PROVE  Decided(work[t])'
    BY DEF AllDecided
  <2>1. Decided(work'[t])
    BY <1>1 DEF LetInv, AllDecided
  <2>2. QED
    BY <2>1 DEF Begin, Decided, OnRow, RoomFor, StillOpen, VenueIn, Overlap,
                End, PlannedEnd, Boundaries
<1>6. QED
  BY <1>2, <1>3, <1>4, <1>5 DEF LetInv
-----------------------------------------------------------------------------
(* The steps. *)

\* What a request decides when it begins.
LEMMA Beginnings ==
  ASSUME LetInv, NEW s \in Sessions,
         \/ \E i \in Inquiries, r \in Requests, start \in 0..LastMonth,
              m \in Months, d \in BOOLEAN : Propose(s, i, r, start, m, d)
         \/ \E a \in Agreements :
              \/ \E action \in {"accept", "decline", "withdraw"} : Act(s, a, action)
              \/ \E k \in DOMAIN charge[a], p \in BOOLEAN : RecordPayment(s, a, k, p)
              \/ \E end \in 0..LastMonth, r \in Requests : ProposeEnd(s, a, end, r)
              \/ \E n \in DOMAIN ends[a], d \in {"accepted", "declined", "withdrawn"} :
                   DecideEnd(s, a, n, d)
  PROVE  LetInv'
<1>1. ASSUME NEW i \in Inquiries, NEW r \in Requests, NEW start \in 0..LastMonth,
             NEW m \in Months, NEW d \in BOOLEAN, Propose(s, i, r, start, m, d)
      PROVE  LetInv'
  <2> DEFINE w == [op |-> "propose", inquiry |-> i, request |-> r, start |-> start,
                   months |-> m, deposit |-> d]
  <2>1. RequestOK(w)
    BY MonthsAssumption DEF RequestOK, Ops
  <2>2. Decided(w)
    BY DEF Decided, OnRow, RoomFor, StillOpen
  <2>3. Begin(s, w)
    BY <1>1 DEF Propose
  <2>4. QED
    BY <2>1, <2>2, <2>3, BeginKeeps
<1>2. ASSUME NEW a \in Agreements, NEW action \in {"accept", "decline", "withdraw"},
             Act(s, a, action)
      PROVE  LetInv'
  <2> DEFINE w == [op |-> action, inquiry |-> agreement[a].inquiry, row |-> a]
  <2>1. agreement[a].inquiry \in Inquiries /\ agreement[a].status = "proposed"
    BY <1>2 DEF Act, LetInv, RowsOK, RowOK
  <2>2. RequestOK(w)
    BY <2>1 DEF RequestOK, Ops
  <2>3. Decided(w)
    BY <1>2, <2>1 DEF Act, MayAccept, Decided, OnRow, RoomFor, StillOpen, VenueIn
  <2>4. Begin(s, w)
    BY <1>2 DEF Act
  <2>5. QED
    BY <2>2, <2>3, <2>4, BeginKeeps
<1>3. ASSUME NEW a \in Agreements, NEW k \in DOMAIN charge[a], NEW p \in BOOLEAN,
             RecordPayment(s, a, k, p)
      PROVE  LetInv'
  <2> DEFINE w == [op |-> "pay", inquiry |-> agreement[a].inquiry, row |-> a,
                   charge |-> k, paid |-> p]
  <2>1. agreement[a].inquiry \in Inquiries /\ agreement[a].status = "accepted"
    BY <1>3 DEF RecordPayment, LetInv, RowsOK, RowOK
  <2>2. RequestOK(w) /\ Decided(w)
    BY <2>1 DEF RequestOK, Ops, Decided, OnRow, RoomFor, StillOpen
  <2>3. Begin(s, w)
    BY <1>3 DEF RecordPayment
  <2>4. QED
    BY <2>2, <2>3, BeginKeeps
<1>4. ASSUME NEW a \in Agreements, NEW end \in 0..LastMonth, NEW r \in Requests,
             ProposeEnd(s, a, end, r)
      PROVE  LetInv'
  <2> DEFINE w == [op |-> "propose_end", inquiry |-> agreement[a].inquiry,
                   row |-> a, end |-> end, request |-> r]
  <2>1. agreement[a].inquiry \in Inquiries /\ agreement[a].status = "accepted"
    BY <1>4 DEF ProposeEnd, Endable, LetInv, RowsOK, RowOK
  <2>2. RequestOK(w) /\ Decided(w)
    BY <2>1 DEF RequestOK, Ops, Decided, OnRow, RoomFor, StillOpen
  <2>3. Begin(s, w)
    BY <1>4 DEF ProposeEnd
  <2>4. QED
    BY <2>2, <2>3, BeginKeeps
<1>5. ASSUME NEW a \in Agreements, NEW n \in DOMAIN ends[a],
             NEW d \in {"accepted", "declined", "withdrawn"}, DecideEnd(s, a, n, d)
      PROVE  LetInv'
  <2> DEFINE w == [op |-> "decide_end", inquiry |-> agreement[a].inquiry,
                   row |-> a, proposal |-> n, decision |-> d]
  <2>1. agreement[a].inquiry \in Inquiries /\ agreement[a].status # "none"
    BY <1>5 DEF LetInv, RowsOK, RowOK
  <2>2. RequestOK(w) /\ Decided(w)
    BY <1>5, <2>1 DEF RequestOK, Ops, Decided, OnRow, RoomFor, StillOpen,
                      DecideEnd, Endable
  <2>3. Begin(s, w)
    BY <1>5 DEF DecideEnd
  <2>4. QED
    BY <2>2, <2>3, BeginKeeps
<1>6. QED
  BY <1>1, <1>2, <1>3, <1>4, <1>5
LEMMA ProposeCommitKeeps ==
  ASSUME LetInv, NEW s \in Sessions, ProposeCommit(s)
  PROVE  LetInv'
<1> DEFINE w == work[s]
<1>1. w # Idle /\ w.op = "propose" /\ RequestOK(w)
  BY DEF ProposeCommit, LetInv, RequestsOK, Idle
<1>2. PICK a \in Agreements :
        /\ agreement[a].status = "none"
        /\ agreement' = [agreement EXCEPT ![a] =
             [status |-> "proposed", inquiry |-> w.inquiry, request |-> w.request,
              start |-> w.start, months |-> w.months, deposit |-> w.deposit,
              ended |-> None]]
  BY DEF ProposeCommit
<1>3. Finish(s) /\ UNCHANGED <<today, active, charge, ends>>
  BY DEF ProposeCommit
<1>4. \A b \in Agreements : b # a => agreement'[b] = agreement[b]
  BY <1>2 DEF LetInv, RowsOK
<1>5. /\ agreement'[a].status = "proposed" /\ agreement'[a].inquiry = w.inquiry
      /\ agreement'[a].start = w.start /\ agreement'[a].months = w.months
      /\ agreement'[a].ended = None
  BY <1>2 DEF LetInv, RowsOK
<1>6. RowsOK'
  <2>1. RowOK(agreement'[a])
    BY <1>1, <1>5 DEF RowOK, RequestOK
  <2>2. DOMAIN agreement' = Agreements
    BY <1>2 DEF LetInv, RowsOK
  <2>3. QED
    BY <1>3, <1>4, <1>5, <2>1, <2>2 DEF LetInv, RowsOK
<1>7. RequestsOK' /\ LocksApart'
      /\ \A t \in Sessions : work'[t] # Idle => t # s /\ work'[t] = work[t]
  BY <1>3, FinishKeepsLocks DEF LetInv, RequestsOK
<1>8. AllDecided'
  <2>1. \A b \in Agreements : agreement[b].status # "none"
          => agreement'[b] = agreement[b] /\ ends'[b] = ends[b]
    BY <1>2, <1>3, <1>4
  <2>2. \A b \in Agreements :
          agreement'[b].status = "accepted" => agreement'[b] = agreement[b]
    BY <1>4, <1>5
  <2>3. QED
    BY <1>1, <1>3, <1>7, <2>1, <2>2, OthersDecided
<1>9. NoDoubleLet'
  BY <1>4, <1>5 DEF LetInv, NoDoubleLet, VenueIn, End, PlannedEnd
<1>10. QED
  BY <1>6, <1>7, <1>8, <1>9 DEF LetInv

LEMMA AcceptCommitKeeps ==
  ASSUME LetInv, NEW s \in Sessions, AcceptCommit(s)
  PROVE  LetInv'
<1>0. PICK w : w = work[s]
  OBVIOUS
<1> DEFINE a == w.row
<1>1. w # Idle /\ w.op = "accept" /\ RequestOK(w) /\ Decided(w)
  BY <1>0 DEF AcceptCommit, LetInv, RequestsOK, AllDecided, Idle
<1>2. /\ a \in Agreements /\ agreement[a].status = "proposed"
      /\ agreement[a].inquiry = w.inquiry
  BY <1>1 DEF RequestOK, Decided, OnRow, RoomFor
<1>3. /\ agreement' = [agreement EXCEPT ![a].status = "accepted"]
      /\ Finish(s) /\ UNCHANGED <<today, active, ends>>
  BY <1>0 DEF AcceptCommit
<1>4. \A b \in Agreements : b # a => agreement'[b] = agreement[b]
  BY <1>3 DEF LetInv, RowsOK
<1>5. /\ agreement'[a].status = "accepted"
      /\ agreement'[a].inquiry = agreement[a].inquiry
      /\ agreement'[a].start = agreement[a].start
      /\ agreement'[a].months = agreement[a].months
      /\ agreement'[a].ended = agreement[a].ended
  BY <1>2, <1>3 DEF LetInv, RowsOK
<1>6. RowOK(agreement[a]) /\ agreement[a].ended = None
  BY <1>2 DEF LetInv, RowsOK, RowOK
<1>7. RowsOK'
  <2>1. RowOK(agreement'[a])
    BY <1>5, <1>6 DEF RowOK
  <2>2. DOMAIN agreement' = Agreements
    BY <1>3 DEF LetInv, RowsOK
  <2>3. QED
    BY <1>3, <1>4, <1>5, <2>1, <2>2 DEF LetInv, RowsOK
<1>8. RequestsOK' /\ LocksApart'
      /\ \A t \in Sessions : work'[t] # Idle => t # s /\ work'[t] = work[t]
  BY <1>3, FinishKeepsLocks DEF LetInv, RequestsOK
<1>9. AllDecided'
  <2>1. \A b \in Agreements :
          agreement[b].status # "none" /\ agreement[b].inquiry # work[s].inquiry
          => agreement'[b] = agreement[b] /\ ends'[b] = ends[b]
    BY <1>0, <1>2, <1>3, <1>4
  <2>2. \A b \in Agreements : agreement'[b].status = "accepted" =>
          agreement'[b] = agreement[b] \/ agreement'[b].inquiry = work[s].inquiry
    BY <1>0, <1>2, <1>4, <1>5
  <2>3. QED
    BY <1>0, <1>1, <1>3, <1>8, <2>1, <2>2, OthersDecided
<1>10. \A b \in Agreements :
         b # a /\ agreement'[b].status = "accepted" /\ VenueIn(b)' = VenueIn(a)'
         => End(a)' <= agreement'[b].start \/ End(b)' <= agreement'[a].start
  <2> SUFFICES ASSUME NEW b \in Agreements, b # a,
                      agreement'[b].status = "accepted", VenueIn(b)' = VenueIn(a)'
               PROVE  End(a)' <= agreement'[b].start \/ End(b)' <= agreement'[a].start
    OBVIOUS
  <2>1. ~Overlap(a, b)
    BY <1>1, <1>2, <1>4, <1>5 DEF Decided, RoomFor, VenueIn
  <2>2. RowOK(agreement[b]) /\ agreement'[b] = agreement[b]
    BY <1>4 DEF LetInv, RowsOK
  <2>3. End(a)' = PlannedEnd(a) /\ End(b)' = End(b)
        /\ agreement'[a].start = agreement[a].start
    BY <1>5, <1>6, <2>2 DEF End, PlannedEnd
  <2>4. PlannedEnd(a) \in Int /\ End(b) \in Int
        /\ agreement[a].start \in Int /\ agreement[b].start \in Int
    BY <1>6, <2>2 DEF RowOK, End, PlannedEnd
  <2>5. QED
    BY <2>1, <2>2, <2>3, <2>4 DEF Overlap
<1>11. NoDoubleLet'
  <2>1. \A b, c \in Agreements :
          /\ b # c /\ b # a /\ c # a
          /\ agreement'[b].status = "accepted" /\ agreement'[c].status = "accepted"
          /\ VenueIn(b)' = VenueIn(c)'
          => End(b)' <= agreement'[c].start \/ End(c)' <= agreement'[b].start
    BY <1>4 DEF LetInv, NoDoubleLet, VenueIn, End, PlannedEnd
  <2>2. QED
    BY <1>10, <2>1 DEF NoDoubleLet
<1>12. QED
  BY <1>7, <1>8, <1>9, <1>11 DEF LetInv
LEMMA RejectCommitKeeps ==
  ASSUME LetInv, NEW s \in Sessions, RejectCommit(s)
  PROVE  LetInv'
<1>0. PICK w : w = work[s]
  OBVIOUS
<1> DEFINE a == w.row
<1>1. w # Idle /\ w.op \in {"decline", "withdraw"} /\ RequestOK(w) /\ Decided(w)
  BY <1>0 DEF RejectCommit, LetInv, RequestsOK, AllDecided, Idle
<1>2. /\ a \in Agreements /\ agreement[a].status = "proposed"
      /\ agreement[a].inquiry = w.inquiry
  BY <1>1 DEF RequestOK, Decided, OnRow, StillOpen
<1>3. /\ agreement' = [agreement EXCEPT ![a].status =
           IF w.op = "decline" THEN "declined" ELSE "withdrawn"]
      /\ Finish(s) /\ UNCHANGED <<today, active, charge, ends>>
  BY <1>0 DEF RejectCommit
<1>4. \A b \in Agreements : b # a => agreement'[b] = agreement[b]
  BY <1>3 DEF LetInv, RowsOK
<1>5. /\ agreement'[a].status \in {"declined", "withdrawn"}
      /\ agreement'[a].inquiry = agreement[a].inquiry
      /\ agreement'[a].start = agreement[a].start
      /\ agreement'[a].months = agreement[a].months
      /\ agreement'[a].ended = agreement[a].ended
  BY <1>2, <1>3 DEF LetInv, RowsOK
<1>6. RowOK(agreement[a]) /\ agreement[a].ended = None
  BY <1>2 DEF LetInv, RowsOK, RowOK
<1>7. RowsOK'
  <2>1. RowOK(agreement'[a])
    BY <1>5, <1>6 DEF RowOK
  <2>2. DOMAIN agreement' = Agreements
    BY <1>3 DEF LetInv, RowsOK
  <2>3. QED
    BY <1>3, <1>4, <1>5, <2>1, <2>2 DEF LetInv, RowsOK
<1>8. RequestsOK' /\ LocksApart'
      /\ \A t \in Sessions : work'[t] # Idle => t # s /\ work'[t] = work[t]
  BY <1>3, FinishKeepsLocks DEF LetInv, RequestsOK
<1>9. AllDecided'
  <2>1. \A b \in Agreements :
          agreement[b].status # "none" /\ agreement[b].inquiry # work[s].inquiry
          => agreement'[b] = agreement[b] /\ ends'[b] = ends[b]
    BY <1>0, <1>2, <1>3, <1>4
  <2>2. \A b \in Agreements :
          agreement'[b].status = "accepted" => agreement'[b] = agreement[b]
    BY <1>4, <1>5
  <2>3. QED
    BY <1>0, <1>1, <1>3, <1>8, <2>1, <2>2, OthersDecided
<1>10. NoDoubleLet'
  BY <1>4, <1>5 DEF LetInv, NoDoubleLet, VenueIn, End, PlannedEnd
<1>11. QED
  BY <1>7, <1>8, <1>9, <1>10 DEF LetInv

\* Recording a payment writes a charge only.
LEMMA PaymentCommitKeeps ==
  ASSUME LetInv, NEW s \in Sessions, PaymentCommit(s)
  PROVE  LetInv'
<1>1. work[s] # Idle
  BY DEF PaymentCommit, Idle
<1>2. Finish(s) /\ UNCHANGED <<today, active, agreement, ends>>
  BY DEF PaymentCommit
<1>3. RequestsOK' /\ LocksApart'
      /\ \A t \in Sessions : work'[t] # Idle => t # s /\ work'[t] = work[t]
  BY <1>2, FinishKeepsLocks DEF LetInv, RequestsOK
<1>4. AllDecided'
  BY <1>1, <1>2, <1>3, OthersDecided
<1>5. RowsOK' /\ NoDoubleLet'
  BY <1>2 DEF LetInv, RowsOK, NoDoubleLet, VenueIn, End, PlannedEnd
<1>6. QED
  BY <1>3, <1>4, <1>5 DEF LetInv

LEMMA ProposeEndCommitKeeps ==
  ASSUME LetInv, NEW s \in Sessions, ProposeEndCommit(s)
  PROVE  LetInv'
<1>0. PICK w : w = work[s]
  OBVIOUS
<1> DEFINE a == w.row
<1>1. w # Idle /\ w.op = "propose_end" /\ RequestOK(w) /\ Decided(w)
  <2>1. w.op = "propose_end"
    BY <1>0 DEF ProposeEndCommit
  <2>2. w # Idle
    BY <2>1 DEF Idle
  <2>3. QED
    BY <1>0, <2>1, <2>2 DEF LetInv, RequestsOK, AllDecided
<1>2. /\ a \in Agreements /\ agreement[a].status # "none"
      /\ agreement[a].inquiry = w.inquiry
  BY <1>1 DEF RequestOK, Decided, OnRow
<1>3. /\ DOMAIN ends' = Agreements
      /\ \A b \in Agreements : b # a => ends'[b] = ends[b]
      /\ Finish(s) /\ UNCHANGED <<today, active, agreement, charge>>
  BY <1>0 DEF ProposeEndCommit, LetInv, RequestsOK
<1>4. RequestsOK' /\ LocksApart'
      /\ \A t \in Sessions : work'[t] # Idle => t # s /\ work'[t] = work[t]
  BY <1>3, FinishKeepsLocks DEF LetInv
<1>5. AllDecided'
  <2>1. \A b \in Agreements :
          agreement[b].status # "none" /\ agreement[b].inquiry # work[s].inquiry
          => agreement'[b] = agreement[b] /\ ends'[b] = ends[b]
    BY <1>0, <1>2, <1>3
  <2>2. QED
    BY <1>0, <1>1, <1>3, <1>4, <2>1, OthersDecided
<1>6. RowsOK'
  BY <1>2, <1>3 DEF LetInv, RowsOK
<1>7. NoDoubleLet'
  BY <1>3 DEF LetInv, NoDoubleLet, VenueIn, End, PlannedEnd
<1>8. QED
  BY <1>4, <1>5, <1>6, <1>7 DEF LetInv

\* An early end only takes months from the period.
LEMMA DecideEndCommitKeeps ==
  ASSUME LetInv, NEW s \in Sessions, DecideEndCommit(s)
  PROVE  LetInv'
<1>0. PICK w : w = work[s]
  OBVIOUS
<1> DEFINE a == w.row
           end == ends[a][w.proposal].end
<1>1. w # Idle /\ w.op = "decide_end" /\ RequestOK(w) /\ Decided(w)
  <2>1. w.op = "decide_end"
    BY <1>0 DEF DecideEndCommit
  <2>2. w # Idle
    BY <2>1 DEF Idle
  <2>3. QED
    BY <1>0, <2>1, <2>2 DEF LetInv, RequestsOK, AllDecided
<1>2. /\ a \in Agreements /\ agreement[a].status # "none"
      /\ agreement[a].inquiry = w.inquiry
  BY <1>1 DEF RequestOK, Decided, OnRow
<1>3. /\ DOMAIN ends' = Agreements
      /\ \A b \in Agreements : b # a => ends'[b] = ends[b]
      /\ Finish(s) /\ UNCHANGED <<today, active>>
  BY <1>0 DEF DecideEndCommit, LetInv, RequestsOK
<1>4. \/ agreement' = agreement
      \/ w.decision = "accepted" /\ agreement' = [agreement EXCEPT ![a].ended = end]
  BY <1>0 DEF DecideEndCommit
<1>5. /\ DOMAIN agreement' = Agreements
      /\ \A b \in Agreements : b # a => agreement'[b] = agreement[b]
      /\ agreement'[a].status = agreement[a].status
      /\ agreement'[a].inquiry = agreement[a].inquiry
      /\ agreement'[a].start = agreement[a].start
      /\ agreement'[a].months = agreement[a].months
  <2>1. DOMAIN agreement = Agreements
    BY DEF LetInv, RowsOK
  <2>2. CASE agreement' = agreement
    BY <2>1, <2>2
  <2>3. CASE agreement' = [agreement EXCEPT ![a].ended = end]
    <3> HIDE DEF end
    <3>1. QED
      BY <1>2, <2>1, <2>3
  <2>4. QED
    BY <1>4, <2>2, <2>3
<1>6. RowOK(agreement[a])
  BY <1>2 DEF LetInv, RowsOK
<1>7. RowOK(agreement'[a]) /\ End(a)' \in Int /\ End(a) \in Int /\ End(a)' <= End(a)
  <2>1. CASE agreement' = agreement
    BY <1>6, <2>1 DEF RowOK, End, PlannedEnd
  <2>2. CASE w.decision = "accepted"
             /\ agreement' = [agreement EXCEPT ![a].ended = end]
    <3>1. agreement[a].status = "accepted" /\ agreement[a].ended = None
          /\ end \in Boundaries(a)
      BY <1>1, <2>2 DEF Decided, StillOpen
    <3>2. end \in Int /\ end < agreement[a].start + agreement[a].months
      BY <1>6, <3>1 DEF Boundaries, RowOK
    <3>3. agreement'[a].ended = end
      BY <1>2, <2>2 DEF LetInv, RowsOK
    <3>4. RowOK(agreement'[a])
      BY <1>5, <1>6, <3>1, <3>2, <3>3 DEF RowOK
    <3>5. End(a) = agreement[a].start + agreement[a].months
      BY <3>1 DEF End, PlannedEnd
    <3>6. End(a)' \in {end, End(a)}
      BY <1>5, <3>3, <3>5 DEF End, PlannedEnd
    <3>7. QED
      BY <1>6, <3>2, <3>4, <3>5, <3>6 DEF RowOK
  <2>3. QED
    BY <1>4, <2>1, <2>2
<1>8. RowsOK'
  BY <1>2, <1>3, <1>5, <1>7 DEF LetInv, RowsOK
<1>9. RequestsOK' /\ LocksApart'
      /\ \A t \in Sessions : work'[t] # Idle => t # s /\ work'[t] = work[t]
  BY <1>3, FinishKeepsLocks DEF LetInv
<1>10. AllDecided'
  <2>1. \A b \in Agreements :
          agreement[b].status # "none" /\ agreement[b].inquiry # work[s].inquiry
          => agreement'[b] = agreement[b] /\ ends'[b] = ends[b]
    BY <1>0, <1>2, <1>3, <1>5
  <2>2. \A b \in Agreements : agreement'[b].status = "accepted" =>
          agreement'[b] = agreement[b] \/ agreement'[b].inquiry = work[s].inquiry
    BY <1>0, <1>2, <1>5
  <2>3. QED
    BY <1>0, <1>1, <1>3, <1>9, <2>1, <2>2, OthersDecided
<1>11. NoDoubleLet'
  <2> SUFFICES ASSUME NEW b \in Agreements, NEW c \in Agreements, b # c,
                      agreement'[b].status = "accepted",
                      agreement'[c].status = "accepted", VenueIn(b)' = VenueIn(c)'
               PROVE  End(b)' <= agreement'[c].start \/ End(c)' <= agreement'[b].start
    BY DEF NoDoubleLet
  <2>1. \A d \in {b, c} : /\ agreement[d].status = "accepted"
                          /\ VenueIn(d)' = VenueIn(d)
                          /\ agreement'[d].start = agreement[d].start
    BY <1>5 DEF VenueIn
  <2>2. End(b) <= agreement[c].start \/ End(c) <= agreement[b].start
    BY <2>1 DEF LetInv, NoDoubleLet
  <2>3. \A d \in {b, c} : /\ End(d)' \in Int /\ End(d) \in Int /\ End(d)' <= End(d)
                          /\ agreement[d].start \in Int
    <3> SUFFICES ASSUME NEW d \in {b, c}
                 PROVE  /\ End(d)' \in Int /\ End(d) \in Int /\ End(d)' <= End(d)
                        /\ agreement[d].start \in Int
      OBVIOUS
    <3>1. RowOK(agreement[d])
      BY <2>1 DEF LetInv, RowsOK
    <3>2. CASE d = a
      BY <1>7, <3>1, <3>2 DEF RowOK
    <3>3. CASE d # a
      <4>1. agreement'[d] = agreement[d]
        BY <1>5, <3>3
      <4>2. QED
        BY <3>1, <4>1 DEF RowOK, End, PlannedEnd
    <3>4. QED
      BY <3>2, <3>3
  <2>4. QED
    BY <2>1, <2>2, <2>3
<1>12. QED
  BY <1>8, <1>9, <1>10, <1>11 DEF LetInv

\* An inquiry is closed only while nobody holds its row; months go by.
LEMMA RestKeeps ==
  ASSUME LetInv, NextMonth \/ (\E i \in Inquiries : CloseInquiry(i)) \/ UNCHANGED vars
  PROVE  LetInv'
<1>1. UNCHANGED <<agreement, ends, work>>
  BY DEF NextMonth, CloseInquiry, vars
<1>2. \A s \in Sessions : work[s] # Idle /\ work[s].inquiry \in active
                          => work[s].inquiry \in active'
  BY DEF NextMonth, CloseInquiry, vars, LockedBy
<1>3. AllDecided'
  BY <1>1, <1>2 DEF LetInv, AllDecided, Decided, OnRow, RoomFor, StillOpen,
                    VenueIn, Overlap, End, PlannedEnd, Boundaries
<1>4. RowsOK' /\ RequestsOK' /\ LocksApart' /\ NoDoubleLet'
  BY <1>1 DEF LetInv, RowsOK, RequestsOK, LocksApart, NoDoubleLet, VenueIn, End,
              PlannedEnd
<1>5. QED
  BY <1>3, <1>4 DEF LetInv

-----------------------------------------------------------------------------
(* The theorems. *)

LEMMA LetInvInit == Init => LetInv
BY DEF Init, LetInv, RowsOK, RequestsOK, LocksApart, AllDecided, NoDoubleLet,
       NoAgreement

LEMMA LetInvStep == LetInv /\ [Next]_vars => LetInv'
<1> SUFFICES ASSUME LetInv, [Next]_vars PROVE LetInv'
  OBVIOUS
<1>1. ASSUME NEW s \in Sessions, Step(s) PROVE LetInv'
  BY <1>1, Beginnings, ProposeCommitKeeps, AcceptCommitKeeps, RejectCommitKeeps,
     PaymentCommitKeeps, ProposeEndCommitKeeps, DecideEndCommitKeeps DEF Step
<1>2. QED
  BY <1>1, RestKeeps DEF Next

THEOREM LetInvAlways == Spec => []LetInv
<1>1. Init => LetInv
  BY LetInvInit
<1>2. LetInv /\ [Next]_vars => LetInv'
  BY LetInvStep
<1>3. QED
  BY <1>1, <1>2, PTL DEF Spec

\* No venue is ever let to two tenants for the same month, through whichever of
\* its listings they asked, also when an early end freed part of a period
\* (rental_agreement_service.py:210).
THEOREM NoDoubleLetAlways == Spec => []NoDoubleLet
<1>1. LetInv => NoDoubleLet
  BY DEF LetInv
<1>2. QED
  BY <1>1, LetInvAlways, PTL

\* Whoever accepts has found the inquiry active, and holds its row.
LEMMA LetsWhileActive == ASSUME LetInv, Next PROVE LetWhileActive
<1> SUFFICES ASSUME NEW a \in Agreements,
                    agreement[a].status = "proposed", agreement'[a].status = "accepted"
             PROVE  agreement[a].inquiry \in active
  BY DEF LetWhileActive
<1>1. CASE UNCHANGED agreement
  BY <1>1
<1>2. ASSUME NEW s \in Sessions, Step(s), agreement' # agreement
      PROVE  agreement[a].inquiry \in active
  <2>1. CASE ProposeCommit(s)
    BY <2>1 DEF ProposeCommit, LetInv, RowsOK
  <2>2. CASE AcceptCommit(s)
    <3>1. PICK w : w = work[s]
      OBVIOUS
    <3>2. w.op = "accept" /\ w # Idle
      BY <2>2, <3>1 DEF AcceptCommit, Idle
    <3>3. agreement' = [agreement EXCEPT ![w.row].status = "accepted"]
      BY <2>2, <3>1 DEF AcceptCommit
    <3>4. RequestOK(w) /\ Decided(w)
      BY <3>1, <3>2 DEF LetInv, RequestsOK, AllDecided
    <3>5. a = w.row
      BY <3>3 DEF LetInv, RowsOK
    <3>6. QED
      BY <3>2, <3>4, <3>5 DEF Decided, OnRow, RoomFor
  <2>3. CASE RejectCommit(s)
    BY <2>3 DEF RejectCommit, LetInv, RowsOK
  <2>4. CASE DecideEndCommit(s)
    <3>1. PICK e, b : agreement' = [agreement EXCEPT ![b].ended = e]
      BY <1>2, <2>4 DEF DecideEndCommit
    <3>2. QED
      BY <3>1 DEF LetInv, RowsOK
  <2>5. QED
    BY <1>2, <2>1, <2>2, <2>3, <2>4
       DEF Step, Propose, Act, RecordPayment, ProposeEnd, DecideEnd, Begin,
           PaymentCommit, ProposeEndCommit
<1>3. QED
  BY <1>1, <1>2 DEF Next, NextMonth, CloseInquiry

\* A proposal is never accepted once its inquiry has been closed or withdrawn,
\* although it was read while the inquiry was active.
THEOREM NoLettingAfterCloseAlways == Spec => NoLettingAfterClose
<1>1. LetInv /\ [Next]_vars => [LetWhileActive]_vars
  BY LetsWhileActive
<1>2. QED
  BY <1>1, LetInvAlways, PTL DEF Spec, NoLettingAfterClose

-----------------------------------------------------------------------------
(* Charges and unique rows. *)

EndRow == [status : {"proposed", "accepted", "declined", "withdrawn"},
           end : Int, request : Requests]
ChargeRow == [paid : BOOLEAN, void : BOOLEAN]

EndsOK == ends \in [Agreements -> Seq(EndRow)]
ChargesOK ==
  /\ DOMAIN charge = Agreements
  /\ \A a \in Agreements :
       /\ DOMAIN charge[a] \subseteq Nat /\ charge[a] \in [DOMAIN charge[a] -> ChargeRow]

\* What a request has found under its locks still holds.
ProposesNew(w) ==
  w.op = "propose" =>
    /\ w.request \in Requests /\ ~Engaged(w.inquiry)
    /\ \A a \in Agreements : agreement[a].request # w.request
PaysOwed(w) ==
  w.op = "pay" =>
    /\ w.charge \in DOMAIN charge[w.row] /\ ~charge[w.row][w.charge].void
    /\ w.paid \in BOOLEAN
EndsOnce(w) ==
  w.op = "propose_end" =>
    /\ w.request \in Requests /\ w.end \in Int /\ ~EndInForce(w.row)
    /\ \A n \in DOMAIN ends[w.row] : ends[w.row][n].request # w.request
DecidesOpen(w) ==
  w.op = "decide_end" =>
    /\ w.proposal \in DOMAIN ends[w.row] /\ ends[w.row][w.proposal].status = "proposed"
    /\ w.decision \in {"accepted", "declined", "withdrawn"}
    /\ w.decision = "accepted" =>
         \A k \in Affected(w.row, ends[w.row][w.proposal].end) :
           ~charge[w.row][k].paid

Checked(w) == ProposesNew(w) /\ PaysOwed(w) /\ EndsOnce(w) /\ DecidesOpen(w)

AllChecked ==
  /\ \A s \in Sessions : work[s] # Idle => Checked(work[s])
  /\ \A s, t \in Sessions : work[s].op = "propose" /\ work[t].op = "propose" => s = t

\* The inductive invariant of the charges and the unique rows, beside LetInv.
TermsInv == EndsOK /\ ChargesOK /\ AllChecked /\ UniqueRows /\ ChargesMatchPeriod

LEMMA TermsStart == Init => TermsInv
<1> SUFFICES ASSUME Init PROVE TermsInv
  OBVIOUS
<1>1. EndsOK
  BY DEF Init, EndsOK
<1>2. ChargesOK
  <2>1. DOMAIN <<>> = {} /\ <<>> \in [{} -> ChargeRow]
    OBVIOUS
  <2>2. DOMAIN charge = Agreements /\ \A a \in Agreements : charge[a] = <<>>
    BY DEF Init
  <2>3. QED
    BY <2>1, <2>2 DEF ChargesOK
<1>3. AllChecked
  BY DEF Init, AllChecked, Idle
<1>4. UniqueRows /\ ChargesMatchPeriod
  BY DEF Init, UniqueRows, ChargesMatchPeriod, NoAgreement
<1>5. QED
  BY <1>1, <1>2, <1>3, <1>4 DEF TermsInv

\* What the other sessions have found stands when one commits that has written
\* only rows of its own inquiry, and no request identifier beside a proposal.
LEMMA OthersChecked ==
  ASSUME LetInv, TermsInv, NEW s \in Sessions, work[s] # Idle,
         \A t \in Sessions : work'[t] # Idle => t # s /\ work'[t] = work[t],
         \A a \in Agreements :
           agreement[a].status # "none" /\ agreement[a].inquiry # work[s].inquiry
           => agreement'[a] = agreement[a] /\ ends'[a] = ends[a]
              /\ charge'[a] = charge[a],
         \A a \in Agreements :
           agreement'[a] = agreement[a] \/ agreement'[a].inquiry = work[s].inquiry,
         work[s].op # "propose" =>
           \A a \in Agreements : agreement'[a].request = agreement[a].request
  PROVE  AllChecked'
<1>1. ASSUME NEW t \in Sessions, work'[t] # Idle
      PROVE  Checked(work[t])'
  <2>1. PICK w : w = work[t]
    OBVIOUS
  <2>2. t # s /\ work'[t] = w /\ work[t] = w /\ w # Idle
    BY <1>1, <2>1
  <2>3. w.inquiry # work[s].inquiry
    BY <2>2, BusyApart DEF LetInv
  <2>4. Decided(w) /\ RequestOK(w) /\ Checked(w)
    BY <2>2 DEF LetInv, AllDecided, RequestsOK, TermsInv, AllChecked
  <2>5. w.op # "propose" => /\ w.row \in Agreements
                            /\ agreement'[w.row] = agreement[w.row]
                            /\ ends'[w.row] = ends[w.row]
                            /\ charge'[w.row] = charge[w.row]
    BY <2>3, <2>4 DEF Decided, OnRow, RequestOK
  <2>6. ProposesNew(w)'
    <3> SUFFICES ASSUME w.op = "propose"
                 PROVE  /\ w.request \in Requests /\ ~Engaged(w.inquiry)'
                        /\ \A a \in Agreements : agreement'[a].request # w.request
      BY <2>2 DEF ProposesNew
    <3>1. work[s].op # "propose"
      BY <2>2 DEF TermsInv, AllChecked
    <3>2. ~Engaged(w.inquiry)'
      BY <2>3, <2>4 DEF Checked, ProposesNew, Engaged
    <3>3. QED
      BY <2>4, <3>1, <3>2 DEF Checked, ProposesNew
  <2>7. PaysOwed(w)' /\ EndsOnce(w)'
    BY <2>2, <2>4, <2>5 DEF Checked, PaysOwed, EndsOnce, EndInForce
  <2>8. DecidesOpen(w)'
    BY <2>2, <2>4, <2>5 DEF Checked, DecidesOpen, Affected, DueMonth
  <2>9. QED
    BY <2>2, <2>6, <2>7, <2>8 DEF Checked
<1>2. \A t, u \in Sessions : work'[t].op = "propose" /\ work'[u].op = "propose" => t = u
  BY DEF TermsInv, AllChecked, Idle
<1>3. QED
  BY <1>1, <1>2 DEF AllChecked

\* A request that begins has found what it needs under locks nobody holds.
LEMMA TermsBegin ==
  ASSUME LetInv, TermsInv, NEW s \in Sessions, NEW w, Checked(w), Begin(s, w),
         w.op = "propose" => AccountFree(s)
  PROVE  TermsInv'
<1>1. \A t \in Sessions : work'[t] = IF t = s THEN w ELSE work[t]
  BY DEF Begin, LetInv, RequestsOK
<1>2. UNCHANGED <<agreement, charge, ends>>
  BY DEF Begin
<1>3. EndsOK' /\ ChargesOK' /\ UniqueRows'
  BY <1>2 DEF TermsInv, EndsOK, ChargesOK, UniqueRows
<1>4. ChargesMatchPeriod'
  BY <1>2 DEF TermsInv, ChargesMatchPeriod, DueMonth, End, PlannedEnd
<1>5. \A t \in Sessions : work'[t] # Idle => Checked(work'[t])
  BY <1>1 DEF TermsInv, AllChecked
<1>6. ASSUME NEW t \in Sessions, work'[t] # Idle
      PROVE  Checked(work[t])'
  BY <1>2, <1>5, <1>6 DEF Checked, ProposesNew, Engaged, PaysOwed, EndsOnce,
     EndInForce, DecidesOpen, Affected, DueMonth
<1>7. \A t, u \in Sessions : work'[t].op = "propose" /\ work'[u].op = "propose" => t = u
  BY <1>1 DEF TermsInv, AllChecked, AccountFree
<1>8. QED
  BY <1>3, <1>4, <1>6, <1>7 DEF TermsInv, AllChecked

LEMMA TermsBeginnings ==
  ASSUME LetInv, TermsInv, NEW s \in Sessions,
         \/ \E i \in Inquiries, r \in Requests, start \in 0..LastMonth,
              m \in Months, d \in BOOLEAN : Propose(s, i, r, start, m, d)
         \/ \E a \in Agreements :
              \/ \E action \in {"accept", "decline", "withdraw"} : Act(s, a, action)
              \/ \E k \in DOMAIN charge[a], p \in BOOLEAN : RecordPayment(s, a, k, p)
              \/ \E end \in 0..LastMonth, r \in Requests : ProposeEnd(s, a, end, r)
              \/ \E n \in DOMAIN ends[a], d \in {"accepted", "declined", "withdrawn"} :
                   DecideEnd(s, a, n, d)
  PROVE  TermsInv'
<1>1. ASSUME NEW i \in Inquiries, NEW r \in Requests, NEW start \in 0..LastMonth,
             NEW m \in Months, NEW d \in BOOLEAN, Propose(s, i, r, start, m, d)
      PROVE  TermsInv'
  <2>1. PICK w : w = [op |-> "propose", inquiry |-> i, request |-> r, start |-> start,
                      months |-> m, deposit |-> d]
    OBVIOUS
  <2>2. Begin(s, w) /\ AccountFree(s)
    BY <1>1, <2>1 DEF Propose
  <2>3. Checked(w)
    BY <1>1, <2>1 DEF Propose, Checked, ProposesNew, PaysOwed, EndsOnce, DecidesOpen
  <2>4. QED
    BY <2>2, <2>3, TermsBegin
<1>2. ASSUME NEW a \in Agreements, NEW action \in {"accept", "decline", "withdraw"},
             Act(s, a, action)
      PROVE  TermsInv'
  <2>1. PICK w : w = [op |-> action, inquiry |-> agreement[a].inquiry, row |-> a]
    OBVIOUS
  <2>2. Begin(s, w) /\ w.op # "propose"
    BY <1>2, <2>1 DEF Act
  <2>3. Checked(w)
    BY <2>1 DEF Checked, ProposesNew, PaysOwed, EndsOnce, DecidesOpen
  <2>4. QED
    BY <2>2, <2>3, TermsBegin
<1>3. ASSUME NEW a \in Agreements, NEW k \in DOMAIN charge[a], NEW p \in BOOLEAN,
             RecordPayment(s, a, k, p)
      PROVE  TermsInv'
  <2>1. PICK w : w = [op |-> "pay", inquiry |-> agreement[a].inquiry, row |-> a,
                      charge |-> k, paid |-> p]
    OBVIOUS
  <2>2. Begin(s, w) /\ w.op # "propose"
    BY <1>3, <2>1 DEF RecordPayment
  <2>3. Checked(w)
    BY <1>3, <2>1 DEF RecordPayment, Checked, ProposesNew, PaysOwed, EndsOnce,
       DecidesOpen
  <2>4. QED
    BY <2>2, <2>3, TermsBegin
<1>4. ASSUME NEW a \in Agreements, NEW end \in 0..LastMonth, NEW r \in Requests,
             ProposeEnd(s, a, end, r)
      PROVE  TermsInv'
  <2>1. PICK w : w = [op |-> "propose_end", inquiry |-> agreement[a].inquiry,
                      row |-> a, end |-> end, request |-> r]
    OBVIOUS
  <2>2. Begin(s, w) /\ w.op # "propose"
    BY <1>4, <2>1 DEF ProposeEnd
  <2>3. Checked(w)
    <3>1. end \in Int
      BY MonthsAssumption
    <3>2. QED
      BY <1>4, <2>1, <3>1 DEF ProposeEnd, Checked, ProposesNew, PaysOwed, EndsOnce,
         DecidesOpen
  <2>4. QED
    BY <2>2, <2>3, TermsBegin
<1>5. ASSUME NEW a \in Agreements, NEW n \in DOMAIN ends[a],
             NEW d \in {"accepted", "declined", "withdrawn"}, DecideEnd(s, a, n, d)
      PROVE  TermsInv'
  <2>1. PICK w : w = [op |-> "decide_end", inquiry |-> agreement[a].inquiry,
                      row |-> a, proposal |-> n, decision |-> d]
    OBVIOUS
  <2>2. Begin(s, w) /\ w.op # "propose"
    BY <1>5, <2>1 DEF DecideEnd
  <2>3. Checked(w)
    BY <1>5, <2>1 DEF DecideEnd, Endable, Checked, ProposesNew, PaysOwed, EndsOnce,
       DecidesOpen
  <2>4. QED
    BY <2>2, <2>3, TermsBegin
<1>6. QED
  BY <1>1, <1>2, <1>3, <1>4, <1>5

\* Whoever commits has found what it writes.
LEMMA Committing ==
  ASSUME LetInv, TermsInv, NEW s \in Sessions, work[s].op # "idle"
  PROVE  /\ work[s] # Idle /\ RequestOK(work[s]) /\ Decided(work[s]) /\ Checked(work[s])
         /\ DOMAIN agreement = Agreements
<1>1. work[s] # Idle
  BY DEF Idle
<1>2. QED
  BY <1>1 DEF LetInv, RequestsOK, AllDecided, TermsInv, AllChecked, RowsOK

LEMMA TermsPropose ==
  ASSUME LetInv, TermsInv, NEW s \in Sessions, ProposeCommit(s)
  PROVE  TermsInv'
<1>0. PICK w : w = work[s]
  OBVIOUS
<1>1. w.op = "propose" /\ w # Idle /\ Checked(w) /\ DOMAIN agreement = Agreements
  BY <1>0, Committing DEF ProposeCommit
<1>2. PICK x : x = [status |-> "proposed", inquiry |-> w.inquiry, request |-> w.request,
                    start |-> w.start, months |-> w.months, deposit |-> w.deposit,
                    ended |-> None]
  OBVIOUS
<1>3. x.status = "proposed" /\ x.inquiry = w.inquiry /\ x.request = w.request
  BY <1>2
<1>4. PICK a \in Agreements : agreement[a].status = "none"
                              /\ agreement' = [agreement EXCEPT ![a] = x]
  BY <1>0, <1>2 DEF ProposeCommit
<1>5. \A b \in Agreements : agreement'[b] = IF b = a THEN x ELSE agreement[b]
  BY <1>1, <1>4
<1>6. Finish(s) /\ UNCHANGED <<charge, ends>>
  BY DEF ProposeCommit
<1>7. \A t \in Sessions : work'[t] # Idle => t # s /\ work'[t] = work[t]
  BY <1>6, FinishKeepsLocks DEF LetInv, RequestsOK
<1>8. AllChecked'
  <2>1. \A b \in Agreements :
          agreement[b].status # "none" /\ agreement[b].inquiry # work[s].inquiry
          => agreement'[b] = agreement[b] /\ ends'[b] = ends[b] /\ charge'[b] = charge[b]
    BY <1>4, <1>5, <1>6
  <2>2. \A b \in Agreements :
          agreement'[b] = agreement[b] \/ agreement'[b].inquiry = work[s].inquiry
    BY <1>0, <1>3, <1>5
  <2>3. work[s] # Idle /\ work[s].op = "propose"
    BY <1>0, <1>1
  <2>4. QED
    BY <1>7, <2>1, <2>2, <2>3, OthersChecked
<1>9. EndsOK' /\ ChargesOK'
  BY <1>6 DEF TermsInv, EndsOK, ChargesOK
<1>10. ChargesMatchPeriod'
  BY <1>3, <1>5, <1>6 DEF TermsInv, ChargesMatchPeriod, DueMonth, End, PlannedEnd
<1>11. UniqueRows'
  <2>1. /\ \A b \in Agreements : agreement[b].request # w.request
        /\ \A b \in Agreements : ~(agreement[b].inquiry = w.inquiry
                                   /\ agreement[b].status \in Live)
    BY <1>1 DEF Checked, ProposesNew, Engaged
  <2>2. ASSUME NEW b \in Agreements, NEW c \in Agreements, b # c,
               agreement'[b].status # "none"
        PROVE  /\ agreement'[b].request # agreement'[c].request
               /\ {agreement'[b].status, agreement'[c].status} \subseteq Live =>
                    agreement'[b].inquiry # agreement'[c].inquiry
    <3>1. CASE b = a
      BY <1>3, <1>5, <2>1, <2>2, <3>1
    <3>2. CASE c = a
      BY <1>3, <1>5, <2>1, <2>2, <3>2
    <3>3. CASE b # a /\ c # a
      BY <1>5, <2>2, <3>3 DEF TermsInv, UniqueRows
    <3>4. QED
      BY <3>1, <3>2, <3>3
  <2>3. QED
    BY <1>6, <2>2 DEF TermsInv, UniqueRows
<1>12. QED
  BY <1>8, <1>9, <1>10, <1>11 DEF TermsInv

\* The rows of agreements but one are as they were, and that one keeps whose it
\* is and its terms.
LEMMA TermsAct ==
  ASSUME LetInv, TermsInv, NEW s \in Sessions, work[s].op # "idle",
         work[s].op # "propose", Finish(s), ends' = ends,
         NEW a, a = work[s].row, DOMAIN charge' = Agreements,
         \A b \in Agreements \ {a} :
           agreement'[b] = agreement[b] /\ charge'[b] = charge[b],
         agreement'[a].inquiry = agreement[a].inquiry,
         agreement'[a].request = agreement[a].request,
         agreement'[a].status \in Live => agreement[a].status \in Live
  PROVE  AllChecked' /\ UniqueRows' /\ EndsOK'
<1>1. /\ work[s] # Idle /\ a \in Agreements /\ agreement[a].status # "none"
      /\ agreement[a].inquiry = work[s].inquiry
  BY Committing DEF RequestOK, Decided, OnRow
<1>2. \A t \in Sessions : work'[t] # Idle => t # s /\ work'[t] = work[t]
  BY FinishKeepsLocks DEF LetInv, RequestsOK
<1>3. \A b \in Agreements : /\ agreement'[b].inquiry = agreement[b].inquiry
                            /\ agreement'[b].request = agreement[b].request
                            /\ agreement'[b].status \in Live => agreement[b].status \in Live
                            /\ agreement'[b].status # "none" => agreement[b].status # "none"
  BY <1>1
<1>4. AllChecked'
  BY <1>1, <1>2, <1>3, OthersChecked
<1>5. UniqueRows'
  <2>1. ASSUME NEW b \in Agreements, NEW c \in Agreements, b # c,
               agreement'[b].status # "none"
        PROVE  /\ agreement'[b].request # agreement'[c].request
               /\ {agreement'[b].status, agreement'[c].status} \subseteq Live =>
                    agreement'[b].inquiry # agreement'[c].inquiry
    BY <1>3, <2>1 DEF TermsInv, UniqueRows
  <2>2. QED
    BY <2>1 DEF TermsInv, UniqueRows
<1>6. QED
  BY <1>4, <1>5 DEF TermsInv, EndsOK

LEMMA ScheduleOK ==
  ASSUME NEW a \in Agreements, RowOK(agreement[a])
  PROVE  /\ DOMAIN Schedule(a) \subseteq Nat
         /\ Schedule(a) \in [DOMAIN Schedule(a) -> ChargeRow]
         /\ \A k \in DOMAIN Schedule(a) :
              /\ ~Schedule(a)[k].void /\ k <= agreement[a].months
<1>1. Unpaid \in ChargeRow /\ ~Unpaid.void
  BY DEF Unpaid, ChargeRow
<1>2. agreement[a].months \in Nat
  BY DEF RowOK
<1>3. QED
  BY <1>1, <1>2 DEF Schedule

LEMMA TermsAccept ==
  ASSUME LetInv, TermsInv, NEW s \in Sessions, AcceptCommit(s)
  PROVE  TermsInv'
<1>0. PICK w : w = work[s]
  OBVIOUS
<1>1. w.op = "accept" /\ w # Idle /\ RequestOK(w) /\ Decided(w)
      /\ DOMAIN agreement = Agreements
  BY <1>0, Committing DEF AcceptCommit
<1>2. PICK a : a = w.row
  OBVIOUS
<1>3. a \in Agreements /\ agreement[a].status = "proposed"
  BY <1>1, <1>2 DEF RequestOK, Decided, RoomFor
<1>4. /\ agreement' = [agreement EXCEPT ![a].status = "accepted"]
      /\ charge' = [charge EXCEPT ![a] = Schedule(a)]
      /\ Finish(s) /\ UNCHANGED ends
  BY <1>0, <1>2 DEF AcceptCommit
<1>5. /\ agreement'[a].status = "accepted"
      /\ agreement'[a].inquiry = agreement[a].inquiry
      /\ agreement'[a].request = agreement[a].request
      /\ agreement'[a].start = agreement[a].start
      /\ agreement'[a].months = agreement[a].months
      /\ agreement'[a].ended = agreement[a].ended
      /\ \A b \in Agreements \ {a} : agreement'[b] = agreement[b]
  BY <1>1, <1>3, <1>4
<1>6. DOMAIN charge' = Agreements /\ charge'[a] = Schedule(a)
      /\ \A b \in Agreements \ {a} : charge'[b] = charge[b]
  BY <1>3, <1>4 DEF TermsInv, ChargesOK
<1>7. RowOK(agreement[a]) /\ agreement[a].ended = None
  BY <1>3 DEF LetInv, RowsOK, RowOK
<1>8. AllChecked' /\ UniqueRows' /\ EndsOK'
  <2>1. work[s].op # "idle" /\ work[s].op # "propose" /\ a = work[s].row
    BY <1>0, <1>1, <1>2
  <2>2. agreement[a].status \in Live
    BY <1>3 DEF Live
  <2>3. QED
    BY <1>4, <1>5, <1>6, <2>1, <2>2, TermsAct
<1>9. ChargesOK'
  BY <1>6, <1>7, ScheduleOK DEF TermsInv, ChargesOK
<1>10. ChargesMatchPeriod'
  <2>1. ASSUME NEW k \in DOMAIN charge'[a]
        PROVE  /\ ~charge'[a][k].void /\ k \in Nat /\ k <= agreement[a].months
    BY <1>3, <1>6, <1>7, ScheduleOK
  <2>2. ASSUME NEW k \in DOMAIN charge'[a], k > 0
        PROVE  ~(DueMonth(a, k)' >= End(a)')
    <3>1. /\ agreement[a].start \in Nat /\ agreement[a].months \in Nat /\ k \in Nat
          /\ k <= agreement[a].months
      BY <1>7, <2>1 DEF RowOK
    <3>2. End(a)' = agreement[a].start + agreement[a].months
      BY <1>5, <1>7 DEF End, PlannedEnd
    <3>3. DueMonth(a, k)' = agreement[a].start + k - 1
      BY <1>5, <2>2, <3>1 DEF DueMonth
    <3>4. QED
      BY <3>1, <3>2, <3>3
  <2>3. ASSUME NEW b \in Agreements \ {a}, agreement'[b].status = "accepted",
               NEW k \in DOMAIN charge'[b]
        PROVE  /\ charge'[b][k].void <=> k > 0 /\ DueMonth(b, k)' >= End(b)'
               /\ charge'[b][k].void => ~charge'[b][k].paid
    <3>1. agreement'[b] = agreement[b] /\ charge'[b] = charge[b]
      BY <1>5, <1>6
    <3>2. DueMonth(b, k)' = DueMonth(b, k) /\ End(b)' = End(b)
      BY <3>1 DEF DueMonth, End, PlannedEnd
    <3>3. QED
      BY <2>3, <3>1, <3>2 DEF TermsInv, ChargesMatchPeriod
  <2>4. QED
    BY <2>1, <2>2, <2>3 DEF ChargesMatchPeriod
<1>11. QED
  BY <1>8, <1>9, <1>10 DEF TermsInv

LEMMA TermsReject ==
  ASSUME LetInv, TermsInv, NEW s \in Sessions, RejectCommit(s)
  PROVE  TermsInv'
<1>0. PICK w : w = work[s]
  OBVIOUS
<1>1. w.op \in {"decline", "withdraw"} /\ w # Idle /\ RequestOK(w) /\ Decided(w)
      /\ DOMAIN agreement = Agreements
  BY <1>0, Committing DEF RejectCommit
<1>2. PICK a : a = w.row
  OBVIOUS
<1>3. a \in Agreements /\ agreement[a].status = "proposed"
  BY <1>1, <1>2 DEF RequestOK, Decided, StillOpen
<1>4. PICK x : x = IF w.op = "decline" THEN "declined" ELSE "withdrawn"
  OBVIOUS
<1>5. x \notin Live /\ x # "accepted"
  BY <1>4 DEF Live
<1>6. /\ agreement' = [agreement EXCEPT ![a].status = x]
      /\ Finish(s) /\ UNCHANGED <<ends, charge>>
  BY <1>0, <1>2, <1>4 DEF RejectCommit
<1>7. /\ agreement'[a].status = x
      /\ agreement'[a].inquiry = agreement[a].inquiry
      /\ agreement'[a].request = agreement[a].request
      /\ \A b \in Agreements \ {a} : agreement'[b] = agreement[b]
  BY <1>1, <1>3, <1>6
<1>8. AllChecked' /\ UniqueRows' /\ EndsOK'
  <2>1. work[s].op # "idle" /\ work[s].op # "propose" /\ a = work[s].row
    BY <1>0, <1>1, <1>2
  <2>2. DOMAIN charge' = Agreements
    BY <1>6 DEF TermsInv, ChargesOK
  <2>3. QED
    BY <1>5, <1>6, <1>7, <2>1, <2>2, TermsAct
<1>9. ChargesOK'
  BY <1>6 DEF TermsInv, ChargesOK
<1>10. ChargesMatchPeriod'
  BY <1>5, <1>6, <1>7 DEF TermsInv, ChargesMatchPeriod, DueMonth, End, PlannedEnd
<1>11. QED
  BY <1>8, <1>9, <1>10 DEF TermsInv

\* A payment is recorded on a charge that is in force.
LEMMA TermsPay ==
  ASSUME LetInv, TermsInv, NEW s \in Sessions, PaymentCommit(s)
  PROVE  TermsInv'
<1>0. PICK w : w = work[s]
  OBVIOUS
<1>1. w.op = "pay" /\ w # Idle /\ RequestOK(w) /\ Decided(w) /\ Checked(w)
  BY <1>0, Committing DEF PaymentCommit
<1>2. PICK a, k : a = w.row /\ k = w.charge
  OBVIOUS
<1>3. a \in Agreements
  BY <1>1, <1>2 DEF RequestOK
<1>4. PICK c : c = charge[a]
  OBVIOUS
<1>5. /\ DOMAIN c \subseteq Nat /\ c \in [DOMAIN c -> ChargeRow]
      /\ k \in DOMAIN c /\ ~c[k].void /\ w.paid \in BOOLEAN
  BY <1>1, <1>2, <1>3, <1>4 DEF TermsInv, ChargesOK, Checked, PaysOwed
<1>6. PICK x : x = [c[k] EXCEPT !.paid = w.paid]
  OBVIOUS
<1>7. x \in ChargeRow /\ x.void = c[k].void
  BY <1>5, <1>6 DEF ChargeRow
<1>8. PICK d : d = [c EXCEPT ![k] = x]
  OBVIOUS
<1>9. /\ DOMAIN d = DOMAIN c /\ d \in [DOMAIN d -> ChargeRow]
      /\ d[k] = x /\ \A n \in DOMAIN c \ {k} : d[n] = c[n]
  BY <1>5, <1>7, <1>8
<1>10. charge' = [charge EXCEPT ![a] = d]
  BY <1>0, <1>2, <1>4, <1>6, <1>8 DEF PaymentCommit
<1>11. /\ DOMAIN charge' = Agreements /\ charge'[a] = d
       /\ \A b \in Agreements \ {a} : charge'[b] = charge[b]
  BY <1>3, <1>10 DEF TermsInv, ChargesOK
<1>12. Finish(s) /\ UNCHANGED <<agreement, ends>>
  BY DEF PaymentCommit
<1>13. AllChecked' /\ UniqueRows' /\ EndsOK'
  <2>1. work[s].op # "idle" /\ work[s].op # "propose" /\ a = work[s].row
    BY <1>0, <1>1, <1>2
  <2>2. QED
    BY <1>11, <1>12, <2>1, TermsAct
<1>14. ChargesOK'
  BY <1>5, <1>9, <1>11 DEF TermsInv, ChargesOK
<1>15. ChargesMatchPeriod'
  <2>1. ASSUME NEW b \in Agreements, agreement'[b].status = "accepted",
               NEW n \in DOMAIN charge'[b]
        PROVE  /\ charge'[b][n].void <=> n > 0 /\ DueMonth(b, n)' >= End(b)'
               /\ charge'[b][n].void => ~charge'[b][n].paid
    <3>1. DueMonth(b, n)' = DueMonth(b, n) /\ End(b)' = End(b)
      BY <1>12 DEF DueMonth, End, PlannedEnd
    <3>2. n \in DOMAIN charge[b] /\ agreement[b].status = "accepted"
      BY <1>4, <1>9, <1>11, <1>12, <2>1
    <3>3. /\ charge[b][n].void <=> n > 0 /\ DueMonth(b, n) >= End(b)
          /\ charge[b][n].void => ~charge[b][n].paid
      BY <3>2 DEF TermsInv, ChargesMatchPeriod
    <3>4. charge'[b][n].void = charge[b][n].void
      BY <1>4, <1>7, <1>9, <1>11, <2>1, <3>2
    <3>5. charge'[b][n] # charge[b][n] => ~charge[b][n].void
      BY <1>4, <1>5, <1>9, <1>11, <2>1, <3>2
    <3>6. QED
      BY <3>1, <3>3, <3>4, <3>5
  <2>2. QED
    BY <2>1 DEF ChargesMatchPeriod
<1>16. QED
  BY <1>13, <1>14, <1>15 DEF TermsInv

\* Early ends of one agreement are written alone.
LEMMA EndsApart ==
  ASSUME LetInv, TermsInv, NEW s \in Sessions,
         work[s].op \in {"propose_end", "decide_end"}, Finish(s),
         NEW a, a = work[s].row, DOMAIN ends' = Agreements, DOMAIN charge' = Agreements,
         ends' = [b \in Agreements |-> ends'[b]],
         \A b \in Agreements \ {a} :
           agreement'[b] = agreement[b] /\ charge'[b] = charge[b] /\ ends'[b] = ends[b],
         agreement'[a].inquiry = agreement[a].inquiry,
         agreement'[a].request = agreement[a].request,
         agreement'[a].status = agreement[a].status,
         ends'[a] \in Seq(EndRow),
         \A m, n \in DOMAIN ends'[a] : m # n =>
           /\ ends'[a][m].request # ends'[a][n].request
           /\ ~({ends'[a][m].status, ends'[a][n].status} \subseteq Live)
  PROVE  AllChecked' /\ UniqueRows' /\ EndsOK'
<1>1. /\ work[s] # Idle /\ a \in Agreements /\ agreement[a].status # "none"
      /\ agreement[a].inquiry = work[s].inquiry /\ work[s].op # "propose"
  BY Committing DEF RequestOK, Decided, OnRow
<1>2. \A t \in Sessions : work'[t] # Idle => t # s /\ work'[t] = work[t]
  BY FinishKeepsLocks DEF LetInv, RequestsOK
<1>3. \A b \in Agreements : /\ agreement'[b].inquiry = agreement[b].inquiry
                            /\ agreement'[b].request = agreement[b].request
                            /\ agreement'[b].status = agreement[b].status
  OBVIOUS
<1>4. AllChecked'
  BY <1>1, <1>2, <1>3, OthersChecked
<1>5. UniqueRows'
  <2>1. ASSUME NEW b \in Agreements, NEW c \in Agreements, b # c,
               agreement'[b].status # "none"
        PROVE  /\ agreement'[b].request # agreement'[c].request
               /\ {agreement'[b].status, agreement'[c].status} \subseteq Live =>
                    agreement'[b].inquiry # agreement'[c].inquiry
    BY <1>3, <2>1 DEF TermsInv, UniqueRows
  <2>2. \A b \in Agreements : \A m, n \in DOMAIN ends'[b] : m # n =>
          /\ ends'[b][m].request # ends'[b][n].request
          /\ ~({ends'[b][m].status, ends'[b][n].status} \subseteq Live)
    BY DEF TermsInv, UniqueRows
  <2>3. QED
    BY <2>1, <2>2 DEF UniqueRows
<1>6. EndsOK'
  <2>1. \A b \in Agreements : ends'[b] \in Seq(EndRow)
    BY DEF TermsInv, EndsOK
  <2>2. QED
    BY <2>1 DEF EndsOK
<1>7. QED
  BY <1>4, <1>5, <1>6

LEMMA TermsProposeEnd ==
  ASSUME LetInv, TermsInv, NEW s \in Sessions, ProposeEndCommit(s)
  PROVE  TermsInv'
<1>0. PICK w : w = work[s]
  OBVIOUS
<1>1. w.op = "propose_end" /\ RequestOK(w) /\ Checked(w)
  BY <1>0, Committing DEF ProposeEndCommit
<1>2. PICK a : a = w.row
  OBVIOUS
<1>3. a \in Agreements /\ ends[a] \in Seq(EndRow)
  BY <1>1, <1>2 DEF RequestOK, TermsInv, EndsOK
<1>4. PICK x : x = [status |-> "proposed", end |-> w.end, request |-> w.request]
  OBVIOUS
<1>5. /\ x \in EndRow /\ x.request = w.request
      /\ ~EndInForce(a) /\ \A n \in DOMAIN ends[a] : ends[a][n].request # w.request
  BY <1>1, <1>2, <1>4 DEF Checked, EndsOnce, EndRow
<1>6. ends' = [ends EXCEPT ![a] = Append(@, x)]
  BY <1>0, <1>2, <1>4 DEF ProposeEndCommit
<1>7. /\ DOMAIN ends' = Agreements /\ ends'[a] = Append(ends[a], x)
      /\ \A b \in Agreements \ {a} : ends'[b] = ends[b]
      /\ ends' = [b \in Agreements |-> ends'[b]]
  BY <1>3, <1>6 DEF TermsInv, EndsOK
<1>8. /\ ends'[a] \in Seq(EndRow)
      /\ \A n \in DOMAIN ends'[a] :
           IF n \in DOMAIN ends[a] THEN ends'[a][n] = ends[a][n]
           ELSE n = Len(ends[a]) + 1 /\ ends'[a][n] = x
  BY <1>3, <1>5, <1>7
<1>9. \A m, n \in DOMAIN ends'[a] : m # n =>
        /\ ends'[a][m].request # ends'[a][n].request
        /\ ~({ends'[a][m].status, ends'[a][n].status} \subseteq Live)
  <2>1. \A n \in DOMAIN ends[a] :
          ends[a][n].status \notin Live /\ ends[a][n].request # x.request
    BY <1>5 DEF EndInForce
  <2>2. \A m, n \in DOMAIN ends[a] : m # n => ends[a][m].request # ends[a][n].request
    BY <1>3 DEF TermsInv, UniqueRows
  <2>3. QED
    BY <1>8, <2>1, <2>2
<1>10. Finish(s) /\ UNCHANGED <<agreement, charge>>
  BY DEF ProposeEndCommit
<1>11. AllChecked' /\ UniqueRows' /\ EndsOK'
  <2>1. work[s].op \in {"propose_end", "decide_end"} /\ a = work[s].row
        /\ DOMAIN charge' = Agreements
    BY <1>0, <1>1, <1>2, <1>10 DEF TermsInv, ChargesOK
  <2>2. /\ \A b \in Agreements \ {a} : agreement'[b] = agreement[b]
           /\ charge'[b] = charge[b] /\ ends'[b] = ends[b]
        /\ agreement'[a].inquiry = agreement[a].inquiry
        /\ agreement'[a].request = agreement[a].request
        /\ agreement'[a].status = agreement[a].status
    BY <1>7, <1>10
  <2>3. /\ ends'[a] \in Seq(EndRow) /\ Finish(s) /\ DOMAIN ends' = Agreements
        /\ ends' = [b \in Agreements |-> ends'[b]]
    BY <1>7, <1>8, <1>10
  <2>4. QED
    BY <1>9, <2>1, <2>2, <2>3, EndsApart
<1>12. ChargesOK' /\ ChargesMatchPeriod'
  BY <1>10 DEF TermsInv, ChargesOK, ChargesMatchPeriod, DueMonth, End, PlannedEnd
<1>13. QED
  BY <1>11, <1>12 DEF TermsInv

\* An agreed early end voids the charges that fall due from then on, none of
\* which is paid.
LEMMA TermsDecideEnd ==
  ASSUME LetInv, TermsInv, NEW s \in Sessions, DecideEndCommit(s)
  PROVE  TermsInv'
<1>0. PICK w : w = work[s]
  OBVIOUS
<1>1. w.op = "decide_end" /\ RequestOK(w) /\ Decided(w) /\ Checked(w)
      /\ DOMAIN agreement = Agreements
  BY <1>0, Committing DEF DecideEndCommit
<1>2. PICK a, p : a = w.row /\ p = w.proposal
  OBVIOUS
<1>3. a \in Agreements /\ ends[a] \in Seq(EndRow)
  BY <1>1, <1>2 DEF RequestOK, TermsInv, EndsOK
<1>4. /\ p \in DOMAIN ends[a] /\ ends[a][p].status = "proposed"
      /\ w.decision \in {"accepted", "declined", "withdrawn"}
      /\ w.decision = "accepted" =>
           \A k \in Affected(a, ends[a][p].end) : ~charge[a][k].paid
  BY <1>1, <1>2 DEF Checked, DecidesOpen
<1>5. PICK x : x = [ends[a][p] EXCEPT !.status = w.decision]
  OBVIOUS
<1>6. ends[a][p] \in EndRow
  BY <1>3, <1>4
<1>7. x \in EndRow /\ x.request = ends[a][p].request /\ x.status = w.decision
  BY <1>4, <1>5, <1>6 DEF EndRow
<1>8. PICK e : e = [ends[a] EXCEPT ![p] = x]
  OBVIOUS
<1>9. ends' = [ends EXCEPT ![a] = e]
  BY <1>0, <1>2, <1>5, <1>8 DEF DecideEndCommit
<1>10. /\ DOMAIN ends' = Agreements /\ ends'[a] = e
       /\ \A b \in Agreements \ {a} : ends'[b] = ends[b]
       /\ ends' = [b \in Agreements |-> ends'[b]]
  BY <1>3, <1>9 DEF TermsInv, EndsOK
<1>11. /\ e \in Seq(EndRow) /\ DOMAIN e = DOMAIN ends[a]
       /\ \A n \in DOMAIN ends[a] : e[n] = IF n = p THEN x ELSE ends[a][n]
  BY <1>3, <1>4, <1>7, <1>8
<1>12. \A m, n \in DOMAIN ends'[a] : m # n =>
        /\ ends'[a][m].request # ends'[a][n].request
        /\ ~({ends'[a][m].status, ends'[a][n].status} \subseteq Live)
  <2>1. \A n \in DOMAIN ends[a] : /\ ends'[a][n].request = ends[a][n].request
                                  /\ ends'[a][n].status \in Live =>
                                       ends[a][n].status \in Live
    BY <1>4, <1>7, <1>10, <1>11 DEF Live
  <2>2. ASSUME NEW m \in DOMAIN ends[a], NEW n \in DOMAIN ends[a], m # n
        PROVE  /\ ends[a][m].request # ends[a][n].request
               /\ ~(ends[a][m].status \in Live /\ ends[a][n].status \in Live)
    BY <1>3, <2>2 DEF TermsInv, UniqueRows
  <2>3. QED
    BY <1>10, <1>11, <2>1, <2>2
<1>13. Finish(s)
  BY DEF DecideEndCommit
<1>14. CASE w.decision # "accepted"
  <2>1. UNCHANGED <<agreement, charge>>
    BY <1>0, <1>14 DEF DecideEndCommit
  <2>2. AllChecked' /\ UniqueRows' /\ EndsOK'
    <3>1. work[s].op \in {"propose_end", "decide_end"} /\ a = work[s].row
          /\ DOMAIN charge' = Agreements
      BY <1>0, <1>1, <1>2, <2>1 DEF TermsInv, ChargesOK
    <3>2. QED
      BY <1>10, <1>11, <1>12, <1>13, <2>1, <3>1, EndsApart
  <2>3. ChargesOK' /\ ChargesMatchPeriod'
    BY <2>1 DEF TermsInv, ChargesOK, ChargesMatchPeriod, DueMonth, End, PlannedEnd
  <2>4. QED
    BY <2>2, <2>3 DEF TermsInv
<1>15. CASE w.decision = "accepted"
  <2>1. PICK end : end = ends[a][p].end
    OBVIOUS
  <2>2. PICK c : c = charge[a]
    OBVIOUS
  <2>3. PICK d : d = [k \in DOMAIN c |-> IF k \in Affected(a, end)
                                         THEN [c[k] EXCEPT !.void = TRUE] ELSE c[k]]
    OBVIOUS
  <2>4. /\ charge' = [charge EXCEPT ![a] = d]
        /\ agreement' = [agreement EXCEPT ![a].ended = end]
    <3>1. a \in DOMAIN charge
      BY <1>3 DEF TermsInv, ChargesOK
    <3>2. QED
      BY <1>0, <1>2, <1>15, <2>1, <2>2, <2>3, <3>1 DEF DecideEndCommit
  <2>5. /\ DOMAIN charge' = Agreements /\ charge'[a] = d
        /\ \A b \in Agreements \ {a} : charge'[b] = charge[b]
    BY <1>3, <2>4 DEF TermsInv, ChargesOK
  <2>6. /\ agreement[a].status = "accepted" /\ agreement[a].ended = None
        /\ end \in Boundaries(a)
    BY <1>1, <1>2, <1>15, <2>1 DEF Decided, StillOpen
  <2>7. RowOK(agreement[a])
    BY <1>3, <2>6 DEF LetInv, RowsOK
  <2>8. agreement[a].start \in Nat /\ agreement[a].months \in Nat
    BY <2>7 DEF RowOK
  <2>9. end \in Nat /\ end # None /\ end < agreement[a].start + agreement[a].months
    BY <2>6, <2>8, NoneAssumption DEF Boundaries
  <2>10. /\ agreement'[a].ended = end
         /\ agreement'[a].status = agreement[a].status
         /\ agreement'[a].inquiry = agreement[a].inquiry
         /\ agreement'[a].request = agreement[a].request
         /\ agreement'[a].start = agreement[a].start
         /\ agreement'[a].months = agreement[a].months
         /\ \A b \in Agreements \ {a} : agreement'[b] = agreement[b]
    BY <1>1, <1>3, <2>4
  <2>11. /\ DOMAIN c \subseteq Nat /\ c \in [DOMAIN c -> ChargeRow]
    BY <1>3, <2>2 DEF TermsInv, ChargesOK
  <2>12. ASSUME NEW k \in DOMAIN c
         PROVE  /\ d[k] \in ChargeRow
                /\ d[k].void <=> k \in Affected(a, end) \/ c[k].void
                /\ d[k].paid <=> c[k].paid
    BY <2>3, <2>11 DEF ChargeRow
  <2>13. DOMAIN d = DOMAIN c /\ d \in [DOMAIN d -> ChargeRow]
    BY <2>3, <2>12
  <2>14. ChargesOK'
    BY <2>5, <2>11, <2>13 DEF TermsInv, ChargesOK
  <2>15. ASSUME NEW k \in DOMAIN c
         PROVE  /\ d[k].void <=> k > 0 /\ DueMonth(a, k)' >= End(a)'
                /\ d[k].void => ~d[k].paid
    <3>1. End(a)' = end /\ End(a) = agreement[a].start + agreement[a].months
      BY <2>6, <2>9, <2>10 DEF End, PlannedEnd
    <3>2. DueMonth(a, k)' = DueMonth(a, k) /\ DueMonth(a, k) \in Int /\ k \in Nat
      BY <2>8, <2>10, <2>11 DEF DueMonth
    <3>3. c[k].void <=> k > 0 /\ DueMonth(a, k) >= End(a)
      BY <1>3, <2>2, <2>6 DEF TermsInv, ChargesMatchPeriod
    <3>4. k \in Affected(a, end) <=> k > 0 /\ DueMonth(a, k) >= end
      BY <2>2 DEF Affected
    <3>5. c[k].void => k \in Affected(a, end)
      BY <2>8, <2>9, <3>1, <3>2, <3>3, <3>4
    <3>6. k \in Affected(a, end) => ~c[k].paid
      BY <1>4, <1>15, <2>1, <2>2
    <3>7. QED
      BY <2>12, <3>1, <3>2, <3>4, <3>5, <3>6
  <2>16. ChargesMatchPeriod'
    <3>1. ASSUME NEW b \in Agreements \ {a}, agreement'[b].status = "accepted",
                 NEW k \in DOMAIN charge'[b]
          PROVE  /\ charge'[b][k].void <=> k > 0 /\ DueMonth(b, k)' >= End(b)'
                 /\ charge'[b][k].void => ~charge'[b][k].paid
      <4>1. agreement'[b] = agreement[b] /\ charge'[b] = charge[b]
        BY <2>5, <2>10
      <4>2. DueMonth(b, k)' = DueMonth(b, k) /\ End(b)' = End(b)
        BY <4>1 DEF DueMonth, End, PlannedEnd
      <4>3. QED
        BY <3>1, <4>1, <4>2 DEF TermsInv, ChargesMatchPeriod
    <3>2. QED
      BY <2>5, <2>13, <2>15, <3>1 DEF ChargesMatchPeriod
  <2>17. AllChecked' /\ UniqueRows' /\ EndsOK'
    <3>1. work[s].op \in {"propose_end", "decide_end"} /\ a = work[s].row
      BY <1>0, <1>1, <1>2
    <3>2. QED
      BY <1>10, <1>11, <1>12, <1>13, <2>5, <2>10, <3>1, EndsApart
  <2>18. QED
    BY <2>14, <2>16, <2>17 DEF TermsInv
<1>16. QED
  BY <1>14, <1>15

LEMMA TermsRest ==
  ASSUME TermsInv, UNCHANGED <<agreement, charge, ends, work>>
  PROVE  TermsInv'
<1>1. EndsOK' /\ ChargesOK' /\ UniqueRows'
  BY DEF TermsInv, EndsOK, ChargesOK, UniqueRows
<1>2. ChargesMatchPeriod'
  BY DEF TermsInv, ChargesMatchPeriod, DueMonth, End, PlannedEnd
<1>3. AllChecked'
  BY DEF TermsInv, AllChecked, Checked, ProposesNew, Engaged, PaysOwed, EndsOnce,
     EndInForce, DecidesOpen, Affected, DueMonth
<1>4. QED
  BY <1>1, <1>2, <1>3 DEF TermsInv

LEMMA TermsStep == ASSUME LetInv, TermsInv, [Next]_vars PROVE TermsInv'
<1>1. ASSUME NEW s \in Sessions, Step(s) PROVE TermsInv'
  BY <1>1, TermsBeginnings, TermsPropose, TermsAccept, TermsReject, TermsPay,
     TermsProposeEnd, TermsDecideEnd DEF Step
<1>2. CASE NextMonth \/ (\E i \in Inquiries : CloseInquiry(i)) \/ UNCHANGED vars
  BY <1>2, TermsRest DEF NextMonth, CloseInquiry, vars
<1>3. QED
  BY <1>1, <1>2 DEF Next

\* No retry and no second client runs into a unique index of the agreements or
\* the early ends, for any number of venues of an owner.
THEOREM UniqueRowsAlways == Spec => []UniqueRows
<1>1. Init => TermsInv
  BY TermsStart
<1>2. LetInv /\ TermsInv /\ [Next]_vars => TermsInv'
  BY TermsStep
<1>3. TermsInv => UniqueRows
  BY DEF TermsInv
<1>4. QED
  BY <1>1, <1>2, <1>3, LetInvAlways, PTL DEF Spec

\* The charges in force are exactly those of the period in force, and none that
\* an early end has voided is paid.
THEOREM ChargesMatchPeriodAlways == Spec => []ChargesMatchPeriod
<1>1. Init => TermsInv
  BY TermsStart
<1>2. LetInv /\ TermsInv /\ [Next]_vars => TermsInv'
  BY TermsStep
<1>3. TermsInv => ChargesMatchPeriod
  BY DEF TermsInv
<1>4. QED
  BY <1>1, <1>2, <1>3, LetInvAlways, PTL DEF Spec

=============================================================================
