-------------------------- MODULE RentalAgreements --------------------------
(***************************************************************************)
(* Long-term rental agreements: an owner proposes one in an inquiry, the    *)
(* tenant accepts it, the owner records the payment of its charges, and     *)
(* both may agree on an early end.                                          *)
(*                                                                         *)
(* Time is counted in rental months: every date the code computes is a      *)
(* start date moved by whole months.  A handler takes its row locks, reads  *)
(* and decides under them, and writes at its commit.  A request the code    *)
(* refuses changes nothing, so only requests that are served take a step.   *)
(***************************************************************************)
EXTENDS Integers, Sequences, FiniteSets

CONSTANTS
  Inquiries, Venues,
  VenueOf,        \* the venue whose listing each inquiry is about
  Agreements,     \* agreement rows (bound)
  Requests,       \* request identifiers of clients
  Months,         \* durations that are proposed
  MaxEnds,        \* bound on the early-end proposals of an agreement
  Sessions,       \* concurrently served requests (bound)
  LastMonth,      \* bound on the calendar
  None

ASSUME VenueOfAssumption == VenueOf \in [Inquiries -> Venues]
ASSUME MonthsAssumption == Months \subseteq Nat \ {0} /\ LastMonth \in Nat
ASSUME NoneAssumption == None \notin Agreements \cup Inquiries \cup Nat
ASSUME RowsAssumption == Inquiries \cap Venues = {}

VARIABLES
  today,          \* the current month
  active,         \* inquiries that are neither closed nor withdrawn
  agreement,      \* agreement rows
  charge,         \* the charges of each agreement, by sequence number
  ends,           \* the early-end proposals of each agreement
  work            \* what each session has decided under its locks

vars == <<today, active, agreement, charge, ends, work>>

NoAgreement == [status |-> "none", inquiry |-> None, request |-> None,
                start |-> 0, months |-> 0, deposit |-> FALSE, ended |-> None]
Unpaid == [paid |-> FALSE, void |-> FALSE]
Idle == [op |-> "idle"]
Live == {"proposed", "accepted"}

Init ==
  /\ today = 0
  /\ active = Inquiries
  /\ agreement = [a \in Agreements |-> NoAgreement]
  /\ charge = [a \in Agreements |-> <<>>]
  /\ ends = [a \in Agreements |-> <<>>]
  /\ work = [s \in Sessions |-> Idle]

-----------------------------------------------------------------------------
(* Row locks. *)

\* Defect: the venue is read without FOR UPDATE.
InquiryOnly(i) == {i}

LockedBy(i) == {VenueOf[i], i}

Begin(s, w) ==
  /\ work[s] = Idle
  /\ \A t \in Sessions \ {s} :
       work[t] # Idle => LockedBy(work[t].inquiry) \cap LockedBy(w.inquiry) = {}
  /\ work' = [work EXCEPT ![s] = w]
  /\ UNCHANGED <<today, active, agreement, charge, ends>>

Finish(s) == work' = [work EXCEPT ![s] = Idle]

-----------------------------------------------------------------------------
(* Proposals. *)

VenueIn(a) == VenueOf[agreement[a].inquiry]
DueMonth(a, k) == IF k = 0 THEN agreement[a].start ELSE agreement[a].start + k - 1
PlannedEnd(a) == agreement[a].start + agreement[a].months
End(a) == IF agreement[a].ended # None THEN agreement[a].ended ELSE PlannedEnd(a)

Engaged(i) ==
  \E a \in Agreements : agreement[a].inquiry = i /\ agreement[a].status \in Live

\* The venues are of one owner, whose account a proposal locks first: his request
\* identifiers differ also between venues.
AccountFree(s) == \A t \in Sessions \ {s} : work[t].op # "propose"

Propose(s, i, r, start, months, deposit) ==
  /\ AccountFree(s)
  /\ i \in active /\ start >= today /\ ~Engaged(i)
  /\ \A a \in Agreements : agreement[a].request # r
  /\ Begin(s, [op |-> "propose", inquiry |-> i, request |-> r, start |-> start,
               months |-> months, deposit |-> deposit])

ProposeCommit(s) ==
  LET w == work[s] IN
  /\ w.op = "propose"
  /\ \E a \in Agreements :
       /\ agreement[a].status = "none"
       /\ agreement' = [agreement EXCEPT ![a] =
            [status |-> "proposed", inquiry |-> w.inquiry, request |-> w.request,
             start |-> w.start, months |-> w.months, deposit |-> w.deposit,
             ended |-> None]]
  /\ Finish(s) /\ UNCHANGED <<today, active, charge, ends>>

Overlap(a, b) == agreement[b].start < PlannedEnd(a) /\ End(b) > agreement[a].start

MayAccept(a) ==
  /\ agreement[a].inquiry \in active /\ agreement[a].start >= today
  /\ \A b \in Agreements :
       agreement[b].status = "accepted" /\ VenueIn(b) = VenueIn(a) => ~Overlap(a, b)

Act(s, a, action) ==
  /\ agreement[a].status = "proposed"
  /\ action = "accept" => MayAccept(a)
  /\ Begin(s, [op |-> action, inquiry |-> agreement[a].inquiry, row |-> a])

\* The deposit, when there is one, is charge 0.
Schedule(a) ==
  [k \in (IF agreement[a].deposit THEN {0} ELSE {}) \cup 1..agreement[a].months
     |-> Unpaid]

AcceptCommit(s) ==
  LET a == work[s].row IN
  /\ work[s].op = "accept"
  /\ agreement' = [agreement EXCEPT ![a].status = "accepted"]
  /\ charge' = [charge EXCEPT ![a] = Schedule(a)]
  /\ Finish(s) /\ UNCHANGED <<today, active, ends>>

RejectCommit(s) ==
  LET w == work[s] IN
  /\ w.op \in {"decline", "withdraw"}
  /\ agreement' = [agreement EXCEPT ![w.row].status =
       IF w.op = "decline" THEN "declined" ELSE "withdrawn"]
  /\ Finish(s) /\ UNCHANGED <<today, active, charge, ends>>

\* One side closes or withdraws the inquiry (RentalInquiries): its row is locked.
CloseInquiry(i) ==
  /\ i \in active
  /\ \A s \in Sessions : work[s] # Idle => i \notin LockedBy(work[s].inquiry)
  /\ active' = active \ {i}
  /\ UNCHANGED <<today, agreement, charge, ends, work>>

-----------------------------------------------------------------------------
(* Payments and early ends. *)

RecordPayment(s, a, k, paid) ==
  /\ agreement[a].status = "accepted" /\ k \in DOMAIN charge[a]
  /\ ~charge[a][k].void /\ charge[a][k].paid # paid
  /\ Begin(s, [op |-> "pay", inquiry |-> agreement[a].inquiry, row |-> a,
               charge |-> k, paid |-> paid])

PaymentCommit(s) ==
  LET w == work[s] IN
  /\ w.op = "pay"
  /\ charge' = [charge EXCEPT ![w.row][w.charge].paid = w.paid]
  /\ Finish(s) /\ UNCHANGED <<today, active, agreement, ends>>

Boundaries(a) == {agreement[a].start + k : k \in 1..(agreement[a].months - 1)}

Affected(a, end) == {k \in DOMAIN charge[a] : k > 0 /\ DueMonth(a, k) >= end}

Endable(a, end) ==
  /\ agreement[a].status = "accepted" /\ agreement[a].ended = None
  /\ end >= today /\ end \in Boundaries(a)
  /\ Affected(a, end) # {}
  /\ \A k \in Affected(a, end) : ~charge[a][k].paid /\ ~charge[a][k].void

EndInForce(a) == \E n \in DOMAIN ends[a] : ends[a][n].status \in Live

ProposeEnd(s, a, end, r) ==
  /\ Endable(a, end) /\ ~EndInForce(a) /\ Len(ends[a]) < MaxEnds
  /\ \A n \in DOMAIN ends[a] : ends[a][n].request # r
  /\ Begin(s, [op |-> "propose_end", inquiry |-> agreement[a].inquiry, row |-> a,
               end |-> end, request |-> r])

ProposeEndCommit(s) ==
  LET w == work[s] IN
  /\ w.op = "propose_end"
  /\ ends' = [ends EXCEPT ![w.row] =
       Append(@, [status |-> "proposed", end |-> w.end, request |-> w.request])]
  /\ Finish(s) /\ UNCHANGED <<today, active, agreement, charge>>

DecideEnd(s, a, n, decision) ==
  /\ ends[a][n].status = "proposed"
  /\ decision = "accepted" => Endable(a, ends[a][n].end)
  /\ Begin(s, [op |-> "decide_end", inquiry |-> agreement[a].inquiry, row |-> a,
               proposal |-> n, decision |-> decision])

DecideEndCommit(s) ==
  LET w == work[s]  a == w.row  end == ends[a][w.proposal].end IN
  /\ w.op = "decide_end"
  /\ ends' = [ends EXCEPT ![a][w.proposal].status = w.decision]
  /\ IF w.decision = "accepted"
     THEN /\ charge' = [charge EXCEPT ![a] = [k \in DOMAIN @ |->
               IF k \in Affected(a, end) THEN [@[k] EXCEPT !.void = TRUE] ELSE @[k]]]
          /\ agreement' = [agreement EXCEPT ![a].ended = end]
     ELSE UNCHANGED <<charge, agreement>>
  /\ Finish(s) /\ UNCHANGED <<today, active>>

NextMonth ==
  /\ today < LastMonth /\ today' = today + 1
  /\ UNCHANGED <<active, agreement, charge, ends, work>>

Step(s) ==
  \/ ProposeCommit(s) \/ AcceptCommit(s) \/ RejectCommit(s)
  \/ PaymentCommit(s) \/ ProposeEndCommit(s) \/ DecideEndCommit(s)
  \/ \E i \in Inquiries, r \in Requests, start \in 0..LastMonth, m \in Months,
        d \in BOOLEAN : Propose(s, i, r, start, m, d)
  \/ \E a \in Agreements :
       \/ \E action \in {"accept", "decline", "withdraw"} : Act(s, a, action)
       \/ \E k \in DOMAIN charge[a], p \in BOOLEAN : RecordPayment(s, a, k, p)
       \/ \E end \in 0..LastMonth, r \in Requests : ProposeEnd(s, a, end, r)
       \/ \E n \in DOMAIN ends[a], d \in {"accepted", "declined", "withdrawn"} :
            DecideEnd(s, a, n, d)

Next == NextMonth \/ (\E i \in Inquiries : CloseInquiry(i)) \/ (\E s \in Sessions : Step(s))

Spec == Init /\ [][Next]_vars

-----------------------------------------------------------------------------
(* Properties. *)

\* No venue is ever let to two tenants for the same month, through whichever of
\* its listings they asked, also when an early end freed part of a period
\* (rental_agreement_service.py:210).
NoDoubleLet ==
  \A a, b \in Agreements :
    /\ a # b /\ agreement[a].status = "accepted" /\ agreement[b].status = "accepted"
    /\ VenueIn(a) = VenueIn(b)
    => End(a) <= agreement[b].start \/ End(b) <= agreement[a].start

\* The charges in force are exactly those of the period in force, and a payment
\* is never recorded on a charge that an early end has voided, although both
\* are decided by different people (rental_termination_service.py:50).
ChargesMatchPeriod ==
  \A a \in Agreements : agreement[a].status = "accepted" =>
    \A k \in DOMAIN charge[a] :
      /\ charge[a][k].void <=> k > 0 /\ DueMonth(a, k) >= End(a)
      /\ charge[a][k].void => ~charge[a][k].paid

\* No retry and no second client runs into a unique index of the agreements or
\* the early ends (rental_agreement.py:23-41, 107-120).
UniqueRows ==
  /\ \A a, b \in Agreements :
       a # b /\ agreement[a].status # "none" =>
         /\ agreement[a].request # agreement[b].request
         /\ {agreement[a].status, agreement[b].status} \subseteq Live =>
              agreement[a].inquiry # agreement[b].inquiry
  /\ \A a \in Agreements : \A m, n \in DOMAIN ends[a] : m # n =>
       /\ ends[a][m].request # ends[a][n].request
       /\ ~({ends[a][m].status, ends[a][n].status} \subseteq Live)

\* A proposal is never accepted once its inquiry has been closed or withdrawn,
\* even when both happen at the same time.
LetWhileActive ==
  \A a \in Agreements :
    agreement[a].status = "proposed" /\ agreement'[a].status = "accepted"
    => agreement[a].inquiry \in active
NoLettingAfterClose == [][LetWhileActive]_vars
=============================================================================
