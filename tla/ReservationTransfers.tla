----------------------- MODULE ReservationTransfers -----------------------
(***************************************************************************)
(* Handing a confirmed reservation over to another account, while its       *)
(* owner cancels it or takes the offer back and the recipient books more.   *)
(*                                                                         *)
(* Accepting locks the offer, then the recipient, then the reservation.     *)
(* Offering, revoking and cancelling read without locks and write the       *)
(* columns that differ from what they read.                                 *)
(***************************************************************************)
EXTENDS Integers, FiniteSets

CONSTANTS
  Users,
  Reservations,   \* reservation rows of one venue (bound)
  Offers,         \* transfer rows (bound)
  Sessions,       \* requests served at a time
  Limit,          \* active reservations that a customer may have at the venue
  None

VARIABLES
  reservation,    \* owner and status of each reservation
  offer,          \* the transfers
  work            \* what each session is doing

vars == <<reservation, offer, work>>

NoOffer == [status |-> "none", of |-> None, from |-> None, to |-> None, late |-> FALSE]
Idle == [op |-> "idle"]

Init ==
  /\ reservation = [r \in Reservations |-> [owner |-> None, status |-> "none"]]
  /\ offer = [o \in Offers |-> NoOffer]
  /\ work = [s \in Sessions |-> Idle]

Finish(s) == work' = [work EXCEPT ![s] = Idle]
Active(u) == {r \in Reservations :
  reservation[r].owner = u /\ reservation[r].status \in {"confirmed", "started"}}

-----------------------------------------------------------------------------
(* Locks. *)

\* A recipient has been found fit to take the reservation over.
Handing(s) == work[s].op = "accept" /\ work[s].decided

UserFree(u) ==
  \A s \in Sessions : work[s].op = "book" \/ Handing(s) => work[s].user # u

OfferFree(o) == \A s \in Sessions : work[s].op = "accept" => work[s].offer # o

\* Defect: accepting reads the reservation without FOR UPDATE.
RowShared(r) == TRUE

RowFree(r) == \A s \in Sessions : Handing(s) => offer[work[s].offer].of # r

-----------------------------------------------------------------------------
(* What else happens to reservations. *)

\* A booking counts under the user's lock.
BookDecide(s, u) ==
  /\ work[s] = Idle /\ UserFree(u) /\ Cardinality(Active(u)) < Limit
  /\ work' = [work EXCEPT ![s] = [op |-> "book", user |-> u]]
  /\ UNCHANGED <<reservation, offer>>

BookCommit(s) ==
  /\ work[s].op = "book"
  /\ \E r \in Reservations :
       /\ reservation[r].status = "none"
       /\ reservation' = [reservation EXCEPT ![r] =
            [owner |-> work[s].user, status |-> "confirmed"]]
  /\ Finish(s)
  /\ UNCHANGED offer

BookRefuse(s) ==
  /\ work[s].op = "book" /\ Finish(s)
  /\ UNCHANGED <<reservation, offer>>

CancelRead(s, u, r) ==
  /\ work[s] = Idle /\ reservation[r].owner = u /\ reservation[r].status = "confirmed"
  /\ work' = [work EXCEPT ![s] = [op |-> "cancel", of |-> r]]
  /\ UNCHANGED <<reservation, offer>>

\* The copy says "confirmed": only the status is written.
CancelCommit(s) ==
  /\ work[s].op = "cancel" /\ RowFree(work[s].of)
  /\ reservation' = [reservation EXCEPT ![work[s].of].status = "cancelled"]
  /\ Finish(s)
  /\ UNCHANGED offer

Begin(r) ==
  /\ reservation[r].status = "confirmed"
  /\ RowFree(r)
  /\ reservation' = [reservation EXCEPT ![r].status = "started"]
  /\ UNCHANGED <<offer, work>>

-----------------------------------------------------------------------------
(* Offering. *)

Offer(s, u, r, to) ==
  /\ work[s] = Idle /\ to # u
  /\ reservation[r].owner = u /\ reservation[r].status = "confirmed"
  /\ work' = [work EXCEPT ![s] = [op |-> "offer", user |-> u, of |-> r, to |-> to,
                                  expired |-> FALSE]]
  /\ UNCHANGED <<reservation, offer>>

Expired(o) == [o EXCEPT !.status = "expired"]

\* Offers that are overdue are expired in a transaction of their own.
ExpirePending(s) ==
  /\ work[s].op = "offer" /\ ~work[s].expired
  /\ LET overdue == {o \in Offers : /\ offer[o].of = work[s].of
                                   /\ offer[o].status = "pending" /\ offer[o].late}
     IN /\ \A o \in overdue : OfferFree(o)
        /\ offer' = [o \in Offers |-> IF o \in overdue THEN Expired(offer[o]) ELSE offer[o]]
  /\ work' = [work EXCEPT ![s].expired = TRUE]
  /\ UNCHANGED reservation

\* The unique active_key is set while an offer is pending.
Taken(r) == \E o \in Offers : offer[o].of = r /\ offer[o].status = "pending"

OfferCommit(s) ==
  LET w == work[s] IN
  /\ w.op = "offer" /\ w.expired /\ ~Taken(w.of)
  /\ \E o \in Offers :
       /\ offer[o] = NoOffer
       /\ offer' = [offer EXCEPT ![o] = [status |-> "pending", of |-> w.of,
                                         from |-> w.user, to |-> w.to, late |-> FALSE]]
  /\ Finish(s)
  /\ UNCHANGED reservation

OfferRefuse(s) ==
  /\ work[s].op = "offer" /\ work[s].expired
  /\ Taken(work[s].of) \/ \A o \in Offers : offer[o] # NoOffer
  /\ Finish(s)
  /\ UNCHANGED <<reservation, offer>>

Overdue(o) ==
  /\ offer[o].status = "pending" /\ ~offer[o].late
  /\ offer' = [offer EXCEPT ![o].late = TRUE]
  /\ UNCHANGED <<reservation, work>>

-----------------------------------------------------------------------------
(* Answering. *)

AcceptLock(s, o) ==
  /\ work[s] = Idle /\ OfferFree(o)
  /\ offer[o].status = "pending" /\ ~offer[o].late
  /\ work' = [work EXCEPT ![s] = [op |-> "accept", user |-> offer[o].to, offer |-> o,
                                  decided |-> FALSE]]
  /\ UNCHANGED <<reservation, offer>>

\* Too late, an answer of either kind expires the offer.
AnswerLate(s, o) ==
  /\ work[s] = Idle /\ OfferFree(o)
  /\ offer[o].status = "pending" /\ offer[o].late
  /\ offer' = [offer EXCEPT ![o] = Expired(@)]
  /\ UNCHANGED <<reservation, work>>

Decline(s, o) ==
  /\ work[s] = Idle /\ OfferFree(o)
  /\ offer[o].status = "pending" /\ ~offer[o].late
  /\ offer' = [offer EXCEPT ![o].status = "declined"]
  /\ UNCHANGED <<reservation, work>>

Transferable(u, o) ==
  /\ reservation[offer[o].of].owner = offer[o].from
  /\ reservation[offer[o].of].status = "confirmed"
  /\ Cardinality(Active(u)) < Limit

\* The recipient and the reservation are locked and looked at.
AcceptDecide(s) ==
  LET w == work[s] IN
  /\ w.op = "accept" /\ ~w.decided
  /\ UserFree(w.user) /\ RowFree(offer[w.offer].of)
  /\ Transferable(w.user, w.offer)
  /\ work' = [work EXCEPT ![s].decided = TRUE]
  /\ UNCHANGED <<reservation, offer>>

AcceptRefuse(s) ==
  LET w == work[s] IN
  /\ w.op = "accept" /\ ~w.decided
  /\ UserFree(w.user) /\ RowFree(offer[w.offer].of)
  /\ ~Transferable(w.user, w.offer)
  /\ Finish(s)
  /\ UNCHANGED <<reservation, offer>>

AcceptCommit(s) ==
  LET w == work[s] IN
  /\ Handing(s)
  /\ reservation' = [reservation EXCEPT ![offer[w.offer].of].owner = w.user]
  /\ offer' = [offer EXCEPT ![w.offer].status = "accepted"]
  /\ Finish(s)

RevokeRead(s, u, o) ==
  /\ work[s] = Idle /\ offer[o].status = "pending"
  /\ reservation[offer[o].of].owner = u
  /\ work' = [work EXCEPT ![s] = [op |-> "revoke", which |-> o]]
  /\ UNCHANGED <<reservation, offer>>

RevokeCommit(s) ==
  /\ work[s].op = "revoke" /\ OfferFree(work[s].which)
  /\ offer' = [offer EXCEPT ![work[s].which].status = "revoked"]
  /\ Finish(s)
  /\ UNCHANGED reservation

Next ==
  \/ \E r \in Reservations : Begin(r)
  \/ \E o \in Offers : Overdue(o)
  \/ \E s \in Sessions :
       \/ BookCommit(s) \/ BookRefuse(s) \/ CancelCommit(s)
       \/ ExpirePending(s) \/ OfferCommit(s) \/ OfferRefuse(s)
       \/ AcceptDecide(s) \/ AcceptRefuse(s) \/ AcceptCommit(s) \/ RevokeCommit(s)
       \/ \E o \in Offers : AcceptLock(s, o) \/ AnswerLate(s, o) \/ Decline(s, o)
       \/ \E u \in Users :
            \/ BookDecide(s, u)
            \/ \E o \in Offers : RevokeRead(s, u, o)
            \/ \E r \in Reservations :
                 CancelRead(s, u, r) \/ \E to \in Users : Offer(s, u, r, to)

Spec == Init /\ [][Next]_vars

-----------------------------------------------------------------------------
(* Properties. *)

\* Neither bookings nor accepted offers that arrive together take a customer
\* over the venue's limit of active reservations.
LimitKept == \A u \in Users : Cardinality(Active(u)) <= Limit

\* A reservation changes hands only while it is confirmed and lies ahead: not
\* after a cancellation that was on its way when the offer was accepted.
HandsLiveOver ==
  \A r \in Reservations :
    reservation[r].owner \notin {None, reservation'[r].owner}
    => reservation[r].status = "confirmed"
OnlyLiveChangesHands == [][HandsLiveOver]_vars
=============================================================================
