---------------------------- MODULE HourlyParts ----------------------------
(***************************************************************************)
(* What happens to an hourly reservation after it was booked, and what       *)
(* surrounds it: add-ons, promotions and blocks, the waitlist, transfers,    *)
(* invitations and reminders.  The components share no rows that their       *)
(* properties tell apart, so each runs alone over its own variables: the     *)
(* variable scene, chosen at the start, says which.                          *)
(***************************************************************************)
EXTENDS HourlyReservations

CONSTANTS
  Customers, Regulars,     \* who books with extras, whom the owner may block
  Hours,                   \* times that do not overlap each other
  Wishes, PlainWishes,     \* the bookings that they ask for
  Ids,                     \* reservation rows (bound)
  Stock, MaxRedemptions,   \* of the add-on, and of the promotion
  MaxBlocks,               \* bound on the blocks of a customer
  Members,                 \* who waits for a time or is handed a reservation
  Entries, MaxBookings,    \* the waitlist (bounds)
  Transferred, Offers,     \* reservations and transfers (bounds)
  Limit,                   \* active reservations a member may have
  Guests,                  \* the invited addresses
  Reminded, Starts,        \* reservations to be reminded of, and their times
  First, Final,            \* how long before the start the reminders are due
  LastRun, MaxDismissals   \* bounds

ASSUME ExtrasAssumption ==
  /\ IsFiniteSet(Ids) /\ None \notin Ids \cup Customers \cup Regulars
  /\ Stock \in Nat /\ MaxRedemptions \in Nat
  /\ \A r \in Wishes \cup PlainWishes :
       /\ r.slots \subseteq Hours /\ IsFiniteSet(r.slots)
       /\ r.quantity \in Nat /\ r.code \in BOOLEAN
  /\ \A r \in Wishes : r.user \in Customers
  /\ \A r \in PlainWishes : r.user \in Regulars
ASSUME WaitlistAssumption == Hours \subseteq Int
ASSUME TransfersAssumption ==
  IsFiniteSet(Transferred) /\ Limit \in Nat /\ None \notin Members
ASSUME RemindersAssumption == IsFiniteSet(Sessions)

VARIABLES scene, work, bookings, promotion, addOn, block, booked, entry, freed,
          inbox, count, reservation, offer, invitation, live, mailed, audited, dismissed

partsVars == <<vars, scene, work, bookings, promotion, addOn, block, booked,
               entry, freed, inbox, count, reservation, offer, invitation, live,
               mailed, audited, dismissed>>

-----------------------------------------------------------------------------
(* The components. *)

\* Bookings with extras, and bookings of customers whom the owner blocks.
MoveAndSwitch == {"move", "switch"}
Extras == INSTANCE BookingExtras WITH
  Slots <- Hours, Requests <- Wishes, Ops <- MoveAndSwitch
MoveAndBlock == {"move", "block"}
Blocks == INSTANCE BookingExtras WITH
  Customers <- Regulars, Slots <- Hours, Requests <- PlainWishes,
  Ops <- MoveAndBlock

Waiting == INSTANCE Waitlist WITH Users <- Members

Transfers == INSTANCE ReservationTransfers WITH
  Users <- Members, Reservations <- Transferred

Invitations == INSTANCE GuestInvitations

Reminders == INSTANCE ReservationReminders WITH
  Reservations <- Reminded, LastTick <- LastRun, Workers <- Sessions

-----------------------------------------------------------------------------
(* The scenes. *)

NoExtras == bookings = None /\ promotion = None /\ addOn = None /\ block = None
NoWaiting == booked = None /\ entry = None /\ freed = None /\ count = None
NoTransfers == offer = None
NoGuests == invitation = None /\ live = None
NoReminders == mailed = None /\ audited = None /\ dismissed = None
NoInbox == inbox = None
NoReservation == reservation = None

PartsInit ==
  \/ /\ scene = "life" /\ Init /\ work = None
     /\ NoExtras /\ NoWaiting /\ NoTransfers /\ NoGuests
     /\ NoReminders /\ NoInbox /\ NoReservation
  \/ /\ scene = "extras" /\ Init /\ Extras!Init
     /\ NoWaiting /\ NoTransfers /\ NoGuests
     /\ NoReminders /\ NoInbox /\ NoReservation
  \/ /\ scene = "blocks" /\ Init /\ Blocks!Init
     /\ NoWaiting /\ NoTransfers /\ NoGuests
     /\ NoReminders /\ NoInbox /\ NoReservation
  \/ /\ scene = "waitlist" /\ Init /\ Waiting!Init
     /\ NoExtras /\ NoTransfers /\ NoGuests
     /\ NoReminders /\ NoReservation
  \/ /\ scene = "transfers" /\ Init /\ Transfers!Init
     /\ NoExtras /\ NoWaiting /\ NoGuests /\ NoReminders /\ NoInbox
  \/ /\ scene = "guests" /\ Init /\ Invitations!Init
     /\ NoExtras /\ NoWaiting /\ NoTransfers
     /\ NoReminders /\ NoInbox /\ NoReservation
  \/ /\ scene = "reminders" /\ Init /\ Reminders!Init
     /\ NoExtras /\ NoWaiting /\ NoTransfers /\ NoGuests

NotExtras == UNCHANGED <<bookings, promotion, addOn, block>>
NotWaiting == UNCHANGED <<booked, entry, freed, count>>
NotTransfers == UNCHANGED offer
NotGuests == UNCHANGED <<invitation, live>>
NotReminders == UNCHANGED <<mailed, audited, dismissed>>
NotLife == UNCHANGED <<row, pay, stripe, pc, job, held, revived, mixed>>

PartsNext ==
  /\ UNCHANGED scene
  /\ \/ /\ scene = "life" /\ Next
        /\ NotExtras /\ NotWaiting /\ NotTransfers /\ NotGuests
        /\ NotReminders /\ UNCHANGED <<work, inbox, reservation>>
     \/ /\ scene = "extras" /\ Extras!Next
        /\ NotLife /\ NotWaiting /\ NotTransfers /\ NotGuests
        /\ NotReminders /\ UNCHANGED <<now, inbox, reservation>>
     \/ /\ scene = "blocks" /\ Blocks!Next
        /\ NotLife /\ NotWaiting /\ NotTransfers /\ NotGuests
        /\ NotReminders /\ UNCHANGED <<now, inbox, reservation>>
     \/ /\ scene = "waitlist" /\ Waiting!Next
        /\ NotLife /\ NotExtras /\ NotTransfers /\ NotGuests
        /\ NotReminders /\ UNCHANGED <<now, reservation>>
     \/ /\ scene = "transfers" /\ Transfers!Next
        /\ NotLife /\ NotExtras /\ NotWaiting /\ NotGuests
        /\ NotReminders /\ UNCHANGED <<now, inbox>>
     \/ /\ scene = "guests" /\ Invitations!Next
        /\ NotLife /\ NotExtras /\ NotWaiting /\ NotTransfers
        /\ NotReminders /\ UNCHANGED <<now, inbox, reservation>>
     \/ /\ scene = "reminders" /\ Reminders!Next
        /\ NotLife /\ NotExtras /\ NotWaiting /\ NotTransfers /\ NotGuests

PartsSpec == PartsInit /\ [][PartsNext]_partsVars

-----------------------------------------------------------------------------
(* Properties of the components, besides those of HourlyReservations. *)

\* Requests that arrive together never exceed what is limited: an add-on's
\* stock and a promotion's redemptions (BookingExtras), and the reservations of
\* a customer who books and is handed a reservation (ReservationTransfers).
LimitsKept ==
  /\ scene = "extras" => Extras!ExtrasBounded
  /\ scene = "transfers" => Transfers!LimitKept

\* A customer whom the venue has blocked neither books nor moves, whichever of
\* the two requests was first (BookingExtras).
BlockedNeverBook == [][scene = "blocks" => Blocks!BlockedStays]_partsVars

\* What has ended is not revived by an answer that was on its way: a cancelled
\* reservation is not handed over (ReservationTransfers), and an invitation
\* that was answered, revoked or missed is not answered (GuestInvitations).
EndedStaysEnded ==
  [][/\ scene = "transfers" => Transfers!HandsLiveOver
     /\ scene = "guests" => Invitations!AnswersOpenOnly]_partsVars

\* Overlapping runs and requests tell a customer of a freed time or of a coming
\* reservation once (Waitlist, ReservationReminders).
ToldOnce ==
  /\ scene = "waitlist" => Waiting!ToldOnce
  /\ scene = "reminders" => Reminders!RemindedOnce

\* Who has waited longest is told first (Waitlist).
OldestFirst == [][scene = "waitlist" => Waiting!PicksOldest]_partsVars
=============================================================================
