---------------------------- MODULE NightlyStays ----------------------------
(***************************************************************************)
(* The nightly inventory of Bookica: stays, owner blocks, guest-requested  *)
(* date changes, listing edits and hourly resources, all of which compete  *)
(* for the calendar of a venue (one whole apartment).                      *)
(*                                                                         *)
(* Every request is a database session that takes row locks one after the  *)
(* other and keeps them until it commits or rolls back.  PostgreSQL runs   *)
(* at READ COMMITTED: a statement sees whatever other sessions committed   *)
(* before it, so the reads and the commit of one request are separate      *)
(* actions here, and the other sessions move in between.                   *)
(***************************************************************************)
EXTENDS Integers, FiniteSets

CONSTANTS
  Users, Venues, Listings,       \* accounts, apartments, property listings
  StayIds, BlockIds, ChangeIds,  \* rows the tables may hold (bounds)
  Requests,                      \* client-chosen request identifiers
  Sessions,                      \* concurrently served requests (bound)
  Owner,                         \* the owner account of each venue
  Admins,                        \* accounts with the administrator role
  Dates,                         \* half-open date ranges [in, out) clients send
  Offers,                        \* listing contents owners may save
  Catalogues,                    \* the listings that may exist at the start
  Ops,                           \* the kinds of request clients issue
  BlockHorizon,                  \* how far ahead a block may end (365 days)
  LastDay,                       \* bound on the calendar clock
  None

Offer == [venue : Venues, short : BOOLEAN, published : BOOLEAN,
          enabled : BOOLEAN, gap : Nat, notice : Nat, window : Nat,
          minNights : Nat, maxNights : Nat, price : Nat]

AllOps == {"book", "cancel", "block", "unblock", "propose",
           "accept", "decline", "withdraw", "list", "edit", "resource"}

ASSUME NoneAssumption ==
  None \notin Users \cup Venues \cup Listings \cup StayIds \cup BlockIds
                \cup ChangeIds \cup Requests \cup Dates \cup Offers
ASSUME OwnerAssumption == Owner \in [Venues -> Users] /\ Admins \subseteq Users
ASSUME DatesAssumption ==
  \A d \in Dates : d \in [in : Nat, out : Nat] /\ d.in < d.out
\* The request schema: online booking and preparation days only for short stays.
ASSUME OffersAssumption ==
  /\ Offers \subseteq Offer
  /\ \A o \in Offers : (o.enabled \/ o.gap > 0) => o.short
ASSUME CatalogueAssumption ==
  Catalogues \subseteq [Listings -> Offers \cup {None}]
ASSUME BoundsAssumption ==
  Ops \subseteq AllOps /\ LastDay \in Nat /\ BlockHorizon \in Nat

VARIABLES
  today,    \* the calendar day in the property's timezone
  listing,  \* property_listings, None for a row that does not exist yet
  hourly,   \* the venues that have hourly resources
  stays, blocks, changes,  \* the tables of the nightly calendar
  pc,       \* where each session stands in its handler
  job,      \* the request a session serves, with what it has read
  held      \* the row locks a session holds

tables == <<today, listing, hourly, stays, blocks, changes>>
vars == <<tables, pc, job, held>>

NoStay   == [status |-> "none", listing |-> None, venue |-> None,
             user |-> None, request |-> None, dates |-> None, price |-> 0]
NoBlock  == [status |-> "none", venue |-> None, request |-> None,
             dates |-> None]
NoChange == [status |-> "none", stay |-> None, request |-> None,
             dates |-> None, price |-> 0, oldDates |-> None, oldPrice |-> 0]
NoJob    == [op |-> "none", user |-> None, listing |-> None, venue |-> None,
             stay |-> None, row |-> None, request |-> None, dates |-> None,
             price |-> 0, gap |-> 0, offer |-> None]
NoLocks  == [user |-> None, shares |-> {}, listing |-> None, venue |-> None,
             stay |-> None]

Init ==
  /\ today = 0
  /\ listing \in Catalogues
  /\ hourly = {}
  /\ stays = [i \in StayIds |-> NoStay]
  /\ blocks = [b \in BlockIds |-> NoBlock]
  /\ changes = [c \in ChangeIds |-> NoChange]
  /\ pc = [s \in Sessions |-> "idle"]
  /\ job = [s \in Sessions |-> NoJob]
  /\ held = [s \in Sessions |-> NoLocks]

-----------------------------------------------------------------------------
(* Row locks.  FOR UPDATE excludes every other lock on the row; the FOR KEY *)
(* SHARE that a foreign-key check takes excludes only FOR UPDATE.           *)

\* Defect: the row is read without FOR UPDATE.
NeverBusy(s, row) == TRUE

UserFree(s, u) ==
  \A t \in Sessions \ {s} : held[t].user # u /\ u \notin held[t].shares
UserShareable(s, u) == \A t \in Sessions \ {s} : held[t].user # u
ListingFree(s, l) == \A t \in Sessions \ {s} : held[t].listing # l
VenueFree(s, v) == \A t \in Sessions \ {s} : held[t].venue # v
StayFree(s, i) == \A t \in Sessions \ {s} : held[t].stay # i

\* The response is sent: commit or rollback releases every lock.
Finish(s) ==
  /\ pc' = [pc EXCEPT ![s] = "idle"]
  /\ job' = [job EXCEPT ![s] = NoJob]
  /\ held' = [held EXCEPT ![s] = NoLocks]

Goto(s, label) == pc' = [pc EXCEPT ![s] = label]

\* Bound: a request that inserts starts only while a row is left for it.
RowLeft(table, op) ==
  Cardinality({t \in Sessions : job[t].op = op})
    < Cardinality({k \in DOMAIN table : table[k].status = "none"})

-----------------------------------------------------------------------------
(* The rules the handlers share. *)

\* Half-open ranges closer than gap days to each other (gap 0: they overlap).
Near(d, e, gap) == d.in < e.out + gap /\ d.out > e.in - gap

\* Defect: owner blocks are not asked for.
OccupiedByStays(v, d, gap, self) ==
  \E i \in StayIds \ {self} :
    /\ stays[i].status = "confirmed" /\ stays[i].venue = v
    /\ Near(stays[i].dates, d, gap)

\* The venue's calendar has something in the way: stays widened by the
\* preparation gap, owner blocks exactly as entered.
Occupied(v, d, gap, self) ==
  \/ \E i \in StayIds \ {self} :
       /\ stays[i].status = "confirmed" /\ stays[i].venue = v
       /\ Near(stays[i].dates, d, gap)
  \/ \E b \in BlockIds :
       /\ blocks[b].status = "active" /\ blocks[b].venue = v
       /\ Near(blocks[b].dates, d, 0)

OnVenue(v) == {l \in Listings : listing[l] # None /\ listing[l].venue = v}

\* The longest gap among the booking-enabled short-stay listings of the venue,
\* 0 without one; as the set of that one number.
PreparationDays(v) ==
  LET gaps == {0} \cup {listing[l].gap : l \in {k \in OnVenue(v) :
                                 listing[k].short /\ listing[k].enabled}}
  IN {g \in gaps : \A h \in gaps : h <= g}

Bookable(l) ==
  /\ listing[l] # None
  /\ listing[l].published /\ listing[l].short /\ listing[l].enabled

\* Notice, booking window and length of stay; the quote is the listing's price.
DatesAllowed(o, d) ==
  /\ d.in >= today + o.notice
  /\ d.out <= today + o.window
  /\ d.out - d.in \in o.minNights .. o.maxNights

MayManage(u, v) == u \in Admins \/ u = Owner[v]

-----------------------------------------------------------------------------
(* Booking a stay: account, listing, venue, then the recheck and the insert. *)

PreviousStay(u, r) ==
  \E i \in StayIds : stays[i].status # "none" /\ stays[i].user = u
                     /\ stays[i].request = r

\* A retry of a request that was served returns the old row and ends here.
BookLockUser(s, u, l, r, d, p) ==
  /\ "book" \in Ops /\ pc[s] = "idle" /\ RowLeft(stays, "book")
  /\ UserFree(s, u)
  /\ ~PreviousStay(u, r)
  /\ job' = [job EXCEPT ![s] = [NoJob EXCEPT !.op = "book", !.user = u,
               !.listing = l, !.request = r, !.dates = d, !.price = p]]
  /\ held' = [held EXCEPT ![s].user = u]
  /\ Goto(s, "book_listing")
  /\ UNCHANGED tables

BookLockListing(s) ==
  LET l == job[s].listing IN
  /\ pc[s] = "book_listing"
  /\ ListingFree(s, l)
  /\ \/ /\ Bookable(l)
        /\ held' = [held EXCEPT ![s].listing = l]
        /\ job' = [job EXCEPT ![s].venue = listing[l].venue]
        /\ Goto(s, "book_venue")
     \/ ~Bookable(l) /\ Finish(s)
  /\ UNCHANGED tables

BookLockVenue(s) ==
  LET l == job[s].listing
      v == job[s].venue
      accepted == /\ Owner[v] # job[s].user
                  /\ DatesAllowed(listing[l], job[s].dates)
                  /\ listing[l].price = job[s].price
  IN
  /\ pc[s] = "book_venue"
  /\ VenueFree(s, v)
  /\ \/ /\ accepted
        /\ held' = [held EXCEPT ![s].venue = v]
        /\ \E g \in PreparationDays(v) : job' = [job EXCEPT ![s].gap = g]
        /\ Goto(s, "book_check")
     \/ ~accepted /\ Finish(s)
  /\ UNCHANGED tables

BookCheck(s) ==
  LET taken == Occupied(job[s].venue, job[s].dates, job[s].gap, None) IN
  /\ pc[s] = "book_check"
  /\ \/ taken /\ Finish(s)
     \/ ~taken /\ Goto(s, "book_insert") /\ UNCHANGED <<job, held>>
  /\ UNCHANGED tables

\* The stay and its two notifications commit together; the notification rows
\* reference the guest and the owner, whose keys the insert has to share.
BookInsert(s) ==
  LET j == job[s] IN
  /\ pc[s] = "book_insert"
  /\ UserShareable(s, Owner[j.venue])
  /\ \E i \in StayIds :
       /\ stays[i].status = "none"
       /\ stays' = [stays EXCEPT ![i] =
            [status |-> "confirmed", listing |-> j.listing, venue |-> j.venue,
             user |-> j.user, request |-> j.request, dates |-> j.dates,
             price |-> j.price]]
  /\ Finish(s)
  /\ UNCHANGED <<today, listing, hourly, blocks, changes>>

-----------------------------------------------------------------------------
(* Cancelling: only the guest, only before the arrival day; no inventory    *)
(* lock, just the row of the stay.                                          *)

\* The accounts that the notifications about a stay reference.
Recipients(i) == {stays[i].user, Owner[stays[i].venue]}

CancelLockStay(s, i) ==
  /\ "cancel" \in Ops /\ pc[s] = "idle"
  /\ StayFree(s, i)
  /\ stays[i].status = "confirmed" /\ today < stays[i].dates.in
  /\ job' = [job EXCEPT ![s] = [NoJob EXCEPT !.op = "cancel",
               !.user = stays[i].user, !.stay = i]]
  /\ held' = [held EXCEPT ![s].stay = i]
  /\ Goto(s, "cancel_commit")
  /\ UNCHANGED tables

CancelCommit(s) ==
  LET i == job[s].stay IN
  /\ pc[s] = "cancel_commit"
  /\ \A u \in Recipients(i) : UserShareable(s, u)
  /\ stays' = [stays EXCEPT ![i].status = "cancelled"]
  /\ Finish(s)
  /\ UNCHANGED <<today, listing, hourly, blocks, changes>>

-----------------------------------------------------------------------------
(* Owner blocks: listing, then its venue, as for a booking. *)

BlockLockListing(s, op, u, l, b, r, d) ==
  /\ op \in Ops \cap {"block", "unblock"} /\ pc[s] = "idle"
  /\ ListingFree(s, l)
  /\ listing[l] # None
  /\ job' = [job EXCEPT ![s] = [NoJob EXCEPT !.op = op, !.user = u,
               !.listing = l, !.venue = listing[l].venue, !.row = b,
               !.request = r, !.dates = d]]
  /\ held' = [held EXCEPT ![s].listing = l]
  /\ Goto(s, "block_venue")
  /\ UNCHANGED tables

PreviousBlock(v, r) ==
  \E b \in BlockIds : blocks[b].status # "none" /\ blocks[b].venue = v
                      /\ blocks[b].request = r

BlockLockVenue(s) ==
  LET j == job[s]
      accepted ==
        /\ MayManage(j.user, j.venue)
        /\ ~PreviousBlock(j.venue, j.request)
        /\ listing[j.listing].short
        /\ j.dates.in >= today /\ j.dates.out <= today + BlockHorizon
  IN
  /\ pc[s] = "block_venue" /\ j.op = "block"
  /\ VenueFree(s, j.venue)
  /\ \/ /\ accepted
        /\ held' = [held EXCEPT ![s].venue = j.venue]
        /\ Goto(s, "block_check") /\ UNCHANGED job
     \/ ~accepted /\ Finish(s)
  /\ UNCHANGED tables

BlockCheck(s) ==
  LET taken == Occupied(job[s].venue, job[s].dates, 0, None) IN
  /\ pc[s] = "block_check"
  /\ \/ taken /\ Finish(s)
     \/ ~taken /\ Goto(s, "block_insert") /\ UNCHANGED <<job, held>>
  /\ UNCHANGED tables

BlockInsert(s) ==
  LET j == job[s] IN
  /\ pc[s] = "block_insert"
  /\ UserShareable(s, j.user)
  /\ \E b \in BlockIds :
       /\ blocks[b].status = "none"
       /\ blocks' = [blocks EXCEPT ![b] =
            [status |-> "active", venue |-> j.venue, request |-> j.request,
             dates |-> j.dates]]
  /\ Finish(s)
  /\ UNCHANGED <<today, listing, hourly, stays, changes>>

\* Removal looks the block up by the listing's venue and only clears its flag.
Unblock(s) ==
  LET j == job[s]
      found == /\ MayManage(j.user, j.venue)
               /\ blocks[j.row].status # "none"
               /\ blocks[j.row].venue = j.venue
  IN
  /\ pc[s] = "block_venue" /\ j.op = "unblock"
  /\ VenueFree(s, j.venue)
  /\ \/ found /\ blocks' = [blocks EXCEPT ![j.row].status = "removed"]
     \/ ~found /\ UNCHANGED blocks
  /\ Finish(s)
  /\ UNCHANGED <<today, listing, hourly, stays, changes>>

-----------------------------------------------------------------------------
(* Date changes: the keys of both recipients, listing, venue, then the stay. *)

Deciding == {"accept", "decline", "withdraw"}

\* Defect: a date change is possible until arrival, cancelled or not.
ActiveUntilArrival(i) == stays[i].status # "none" /\ today < stays[i].dates.in

\* A pending change still applies to the stay as it was when it was requested.
StayActive(i) == stays[i].status = "confirmed" /\ today < stays[i].dates.in
ChangeActive(i, c) ==
  /\ StayActive(i)
  /\ today < changes[c].dates.in
  /\ changes[c].oldDates = stays[i].dates
  /\ changes[c].oldPrice = stays[i].price

\* Defect: the recipients' keys are left to the foreign-key checks at the end.
ChangeWithoutKeys(s, op, i, c, r, d, p) ==
  /\ op \in Ops \cap ({"propose"} \cup Deciding) /\ pc[s] = "idle"
  /\ stays[i].status # "none"
  /\ job' = [job EXCEPT ![s] = [NoJob EXCEPT !.op = op, !.stay = i, !.row = c,
               !.user = stays[i].user,
               !.listing = stays[i].listing, !.venue = stays[i].venue,
               !.request = r, !.dates = d, !.price = p]]
  /\ Goto(s, "change_listing")
  /\ UNCHANGED <<tables, held>>

ChangeLockUsers(s, op, i, c, r, d, p) ==
  /\ op \in Ops \cap ({"propose"} \cup Deciding) /\ pc[s] = "idle"
  /\ stays[i].status # "none"
  /\ \A u \in Recipients(i) : UserShareable(s, u)
  /\ job' = [job EXCEPT ![s] = [NoJob EXCEPT !.op = op, !.stay = i, !.row = c,
               !.user = IF op \in {"propose", "withdraw"}
                          THEN stays[i].user ELSE Owner[stays[i].venue],
               !.listing = stays[i].listing, !.venue = stays[i].venue,
               !.request = r, !.dates = d, !.price = p]]
  /\ held' = [held EXCEPT ![s].shares = Recipients(i)]
  /\ Goto(s, "change_listing")
  /\ UNCHANGED tables

ChangeLockListing(s) ==
  /\ pc[s] = "change_listing"
  /\ ListingFree(s, job[s].listing)
  /\ held' = [held EXCEPT ![s].listing = job[s].listing]
  /\ Goto(s, "change_venue")
  /\ UNCHANGED <<tables, job>>

ChangeLockVenue(s) ==
  /\ pc[s] = "change_venue"
  /\ VenueFree(s, job[s].venue)
  /\ held' = [held EXCEPT ![s].venue = job[s].venue]
  /\ Goto(s, "change_stay")
  /\ UNCHANGED <<tables, job>>

\* Defect: the price agreed on is not compared with the listing's.
QuotableAtAnyPrice(i, d, p) ==
  LET o == listing[stays[i].listing] IN
  /\ StayActive(i)
  /\ d # stays[i].dates
  /\ Bookable(stays[i].listing)
  /\ DatesAllowed(o, d)

\* quote_for without its occupancy check.
Quotable(i, d, p) ==
  LET o == listing[stays[i].listing] IN
  /\ StayActive(i)
  /\ d # stays[i].dates
  /\ Bookable(stays[i].listing)
  /\ DatesAllowed(o, d)
  /\ o.price = p

PendingOf(i) == {c \in ChangeIds : changes[c].status = "pending"
                                   /\ changes[c].stay = i}
PreviousChange(i, r) ==
  \E c \in ChangeIds : changes[c].status # "none" /\ changes[c].stay = i
                       /\ changes[c].request = r

ProposeLockStay(s) ==
  LET j == job[s]
      i == j.stay
      accepted ==
        /\ ~PreviousChange(i, j.request)
        /\ \A c \in PendingOf(i) : ~ChangeActive(i, c)
        /\ Quotable(i, j.dates, j.price)
  IN
  /\ pc[s] = "change_stay" /\ j.op = "propose"
  /\ StayFree(s, i)
  /\ \/ /\ accepted
        /\ held' = [held EXCEPT ![s].stay = i]
        /\ \E g \in PreparationDays(j.venue) : job' = [job EXCEPT ![s].gap = g]
        /\ Goto(s, "change_check")
     \/ ~accepted /\ Finish(s)
  /\ UNCHANGED tables

DecideLockStay(s) ==
  LET j == job[s]
      i == j.stay
      c == j.row
      accepted ==
        /\ changes[c].status = "pending" /\ changes[c].stay = i
        /\ ChangeActive(i, c)
        /\ j.op = "accept" => Quotable(i, changes[c].dates, changes[c].price)
  IN
  /\ pc[s] = "change_stay" /\ j.op \in Deciding
  /\ StayFree(s, i)
  /\ \/ /\ accepted
        /\ held' = [held EXCEPT ![s].stay = i]
        /\ \E g \in PreparationDays(j.venue) :
             job' = [job EXCEPT ![s] = [j EXCEPT !.gap = g,
                       !.dates = changes[c].dates, !.price = changes[c].price]]
        /\ Goto(s, IF j.op = "accept" THEN "change_check" ELSE "change_commit")
     \/ ~accepted /\ Finish(s)
  /\ UNCHANGED tables

\* The stay being moved does not stand in its own way.
ChangeCheck(s) ==
  LET j == job[s]
      taken == Occupied(j.venue, j.dates, j.gap, j.stay)
  IN
  /\ pc[s] = "change_check"
  /\ \/ taken /\ Finish(s)
     \/ ~taken /\ Goto(s, "change_commit") /\ UNCHANGED <<job, held>>
  /\ UNCHANGED tables

\* Defect: the inactive pending request stays pending beside the new one.
ProposeBesides(s) ==
  LET j == job[s] IN
  /\ pc[s] = "change_commit" /\ j.op = "propose"
  /\ \E c \in ChangeIds :
       /\ changes[c].status = "none"
       /\ changes' = [changes EXCEPT ![c] =
            [status |-> "pending", stay |-> j.stay, request |-> j.request,
             dates |-> j.dates, price |-> j.price,
             oldDates |-> stays[j.stay].dates,
             oldPrice |-> stays[j.stay].price]]
  /\ Finish(s)
  /\ UNCHANGED <<today, listing, hourly, stays, blocks>>

\* The new request, with the inactive pending one it replaces closed first.
ProposeCommit(s) ==
  LET j == job[s] IN
  /\ pc[s] = "change_commit" /\ j.op = "propose"
  /\ \A u \in Recipients(j.stay) : UserShareable(s, u)
  /\ \E c \in ChangeIds :
       /\ changes[c].status = "none"
       /\ changes' = [k \in ChangeIds |->
            IF k = c THEN
              [status |-> "pending", stay |-> j.stay, request |-> j.request,
               dates |-> j.dates, price |-> j.price,
               oldDates |-> stays[j.stay].dates,
               oldPrice |-> stays[j.stay].price]
            ELSE IF k \in PendingOf(j.stay)
              THEN [changes[k] EXCEPT !.status = "expired"]
            ELSE changes[k]]
  /\ Finish(s)
  /\ UNCHANGED <<today, listing, hourly, stays, blocks>>

\* Defect: the action's name is stored where the status belongs.
DecideStoringAction(s) ==
  LET j == job[s] IN
  /\ pc[s] = "change_commit" /\ j.op \in Deciding
  /\ changes' = [changes EXCEPT ![j.row].status = j.op]
  /\ Finish(s)
  /\ UNCHANGED <<today, listing, hourly, stays, blocks>>

DecideCommit(s) ==
  LET j == job[s] IN
  /\ pc[s] = "change_commit" /\ j.op \in Deciding
  /\ \A u \in Recipients(j.stay) : UserShareable(s, u)
  /\ changes' = [changes EXCEPT ![j.row].status =
                   CASE j.op = "accept" -> "accepted"
                     [] j.op = "decline" -> "declined"
                     [] j.op = "withdraw" -> "withdrawn"]
  /\ \/ /\ j.op = "accept"
        /\ stays' = [stays EXCEPT ![j.stay] =
                       [@ EXCEPT !.dates = j.dates, !.price = j.price]]
     \/ j.op # "accept" /\ UNCHANGED stays
  /\ Finish(s)
  /\ UNCHANGED <<today, listing, hourly, blocks>>

-----------------------------------------------------------------------------
(* Owners create and replace listings; enabling online booking locks the    *)
(* venue the listing will be on, so that no hourly resource appears.        *)

\* Defect: a new listing with online booking does not lock its venue.
ListUnlocked(s, l, o) ==
  /\ "list" \in Ops /\ pc[s] = "idle"
  /\ listing[l] = None /\ ListingFree(s, l) /\ (o.enabled => o.venue \notin hourly)
  /\ job' = [job EXCEPT ![s] = [NoJob EXCEPT !.op = "list", !.listing = l,
               !.user = Owner[o.venue], !.venue = o.venue, !.offer = o]]
  /\ held' = [held EXCEPT ![s].listing = l]
  /\ Goto(s, "edit_commit")
  /\ UNCHANGED tables

\* A new row: its identifier is fresh, which here reserves it like a lock.
ListStart(s, l, o) ==
  /\ "list" \in Ops /\ pc[s] = "idle"
  /\ listing[l] = None /\ ListingFree(s, l)
  /\ job' = [job EXCEPT ![s] = [NoJob EXCEPT !.op = "list", !.listing = l,
               !.user = Owner[o.venue], !.venue = o.venue, !.offer = o]]
  /\ held' = [held EXCEPT ![s].listing = l]
  /\ Goto(s, IF o.enabled THEN "edit_venue" ELSE "edit_commit")
  /\ UNCHANGED tables

\* Defect: an edit that keeps the venue does not lock it.
EditListingOnly(s, u, l, o) ==
  /\ "edit" \in Ops /\ pc[s] = "idle"
  /\ ListingFree(s, l)
  /\ listing[l] # None
  /\ MayManage(u, listing[l].venue) /\ MayManage(u, o.venue)
  /\ job' = [job EXCEPT ![s] = [NoJob EXCEPT !.op = "edit", !.listing = l,
               !.user = u, !.venue = o.venue, !.offer = o]]
  /\ held' = [held EXCEPT ![s].listing = l]
  /\ Goto(s, IF listing[l].venue # o.venue THEN "edit_venue" ELSE "edit_check")
  /\ UNCHANGED tables

EditLockListing(s, u, l, o) ==
  /\ "edit" \in Ops /\ pc[s] = "idle"
  /\ ListingFree(s, l)
  /\ listing[l] # None
  /\ MayManage(u, listing[l].venue) /\ MayManage(u, o.venue)
  /\ job' = [job EXCEPT ![s] = [NoJob EXCEPT !.op = "edit", !.listing = l,
               !.user = u, !.venue = o.venue, !.offer = o]]
  /\ held' = [held EXCEPT ![s].listing = l]
  /\ Goto(s, IF o.enabled THEN "edit_venue" ELSE "edit_check")
  /\ UNCHANGED tables

EditLockVenue(s) ==
  LET v == job[s].venue IN
  /\ pc[s] = "edit_venue"
  /\ VenueFree(s, v)
  /\ \/ /\ v \notin hourly
        /\ held' = [held EXCEPT ![s].venue = v]
        /\ Goto(s, IF job[s].op = "list" THEN "edit_commit" ELSE "edit_check")
        /\ UNCHANGED job
     \/ v \in hourly /\ Finish(s)
  /\ UNCHANGED tables

\* Defect: a listing with stays may move to another venue.
EditIgnoringStays(s) ==
  LET l == job[s].listing
      refused == /\ listing[l].venue # job[s].venue
                 /\ \E b \in BlockIds : blocks[b].status = "active"
                                     /\ blocks[b].venue = listing[l].venue
  IN
  /\ pc[s] = "edit_check"
  /\ \/ refused /\ Finish(s)
     \/ ~refused /\ Goto(s, "edit_commit") /\ UNCHANGED <<job, held>>
  /\ UNCHANGED tables

\* A listing with active blocks on its venue, or with stays, stays where it is.
EditCheck(s) ==
  LET l == job[s].listing
      moving == listing[l].venue # job[s].venue
      refused ==
        /\ moving
        /\ \/ \E b \in BlockIds : blocks[b].status = "active"
                                  /\ blocks[b].venue = listing[l].venue
           \/ \E i \in StayIds : stays[i].listing = l
  IN
  /\ pc[s] = "edit_check"
  /\ \/ refused /\ Finish(s)
     \/ ~refused /\ Goto(s, "edit_commit") /\ UNCHANGED <<job, held>>
  /\ UNCHANGED tables

\* A new venue reference shares the key of the venue row.
EditCommit(s) ==
  LET j == job[s] IN
  /\ pc[s] = "edit_commit"
  /\ listing[j.listing] = None \/ listing[j.listing].venue # j.venue
       => VenueFree(s, j.venue)
  /\ listing' = [listing EXCEPT ![j.listing] = j.offer]
  /\ Finish(s)
  /\ UNCHANGED <<today, hourly, stays, blocks, changes>>

-----------------------------------------------------------------------------
(* Hourly resources and nightly booking exclude each other on a venue. *)

ResourceLockVenue(s, v) ==
  /\ "resource" \in Ops /\ pc[s] = "idle"
  /\ VenueFree(s, v)
  /\ \A l \in OnVenue(v) : ~listing[l].enabled
  /\ \A i \in StayIds : stays[i].venue # v
  /\ job' = [job EXCEPT ![s] = [NoJob EXCEPT !.op = "resource",
               !.user = Owner[v], !.venue = v]]
  /\ held' = [held EXCEPT ![s].venue = v]
  /\ Goto(s, "resource_insert")
  /\ UNCHANGED tables

ResourceInsert(s) ==
  /\ pc[s] = "resource_insert"
  /\ hourly' = hourly \cup {job[s].venue}
  /\ Finish(s)
  /\ UNCHANGED <<today, listing, stays, blocks, changes>>

ResourceDelete(v) ==
  /\ v \in hourly
  /\ hourly' = hourly \ {v}
  /\ UNCHANGED <<today, listing, stays, blocks, changes, pc, job, held>>

-----------------------------------------------------------------------------
NextDay ==
  /\ today < LastDay
  /\ today' = today + 1
  /\ UNCHANGED <<listing, hourly, stays, blocks, changes, pc, job, held>>

\* A lost connection, a crashed worker or a deadlock victim: rollback.
Abort(s) == pc[s] # "idle" /\ Finish(s) /\ UNCHANGED tables

StartBook(s) ==
  \E u \in Users, l \in Listings, r \in Requests, d \in Dates :
    \E p \in {o.price : o \in Offers} : BookLockUser(s, u, l, r, d, p)
StartBlock(s) ==
  \E u \in Users, l \in Listings, r \in Requests, d \in Dates :
    /\ RowLeft(blocks, "block")
    /\ BlockLockListing(s, "block", u, l, None, r, d)
StartUnblock(s) ==
  \E u \in Users, l \in Listings, b \in BlockIds :
    BlockLockListing(s, "unblock", u, l, b, None, None)
StartPropose(s) ==
  \E i \in StayIds, r \in Requests, d \in Dates :
    \E p \in {o.price : o \in Offers} :
      /\ RowLeft(changes, "propose")
      /\ ChangeLockUsers(s, "propose", i, None, r, d, p)
StartDecide(s) ==
  \E op \in Deciding, i \in StayIds, c \in ChangeIds :
    ChangeLockUsers(s, op, i, c, None, None, 0)

Start(s) ==
  \/ StartBook(s) \/ StartBlock(s) \/ StartUnblock(s)
  \/ StartPropose(s) \/ StartDecide(s)
  \/ \E i \in StayIds : CancelLockStay(s, i)
  \/ \E l \in Listings, o \in Offers : ListStart(s, l, o)
  \/ \E u \in Users, l \in Listings, o \in Offers : EditLockListing(s, u, l, o)
  \/ \E v \in Venues : ResourceLockVenue(s, v)

Continue(s) ==
  \/ BookLockListing(s) \/ BookLockVenue(s) \/ BookCheck(s) \/ BookInsert(s)
  \/ CancelCommit(s)
  \/ BlockLockVenue(s) \/ BlockCheck(s) \/ BlockInsert(s) \/ Unblock(s)
  \/ ChangeLockListing(s) \/ ChangeLockVenue(s) \/ ProposeLockStay(s)
  \/ DecideLockStay(s) \/ ChangeCheck(s) \/ ProposeCommit(s) \/ DecideCommit(s)
  \/ EditLockVenue(s) \/ EditCheck(s) \/ EditCommit(s)
  \/ ResourceInsert(s)

Next ==
  \/ \E s \in Sessions : Start(s) \/ Continue(s) \/ Abort(s)
  \/ \E v \in Venues : ResourceDelete(v)
  \/ NextDay

Spec == Init /\ [][Next]_vars

-----------------------------------------------------------------------------
(* What the nightly inventory promises. *)

Stay   == [status : {"confirmed", "cancelled"}, listing : Listings,
           venue : Venues, user : Users, request : Requests, dates : Dates,
           price : Nat]
Block  == [status : {"active", "removed"}, venue : Venues, request : Requests,
           dates : Dates]
Change == [status : {"pending", "expired", "accepted", "declined", "withdrawn"},
           stay : StayIds, request : Requests, dates : Dates, price : Nat,
           oldDates : Dates, oldPrice : Nat]
Job    == [op : AllOps \cup {"none"}, user : Users \cup {None},
           listing : Listings \cup {None}, venue : Venues \cup {None},
           stay : StayIds \cup {None}, row : BlockIds \cup ChangeIds \cup {None},
           request : Requests \cup {None}, dates : Dates \cup {None},
           price : Nat, gap : Nat, offer : Offers \cup {None}]
Locks  == [user : Users \cup {None}, shares : SUBSET Users,
           listing : Listings \cup {None}, venue : Venues \cup {None},
           stay : StayIds \cup {None}]
Labels == {"idle", "book_listing", "book_venue", "book_check", "book_insert",
           "cancel_commit", "block_venue", "block_check", "block_insert",
           "change_listing", "change_venue", "change_stay", "change_check",
           "change_commit", "edit_venue", "edit_check", "edit_commit",
           "resource_insert"}

\* Every table holds well-formed rows and every session a known state.
TypeOK ==
  /\ today \in Nat
  /\ listing \in [Listings -> Offers \cup {None}]
  /\ hourly \subseteq Venues
  /\ stays \in [StayIds -> Stay \cup {NoStay}]
  /\ blocks \in [BlockIds -> Block \cup {NoBlock}]
  /\ changes \in [ChangeIds -> Change \cup {NoChange}]
  /\ pc \in [Sessions -> Labels]
  /\ job \in [Sessions -> Job]
  /\ held \in [Sessions -> Locks]

\* Two confirmed stays of one apartment never share a night, whichever of its
\* listings they were booked through (create, decide: the venue lock is held
\* from the check to the commit).
NoDoubleBooking ==
  \A i, k \in StayIds :
    /\ i # k /\ stays[i].venue = stays[k].venue
    /\ stays[i].status = "confirmed" /\ stays[k].status = "confirmed"
    => ~Near(stays[i].dates, stays[k].dates, 0)

\* A confirmed stay never lies on dates its owner has closed, whether the stay
\* was booked, moved there, or the block came second.
StaysClearOfBlocks ==
  \A i \in StayIds, b \in BlockIds :
    /\ stays[i].status = "confirmed" /\ blocks[b].status = "active"
    /\ stays[i].venue = blocks[b].venue
    => ~Near(stays[i].dates, blocks[b].dates, 0)

\* Active blocks of one apartment never overlap each other.
BlocksDisjoint ==
  \A a, b \in BlockIds :
    /\ a # b /\ blocks[a].venue = blocks[b].venue
    /\ blocks[a].status = "active" /\ blocks[b].status = "active"
    => ~Near(blocks[a].dates, blocks[b].dates, 0)

\* A venue sold by the hour is not sold by the night: no listing on it takes
\* bookings and no stay refers to it (has_hourly_resources, Resource create).
ExclusiveInventory ==
  \A v \in hourly :
    /\ \A l \in OnVenue(v) : ~listing[l].enabled
    /\ \A i \in StayIds : stays[i].venue # v

\* A stay stays on the venue of its listing: date changes lock the listing of
\* the stay and the venue of the stay, and rely on these being one apartment.
StaysOnListingVenue ==
  \A i \in StayIds : stays[i].status # "none" =>
    /\ listing[stays[i].listing] # None
    /\ listing[stays[i].listing].venue = stays[i].venue

\* No commit runs into a unique index: a client that retries a request while
\* the first attempt is still running is answered with its row, not an error.
InsertsNeverCollide ==
  \A s \in Sessions :
    /\ pc[s] = "book_insert" => ~PreviousStay(job[s].user, job[s].request)
    /\ pc[s] = "block_insert" => ~PreviousBlock(job[s].venue, job[s].request)
    /\ pc[s] = "change_commit" /\ job[s].op = "propose"
         => ~PreviousChange(job[s].stay, job[s].request)

\* At most one request of a stay awaits the owner (the partial unique index of
\* stay_date_changes; an overtaken one is closed in the same commit).
OnePendingChange ==
  \A c, k \in ChangeIds :
    /\ c # k /\ changes[c].stay = changes[k].stay
    => ~(changes[c].status = "pending" /\ changes[k].status = "pending")

\* Dates that a commit gives to a stay keep the preparation days in force at
\* that moment from the other confirmed stays, although the gap was read before
\* and owners edit sibling listings meanwhile.
GapKept ==
  \A i, k \in StayIds :
    /\ i # k /\ stays'[i].venue = stays'[k].venue
    /\ stays'[i].status = "confirmed" /\ stays'[i].dates # stays[i].dates
    /\ stays'[k].status = "confirmed"
    => \A gap \in PreparationDays(stays'[i].venue) :
         ~Near(stays'[k].dates, stays'[i].dates, gap)
GapRespected == [][GapKept]_vars

\* A stay changes its dates or price only by a request the owner accepts: one
\* that was pending, made for the stay as it still is, at the listing's price
\* of that moment, and on a listing that still takes bookings.
AgreedTerms ==
  \A i \in StayIds :
    /\ stays[i].status # "none"
    /\ stays'[i].dates # stays[i].dates \/ stays'[i].price # stays[i].price
    => /\ Bookable(stays[i].listing)
       /\ stays'[i].price = listing[stays[i].listing].price
       /\ \E c \in ChangeIds :
            /\ changes[c].status = "pending" /\ changes'[c].status = "accepted"
            /\ changes[c].stay = i
            /\ stays'[i].dates = changes[c].dates
            /\ stays'[i].price = changes[c].price
            /\ changes[c].oldDates = stays[i].dates
            /\ changes[c].oldPrice = stays[i].price
AgreedTermsOnly == [][AgreedTerms]_vars

\* A cancelled stay never changes again: neither an owner's late acceptance
\* nor a repeated booking request brings it back.
CancelledStays ==
  \A i \in StayIds : stays[i].status = "cancelled" => stays'[i] = stays[i]
CancelledIsFinal == [][CancelledStays]_vars

\* A listing does not leave a venue whose calendar has active blocks
\* (docs/owner-stay-blocks.md:12).
BlockedVenueKept ==
  \A l \in Listings :
    /\ listing[l] # None /\ listing'[l].venue # listing[l].venue
    => \A b \in BlockIds :
         ~(blocks[b].status = "active" /\ blocks[b].venue = listing[l].venue)
BlockedVenueKeepsListings == [][BlockedVenueKept]_vars
=============================================================================
