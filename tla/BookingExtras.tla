--------------------------- MODULE BookingExtras ---------------------------
(***************************************************************************)
(* What an hourly booking takes besides its time: a redemption of a         *)
(* promotion, add-ons of which the venue has a stock, and the venue not     *)
(* having blocked the customer.  A booking checks the promotion and the     *)
(* stock without locks, then keeps the rows of its customer, its resource,  *)
(* the add-on and the promotion, in this order, and checks again; a series  *)
(* does so for all its occurrences at once.  Capacity and prices are those  *)
(* of HourlyReservations.                                                   *)
(***************************************************************************)
EXTENDS Integers, FiniteSets, Functions

CONSTANTS
  Customers,
  Slots,          \* times that do not overlap each other
  Requests,       \* the bookings asked for: user, resource, slots (of an
                  \* occurrence or a series), quantity of the add-on (0 is
                  \* none) and whether a promotion code is given
  Stock,
  MaxRedemptions,
  Ids,            \* identifiers of reservations (bound)
  MaxBlocks,      \* bound on the blocks of a customer
  Sessions,       \* requests served at a time
  Ops,            \* what is exercised: "move", "switch", "block"
  None

VARIABLES
  bookings,       \* the rows of the occurrences booked, cancelled ones too
  promotion, addOn,
  block,          \* the venue's block of each customer
  work            \* what each session is doing

vars == <<bookings, promotion, addOn, block, work>>

Idle == [op |-> "idle"]
NoBooking == [user |-> None, resource |-> None, slot |-> None, quantity |-> 0,
              code |-> FALSE, active |-> FALSE]
NoBlock == [active |-> FALSE, dated |-> FALSE, times |-> 0]

Init ==
  /\ bookings = [i \in Ids |-> NoBooking]
  /\ promotion = [active |-> TRUE, count |-> 0]
  /\ addOn = [active |-> TRUE]
  /\ block = [u \in Customers |-> NoBlock]
  /\ work = [s \in Sessions |-> Idle]

Start(s, what) == work[s] = Idle /\ work' = [work EXCEPT ![s] = what]
Finish(s) == work' = [work EXCEPT ![s] = Idle]
Continue(s, step) == work' = [work EXCEPT ![s].step = step]
At(s, step) == work[s].op \in {"book", "move"} /\ work[s].step = step

\* A request keeps every row it has locked until it commits or is refused.
AfterUser == {"resource", "addon", "promotion", "commit"}
AfterResource == {"addon", "promotion", "commit"}
AfterAddOn == {"promotion", "commit"}
Past(s, steps) == work[s].op \in {"book", "move"} /\ work[s].step \in steps

\* Defect: a customer's row is not locked.
UserShared(u) == TRUE
UserFree(u) == \A s \in Sessions : Past(s, AfterUser) => work[s].user # u
ResourceFree(r) ==
  \A s \in Sessions : Past(s, AfterResource) => work[s].resource # r
\* Defect: the add-on's row is not locked.
AddOnShared == TRUE
AddOnFree == \A s \in Sessions : Past(s, AfterAddOn) => work[s].quantity = 0
PromotionFree == \A s \in Sessions : Past(s, {"commit"}) => ~work[s].code

-----------------------------------------------------------------------------
(* Booking and moving. *)

\* What is reserved of the add-on at a time, piece by piece.
Pieces(slot, ids) ==
  UNION {{i} \X (1 .. bookings[i].quantity) :
           i \in {i \in ids : bookings[i].active /\ bookings[i].slot = slot}}
Reserved(slot, ids) == Cardinality(Pieces(slot, ids))
\* An occurrence that is moved does not count against itself.
InStock(slots, quantity, ids) ==
  \A slot \in slots : Reserved(slot, ids) + quantity <= Stock
Redeemable(n) ==
  promotion.active /\ promotion.count + n <= MaxRedemptions

BookStart(s, r) ==
  /\ r.code => Redeemable(Cardinality(r.slots))
  /\ Start(s, [op |-> "book", step |-> "user", user |-> r.user,
               resource |-> r.resource, slots |-> r.slots,
               quantity |-> r.quantity, code |-> r.code, row |-> None])
  /\ UNCHANGED <<bookings, promotion, addOn, block>>

\* Rescheduling one occurrence; its promotion is not looked at again.
MoveStart(s, i, slot) ==
  /\ "move" \in Ops /\ bookings[i].active /\ slot # bookings[i].slot
  /\ Start(s, [op |-> "move", step |-> "user", user |-> bookings[i].user,
               resource |-> bookings[i].resource, slots |-> {slot},
               quantity |-> bookings[i].quantity, code |-> FALSE, row |-> i])
  /\ UNCHANGED <<bookings, promotion, addOn, block>>

\* After the customer's row is locked the rules are checked; the stock of a
\* new booking is looked at before the resource is locked.
LockUser(s) ==
  LET w == work[s] IN
  /\ At(s, "user") /\ UserFree(w.user)
  /\ ~block[w.user].active
  /\ w.op = "book" /\ w.quantity > 0 =>
       addOn.active /\ InStock(w.slots, w.quantity, Ids)
  /\ Continue(s, "resource")
  /\ UNCHANGED <<bookings, promotion, addOn, block>>

LockResource(s) ==
  /\ At(s, "resource") /\ ResourceFree(work[s].resource)
  /\ Continue(s, IF work[s].quantity > 0 THEN "addon"
                 ELSE IF work[s].code THEN "promotion" ELSE "commit")
  /\ UNCHANGED <<bookings, promotion, addOn, block>>

LockAddOn(s) ==
  LET w == work[s] IN
  /\ At(s, "addon") /\ AddOnFree
  /\ w.op = "book" => addOn.active
  /\ InStock(w.slots, w.quantity, Ids \ {w.row})
  /\ Continue(s, IF w.code THEN "promotion" ELSE "commit")
  /\ UNCHANGED <<bookings, promotion, addOn, block>>

StillRedeemable(n) == Redeemable(n)

LockPromotion(s) ==
  /\ At(s, "promotion") /\ PromotionFree
  /\ StillRedeemable(Cardinality(work[s].slots))
  /\ Continue(s, "commit")
  /\ UNCHANGED <<bookings, promotion, addOn, block>>

Occurrence(w, slot) ==
  [user |-> w.user, resource |-> w.resource, slot |-> slot, active |-> TRUE,
   quantity |-> w.quantity, code |-> w.code]

\* A move sets the times only: a cancellation in between keeps its mark.
Commit(s) ==
  LET w == work[s] IN
  /\ At(s, "commit")
  /\ \/ /\ w.op = "book"
        /\ \E rows \in SUBSET {i \in Ids : bookings[i] = NoBooking} :
             /\ Cardinality(rows) = Cardinality(w.slots)
             /\ \E slot \in Bijection(rows, w.slots) :
                  bookings' = [i \in Ids |->
                    IF i \in rows THEN Occurrence(w, slot[i]) ELSE bookings[i]]
        /\ promotion' = [promotion EXCEPT
             !.count = @ + IF w.code THEN Cardinality(w.slots) ELSE 0]
     \/ /\ w.op = "move"
        /\ \E slot \in w.slots :
             bookings' = [bookings EXCEPT ![w.row].slot = slot]
        /\ UNCHANGED promotion
  /\ Finish(s) /\ UNCHANGED <<addOn, block>>

\* A request that is refused or dies gives its rows back.
Abort(s) ==
  /\ work[s].op \in {"book", "move"}
  /\ Finish(s) /\ UNCHANGED <<bookings, promotion, addOn, block>>

\* A cancellation, or the expiry of the hold.
Cancel(i) ==
  /\ bookings[i].active /\ bookings' = [bookings EXCEPT ![i].active = FALSE]
  /\ UNCHANGED <<promotion, addOn, block, work>>

-----------------------------------------------------------------------------
(* The owner. *)

\* A block waits for the customer's row; it may name the day it ends.
Block(u, dated) ==
  /\ "block" \in Ops
  /\ UserFree(u) /\ ~block[u].active /\ block[u].times < MaxBlocks
  /\ block' = [block EXCEPT ![u] =
       [active |-> TRUE, dated |-> dated, times |-> @.times + 1]]
  /\ UNCHANGED <<bookings, promotion, addOn, work>>

BlockElapses(u) ==
  /\ block[u].active /\ block[u].dated
  /\ block' = [block EXCEPT ![u].active = FALSE]
  /\ UNCHANGED <<bookings, promotion, addOn, work>>

\* Lifting reads the block before it waits for the customer's row.
UnblockRead(s, u) ==
  /\ block[u].active /\ Start(s, [op |-> "unblock", user |-> u])
  /\ UNCHANGED <<bookings, promotion, addOn, block>>
UnblockCommit(s) ==
  /\ work[s].op = "unblock" /\ UserFree(work[s].user)
  /\ block' = [block EXCEPT ![work[s].user].active = FALSE]
  /\ Finish(s) /\ UNCHANGED <<bookings, promotion, addOn>>

Deactivate ==
  /\ "switch" \in Ops /\ PromotionFree /\ promotion.active
  /\ promotion' = [promotion EXCEPT !.active = FALSE]
  /\ UNCHANGED <<bookings, addOn, block, work>>

SwitchAddOn ==
  /\ "switch" \in Ops /\ AddOnFree /\ addOn' = [active |-> ~addOn.active]
  /\ UNCHANGED <<bookings, promotion, block, work>>

Next ==
  \/ Deactivate \/ SwitchAddOn
  \/ \E i \in Ids : Cancel(i)
  \/ \E u \in Customers :
       BlockElapses(u) \/ \E dated \in BOOLEAN : Block(u, dated)
  \/ \E s \in Sessions :
       \/ \E r \in Requests : BookStart(s, r)
       \/ \E i \in Ids, slot \in Slots : MoveStart(s, i, slot)
       \/ LockUser(s) \/ LockResource(s) \/ LockAddOn(s) \/ LockPromotion(s)
       \/ Commit(s) \/ Abort(s)
       \/ \E u \in Customers : UnblockRead(s, u)
       \/ UnblockCommit(s)

Spec == Init /\ [][Next]_vars

-----------------------------------------------------------------------------
(* Properties. *)

\* Bookings of any resources together never take more of an add-on than the
\* venue has, and a promotion is redeemed as often as it is counted and at
\* most as often as it may be.
ExtrasBounded ==
  /\ InStock(Slots, 0, Ids)
  /\ promotion.count = Cardinality({i \in Ids : bookings[i].code})
  /\ promotion.count <= MaxRedemptions

\* A customer whom the venue has blocked neither books nor moves.
BlockedStays ==
  \A i \in Ids :
    bookings'[i].slot # bookings[i].slot => ~block[bookings'[i].user].active
BlockedNeverBook == [][BlockedStays]_vars
=============================================================================
