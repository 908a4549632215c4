--------------------------- MODULE MCNightlyParts ---------------------------
(* Small instances of the nightly requests: the terms of one stay, the       *)
(* answers to a date change, the preparation gap between two stays, the      *)
(* edits of listings, and the waits of three sessions for each other's       *)
(* locks.  The variable part, chosen at the start, says which of them is     *)
(* running; Parts gives the accounts, rows and inputs that it has.           *)
EXTENDS MCNightlyStays, NightlyLocks

CONSTANTS i1, i2, r1, r2, s1, s2, s3

VARIABLE part

partVars == <<vars, part>>

Alike == Permutations({s1, s2}) \cup Permutations({i1, i2})
  \cup Permutations(ChangeIds) \cup Permutations({r1, r2})

\* Overlapping and adjacent stays, and one a free day later.
ADayApart == Range2 \cup {[in |-> 3, out |-> 5]}
InTurn == {[in |-> 1, out |-> 2], [in |-> 2, out |-> 3]}

\* Price changes under a pending date change; owners turning the preparation
\* day of sibling listings on and off; a listing that may move.
OnePrice == {Open(flat, 0, 7)}
Prices == {Open(flat, 0, 7), Open(flat, 0, 8)}
Gaps == {Open(flat, 0, 7), Open(flat, 1, 7)}
AllDates == ADayApart \cup InTurn
AllOffers == Prices \cup Gaps \cup MoveOffers

\* Two listings of the flat, or one and another still to be made.
Siblings == [l \in Listings |-> Open(flat, 0, 7)]
OneToCome == [l \in Listings |-> IF l = l1 THEN Open(flat, 0, 7) ELSE None]
Starts == {Siblings, OneToCome}

Part(name) ==
  CASE name = "terms" ->
         [users |-> {ana, vera}, listings |-> {l1}, stays |-> 1, changes |-> 2,
          requests |-> {r1, r2}, sessions |-> {s1, s2}, dates |-> Range2,
          offers |-> Prices, last |-> 1, start |-> OneToCome,
          ops |-> {"book", "cancel", "propose", "accept", "edit"}]
    [] name = "answers" ->
         [users |-> {ana, vera}, listings |-> {l1}, stays |-> 1, changes |-> 2,
          requests |-> {r1}, sessions |-> {s1, s2}, dates |-> Range2,
          offers |-> Prices, last |-> 0, start |-> OneToCome,
          ops |-> {"book", "propose", "decline", "withdraw"}]
    [] name = "overdue" ->   \* replaced by another when its dates have begun
         [users |-> {ana, vera}, listings |-> {l1}, stays |-> 1, changes |-> 2,
          requests |-> {r1, r2}, sessions |-> {s1, s2}, dates |-> ADayApart,
          offers |-> OnePrice, last |-> 1, start |-> OneToCome,
          ops |-> {"book", "propose"}]
    [] name = "gap" ->
         [users |-> {ana, boris}, listings |-> {l1, l2}, stays |-> 2,
          changes |-> 1, requests |-> {r1}, sessions |-> {s1, s2},
          dates |-> ADayApart, offers |-> Gaps, last |-> 0, start |-> Siblings,
          ops |-> {"book", "propose", "accept", "edit"}]
    [] name = "edits" ->
         [users |-> {ana, vera}, listings |-> {l1, l2}, stays |-> 1,
          changes |-> 0, requests |-> {r1}, sessions |-> {s1, s2},
          dates |-> Range2, offers |-> MoveOffers, last |-> 0,
          start |-> OneToCome,
          ops |-> {"book", "block", "list", "edit", "resource"}]
    [] name = "locks" ->
         [users |-> {ana, boris, vera}, listings |-> {l1, l2}, stays |-> 2,
          changes |-> 1, requests |-> {r1}, sessions |-> {s1, s2, s3},
          dates |-> InTurn, offers |-> OnePrice, last |-> 0,
          start |-> Siblings, ops |-> {"book", "block", "propose", "accept"}]

-----------------------------------------------------------------------------
PartsInit ==
  /\ part \in {"terms", "answers", "overdue", "gap", "edits", "locks"}
  /\ Init /\ listing = Part(part).start

\* Bound: requests that insert start only while the part has rows for them.
RowsIn(table, op, n) ==
  Cardinality({s \in Sessions : job[s].op = op})
    + Cardinality({k \in DOMAIN table : table[k].status # "none"}) < n

StartIn(p, s) ==
  \/ /\ "book" \in p.ops /\ RowsIn(stays, "book", p.stays)
     /\ \E u \in p.users, l \in p.listings, r \in p.requests, d \in p.dates :
          \E o \in p.offers : BookLockUser(s, u, l, r, d, o.price)
  \/ /\ "block" \in p.ops
     /\ \E u \in p.users, l \in p.listings, r \in p.requests, d \in p.dates :
          /\ RowLeft(blocks, "block")
          /\ BlockLockListing(s, "block", u, l, None, r, d)
  \/ /\ "propose" \in p.ops /\ RowsIn(changes, "propose", p.changes)
     /\ \E i \in StayIds, r \in p.requests, d \in p.dates, o \in p.offers :
          ChangeLockUsers(s, "propose", i, None, r, d, o.price)
  \/ \E op \in Deciding \cap p.ops, i \in StayIds, c \in ChangeIds :
       ChangeLockUsers(s, op, i, c, None, None, 0)
  \/ "cancel" \in p.ops /\ \E i \in StayIds : CancelLockStay(s, i)
  \/ /\ "list" \in p.ops
     /\ \E l \in p.listings, o \in p.offers : ListStart(s, l, o)
  \/ /\ "edit" \in p.ops
     /\ \E u \in p.users, l \in p.listings, o \in p.offers :
          EditLockListing(s, u, l, o)
  \/ "resource" \in p.ops /\ \E v \in Venues : ResourceLockVenue(s, v)

PartsNext ==
  /\ \/ \E s \in Part(part).sessions : StartIn(Part(part), s)
     \/ \E s \in Sessions : Continue(s) \/ Abort(s)
     \/ \E v \in Venues : ResourceDelete(v)
     \/ today < Part(part).last /\ NextDay
  /\ UNCHANGED part

PartsSpec == PartsInit /\ [][PartsNext]_partVars
=============================================================================
