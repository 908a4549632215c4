----------------------- MODULE NightlyCalendar_proofs -----------------------
(***************************************************************************)
(* Type correctness of NightlyStays, what every session knows, holds and     *)
(* refers to, and what the rows promise beyond the calendar, for any number  *)
(* of accounts, apartments, listings, rows and concurrent sessions.          *)
(*                                                                         *)
(* The calendars of the venues stay clear: no night is sold twice and none   *)
(* that its owner has closed, and NightlyStays implements ApartmentCalendar: *)
(* every commit of every handler reserves, moves or releases one entry onto  *)
(* free nights, in one step, or leaves the calendar alone.                   *)
(*                                                                         *)
(* None of this is inductive as it stands: the check and the commit of a     *)
(* request are separate steps.  CalendarOK adds what a session that has      *)
(* checked the calendar may rely on until it commits, because it has held    *)
(* the lock of the venue since.                                              *)
(*                                                                         *)
(* Then what the handlers promise about the terms of a stay and about each   *)
(* other: a cancelled stay is final, dates and price change only as agreed,  *)
(* new dates keep the preparation days, and a date change never waits for a  *)
(* deadlock.                                                                 *)
(***************************************************************************)
EXTENDS NightlyLocks, NightlyCalendar, TLAPS

-----------------------------------------------------------------------------
(* Requests, rows and locks. *)

BookLabels == {"book_listing", "book_venue", "book_check", "book_insert"}
BlockLabels == {"block_venue", "block_check", "block_insert"}
ChangeLabels == {"change_listing", "change_venue", "change_stay",
                 "change_check", "change_commit"}
EditLabels == {"edit_venue", "edit_check", "edit_commit"}

\* What a session at a label knows of its request.
Known(label, j) ==
  /\ label \in BookLabels =>
       j.user \in Users /\ j.listing \in Listings /\ j.request \in Requests
       /\ j.dates \in Dates
  /\ label \in {"book_venue", "book_check", "book_insert"} => j.venue \in Venues
  /\ label = "cancel_commit" => j.stay \in StayIds
  /\ label \in BlockLabels =>
       /\ j.user \in Users /\ j.listing \in Listings /\ j.venue \in Venues
       /\ j.op = "block" \/ j.op = "unblock"
       /\ j.op = "block" => j.request \in Requests /\ j.dates \in Dates
       /\ j.op = "unblock" => j.row \in BlockIds
  /\ label \in {"block_check", "block_insert"} => j.op = "block"
  /\ label \in ChangeLabels =>
       /\ j.stay \in StayIds /\ j.listing \in Listings /\ j.venue \in Venues
       /\ j.op = "propose" \/ j.op \in Deciding
       /\ j.op = "propose" => j.request \in Requests /\ j.dates \in Dates
       /\ j.op \in Deciding => j.row \in ChangeIds
  /\ label \in {"change_check", "change_commit"} => j.dates \in Dates
  /\ label \in EditLabels =>
       j.listing \in Listings /\ j.venue \in Venues /\ j.offer \in Offers
       /\ j.offer.venue = j.venue
  /\ label = "resource_insert" => j.venue \in Venues

\* The row locks a session at a label holds.
Owns(label, j, h) ==
  /\ label \in BookLabels => h.user = j.user
  /\ label \in {"book_venue", "book_check", "book_insert"} \cup BlockLabels
                 \cup {"change_venue", "change_stay", "change_check",
                       "change_commit"} \cup EditLabels
       => h.listing = j.listing
  /\ label \in {"book_check", "book_insert", "block_check", "block_insert",
                "change_stay", "change_check", "change_commit",
                "resource_insert"}
       => h.venue = j.venue
  /\ label \in {"edit_check", "edit_commit"} /\ j.offer.enabled
       => h.venue = j.venue
  /\ label \in {"cancel_commit", "change_check", "change_commit"}
       => h.stay = j.stay

\* The locks h of session s are compatible with those of the other sessions.
Compatible(s, h) ==
  /\ h.user # None => UserFree(s, h.user)
  /\ \A u \in h.shares : UserShareable(s, u)
  /\ h.listing # None => ListingFree(s, h.listing)
  /\ h.venue # None => VenueFree(s, h.venue)
  /\ h.stay # None => StayFree(s, h.stay)

SessionsOK ==
  /\ pc \in [Sessions -> Labels]
  /\ job \in [Sessions -> Job]
  /\ held \in [Sessions -> Locks]
  /\ \A s \in Sessions : /\ Known(pc[s], job[s])
                         /\ Owns(pc[s], job[s], held[s])
                         /\ Compatible(s, held[s])

TablesOK ==
  /\ today \in Nat
  /\ listing \in [Listings -> Offers \cup {None}]
  /\ hourly \subseteq Venues
  /\ stays \in [StayIds -> Stay \cup {NoStay}]
  /\ blocks \in [BlockIds -> Block \cup {NoBlock}]
  /\ changes \in [ChangeIds -> Change \cup {NoChange}]

\* The rows a session at a label refers to exist, and what it has read of their
\* immutable columns is still so.
Refers(label, j) ==
  /\ label \in {"cancel_commit"} \cup ChangeLabels =>
       stays[j.stay].status # "none"
  /\ label \in ChangeLabels =>
       stays[j.stay].listing = j.listing /\ stays[j.stay].venue = j.venue
  /\ label \in {"change_check", "change_commit"} /\ j.op \in Deciding =>
       changes[j.row].status # "none" /\ changes[j.row].stay = j.stay

RowsOK == \A s \in Sessions : Refers(pc[s], job[s])

-----------------------------------------------------------------------------
(* Sessions. *)

\* An idle session serves no request and holds no lock.
LEMMA NoJobType ==
  /\ NoJob \in Job /\ NoLocks \in Locks
  /\ Known("idle", NoJob) /\ Owns("idle", NoJob, NoLocks)
  BY DEF NoJob, NoLocks, Known, Owns, Job, Locks, BookLabels, BlockLabels,
     ChangeLabels, EditLabels, Deciding, AllOps

\* A session that moves to a label with what belongs there, and with locks that
\* nobody else holds, leaves all sessions in order.
LEMMA StepSession ==
  ASSUME SessionsOK, NEW s \in Sessions,
         NEW label \in Labels, NEW j \in Job, NEW h \in Locks,
         Known(label, j), Owns(label, j, h), Compatible(s, h),
         pc' = [pc EXCEPT ![s] = label], job' = [job EXCEPT ![s] = j],
         held' = [held EXCEPT ![s] = h]
  PROVE  SessionsOK'
  <1>1. \A t \in Sessions : /\ pc'[t] = IF t = s THEN label ELSE pc[t]
                            /\ job'[t] = IF t = s THEN j ELSE job[t]
                            /\ held'[t] = IF t = s THEN h ELSE held[t]
    BY DEF SessionsOK
  <1>2. /\ pc' \in [Sessions -> Labels] /\ job' \in [Sessions -> Job]
        /\ held' \in [Sessions -> Locks]
    BY DEF SessionsOK
  <1>3. ASSUME NEW t \in Sessions PROVE Known(pc'[t], job'[t])
    BY <1>1 DEF SessionsOK
  <1>4. ASSUME NEW t \in Sessions PROVE Owns(pc'[t], job'[t], held'[t])
    BY <1>1 DEF SessionsOK
  <1>5. ASSUME NEW t \in Sessions PROVE Compatible(t, held[t])'
    <2>1. CASE t = s
      BY <1>1, <2>1 DEF Compatible, UserFree, UserShareable, ListingFree,
         VenueFree, StayFree
    <2>2. CASE t # s
      <3>1. Compatible(t, held[t]) /\ held'[t] = held[t] /\ held'[s] = h
        BY <1>1, <2>2 DEF SessionsOK
      <3>2. \A r \in Sessions \ {t} : held'[r] = IF r = s THEN h ELSE held[r]
        BY <1>1
      <3>3. /\ h.user = None \/ h.user # held[t].user
            /\ h.user = None \/ h.user \notin held[t].shares
            /\ held[t].user = None \/ held[t].user \notin h.shares
            /\ h.listing = None \/ h.listing # held[t].listing
            /\ h.venue = None \/ h.venue # held[t].venue
            /\ h.stay = None \/ h.stay # held[t].stay
        BY <2>2 DEF Compatible, UserFree, UserShareable, ListingFree,
           VenueFree, StayFree
      <3>4. \A u \in held[t].shares : u \in Users /\ u # None
        BY NoneAssumption DEF SessionsOK, Locks
      <3>5. held[t].user # None => UserFree(t, held[t].user)'
        BY <3>1, <3>2, <3>3 DEF Compatible, UserFree
      <3>6. \A u \in held[t].shares : UserShareable(t, u)'
        BY <3>1, <3>2, <3>3, <3>4 DEF Compatible, UserShareable
      <3>7. /\ held[t].listing # None => ListingFree(t, held[t].listing)'
            /\ held[t].venue # None => VenueFree(t, held[t].venue)'
            /\ held[t].stay # None => StayFree(t, held[t].stay)'
        BY <3>1, <3>2, <3>3 DEF Compatible, ListingFree, VenueFree, StayFree
      <3> QED BY <3>1, <3>5, <3>6, <3>7 DEF Compatible, UserFree,
                 UserShareable, ListingFree, VenueFree, StayFree
    <2> QED BY <2>1, <2>2
  <1> QED BY <1>2, <1>3, <1>4, <1>5 DEF SessionsOK, Known, Owns

\* A response, a rollback or a crash leaves all sessions in order.
LEMMA FinishSession ==
  ASSUME SessionsOK, NEW s \in Sessions, Finish(s)
  PROVE  SessionsOK'
  <1>1. Compatible(s, NoLocks) BY DEF Compatible, NoLocks
  <1> QED BY <1>1, NoJobType, StepSession DEF Finish, Labels

\* So does a step that moves on with the request and the locks it has.
LEMMA GotoSession ==
  ASSUME SessionsOK, NEW s \in Sessions, NEW label \in Labels,
         Known(label, job[s]), Owns(label, job[s], held[s]),
         Goto(s, label), UNCHANGED <<job, held>>
  PROVE  SessionsOK'
  <1>1. /\ job[s] \in Job /\ held[s] \in Locks /\ Compatible(s, held[s])
        /\ job' = [job EXCEPT ![s] = job[s]]
        /\ held' = [held EXCEPT ![s] = held[s]]
    BY DEF SessionsOK
  <1> QED BY <1>1, StepSession DEF Goto

\* The steps of a booking keep all sessions in order.
LEMMA BookSession ==
  ASSUME SessionsOK, TablesOK, NEW s \in Sessions
  PROVE  /\ StartBook(s) => SessionsOK'
         /\ BookLockListing(s) => SessionsOK'
         /\ BookLockVenue(s) => SessionsOK'
         /\ BookCheck(s) => SessionsOK'
  <1> DEFINE k == job[s]
             f == held[s]
  <1>0. k \in Job /\ f \in Locks /\ Known(pc[s], k) /\ Owns(pc[s], k, f)
        /\ Compatible(s, f)
    BY DEF SessionsOK
  <1>1. ASSUME StartBook(s) PROVE SessionsOK'
    <2>1. PICK u \in Users, l \in Listings, r \in Requests, d \in Dates :
            \E p \in {o.price : o \in Offers} : BookLockUser(s, u, l, r, d, p)
      BY <1>1 DEF StartBook
    <2>2. PICK p \in Nat : BookLockUser(s, u, l, r, d, p)
      BY <2>1, OffersAssumption DEF Offer
    <2> DEFINE j == [NoJob EXCEPT !.op = "book", !.user = u, !.listing = l,
                                  !.request = r, !.dates = d, !.price = p]
               h == [f EXCEPT !.user = u]
    <2>7. j \in Job
      BY DEF Job, NoJob, AllOps
    <2>3. j \in Job /\ h \in Locks /\ "book_listing" \in Labels
      BY <1>0, <2>7 DEF Locks, Labels
    <2>4. Known("book_listing", j) /\ Owns("book_listing", j, h)
      BY <1>0 DEF Known, Owns, NoJob, Locks, BookLabels, BlockLabels,
         ChangeLabels, EditLabels
    <2>5. Compatible(s, h)
      BY <1>0, <2>2 DEF Compatible, BookLockUser, Locks
    <2>6. /\ pc' = [pc EXCEPT ![s] = "book_listing"]
          /\ job' = [job EXCEPT ![s] = j] /\ held' = [held EXCEPT ![s] = h]
      BY <2>2 DEF BookLockUser, Goto, SessionsOK
    <2> HIDE DEF j, h
    <2> QED BY <2>3, <2>4, <2>5, <2>6, StepSession
  <1>2. ASSUME BookLockListing(s) PROVE SessionsOK'
    <2>1. CASE Finish(s) BY <2>1, FinishSession
    <2>2. CASE ~Finish(s)
      <3> DEFINE l == k.listing
                 j == [k EXCEPT !.venue = listing[l].venue]
                 h == [f EXCEPT !.listing = l]
      <3>1. /\ pc[s] = "book_listing" /\ ListingFree(s, l) /\ Bookable(l)
            /\ pc' = [pc EXCEPT ![s] = "book_venue"]
            /\ job' = [job EXCEPT ![s] = j] /\ held' = [held EXCEPT ![s] = h]
        BY <1>2, <2>2 DEF BookLockListing, Goto, SessionsOK
      <3>2. l \in Listings /\ listing[l].venue \in Venues
        BY <1>0, <3>1, OffersAssumption
           DEF TablesOK, Bookable, Offer, Known, BookLabels
      <3>3. j \in Job /\ h \in Locks /\ "book_venue" \in Labels
        BY <1>0, <3>2 DEF Job, Locks, Labels
      <3>4. Known("book_venue", j) /\ Owns("book_venue", j, h)
        BY <1>0, <3>1, <3>2 DEF Known, Owns, Job, Locks, BookLabels,
           BlockLabels, ChangeLabels, EditLabels
      <3>5. Compatible(s, h)
        BY <1>0, <3>1 DEF Compatible, Locks
      <3> HIDE DEF j, h
      <3> QED BY <3>1, <3>3, <3>4, <3>5, StepSession
    <2> QED BY <2>1, <2>2
  <1>3. ASSUME BookLockVenue(s) PROVE SessionsOK'
    <2>1. CASE Finish(s) BY <2>1, FinishSession
    <2>2. CASE ~Finish(s)
      <3>1. PICK g \in PreparationDays(k.venue) :
              job' = [job EXCEPT ![s].gap = g]
        BY <1>3, <2>2 DEF BookLockVenue
      <3>2. g \in Nat
        BY <3>1, OffersAssumption DEF PreparationDays, OnVenue, TablesOK, Offer
      <3> DEFINE j == [k EXCEPT !.gap = g]
                 h == [f EXCEPT !.venue = k.venue]
      <3>3. /\ pc[s] = "book_venue" /\ VenueFree(s, k.venue)
            /\ pc' = [pc EXCEPT ![s] = "book_check"]
            /\ job' = [job EXCEPT ![s] = j] /\ held' = [held EXCEPT ![s] = h]
        BY <1>3, <2>2, <3>1 DEF BookLockVenue, Goto, SessionsOK
      <3>4. k.venue \in Venues
        BY <1>0, <3>3 DEF Known
      <3>5. j \in Job /\ h \in Locks /\ "book_check" \in Labels
        BY <1>0, <3>2, <3>4 DEF Job, Locks, Labels
      <3>6. Known("book_check", j) /\ Owns("book_check", j, h)
        BY <1>0, <3>3 DEF Known, Owns, Job, Locks, BookLabels, BlockLabels,
           ChangeLabels, EditLabels
      <3>7. Compatible(s, h)
        BY <1>0, <3>3 DEF Compatible, Locks
      <3> HIDE DEF j, h
      <3> QED BY <3>3, <3>5, <3>6, <3>7, StepSession
    <2> QED BY <2>1, <2>2
  <1>4. ASSUME BookCheck(s) PROVE SessionsOK'
    <2>1. CASE Finish(s) BY <2>1, FinishSession
    <2>2. CASE ~Finish(s)
      <3>1. /\ pc[s] = "book_check" /\ UNCHANGED <<job, held>>
            /\ Goto(s, "book_insert")
        BY <1>4, <2>2 DEF BookCheck
      <3>2. Known("book_insert", k) /\ Owns("book_insert", k, f)
        BY <1>0, <3>1 DEF Known, Owns, BookLabels, BlockLabels, ChangeLabels,
           EditLabels
      <3> QED BY <3>1, <3>2, GotoSession DEF Labels
    <2> QED BY <2>1, <2>2
  <1> QED BY <1>1, <1>2, <1>3, <1>4

\* The steps that add and remove owner blocks do, and cancelling does.
LEMMA BlockSession ==
  ASSUME SessionsOK, TablesOK, NEW s \in Sessions
  PROVE  /\ \A i \in StayIds : CancelLockStay(s, i) => SessionsOK'
         /\ StartBlock(s) => SessionsOK'
         /\ StartUnblock(s) => SessionsOK'
         /\ BlockLockVenue(s) => SessionsOK'
         /\ BlockCheck(s) => SessionsOK'
  <1> DEFINE k == job[s]
             f == held[s]
  <1>0. k \in Job /\ f \in Locks /\ Known(pc[s], k) /\ Owns(pc[s], k, f)
        /\ Compatible(s, f)
    BY DEF SessionsOK
  <1>1. ASSUME NEW i \in StayIds, CancelLockStay(s, i) PROVE SessionsOK'
    <2> DEFINE j == [NoJob EXCEPT !.op = "cancel", !.user = stays[i].user,
                                  !.stay = i]
               h == [f EXCEPT !.stay = i]
    <2>1. stays[i].user \in Users
      BY <1>1 DEF CancelLockStay, TablesOK, Stay, NoStay
    <2>2. j \in Job
      BY <2>1 DEF Job, NoJob, AllOps
    <2>3. h \in Locks /\ "cancel_commit" \in Labels
      BY <1>0 DEF Locks, Labels
    <2>4. Known("cancel_commit", j) /\ Owns("cancel_commit", j, h)
      BY <1>0 DEF Known, Owns, NoJob, Locks, BookLabels, BlockLabels,
         ChangeLabels, EditLabels
    <2>5. Compatible(s, h)
      BY <1>0, <1>1 DEF Compatible, CancelLockStay, Locks
    <2>6. /\ pc' = [pc EXCEPT ![s] = "cancel_commit"]
          /\ job' = [job EXCEPT ![s] = j] /\ held' = [held EXCEPT ![s] = h]
      BY <1>1 DEF CancelLockStay, Goto, SessionsOK
    <2> HIDE DEF j, h
    <2> QED BY <2>2, <2>3, <2>4, <2>5, <2>6, StepSession
  <1>2. ASSUME NEW op \in {"block", "unblock"}, NEW u \in Users,
               NEW l \in Listings, NEW b \in BlockIds \cup {None},
               NEW r \in Requests \cup {None}, NEW d \in Dates \cup {None},
               op = "block" => r \in Requests /\ d \in Dates,
               op = "unblock" => b \in BlockIds,
               BlockLockListing(s, op, u, l, b, r, d)
        PROVE  SessionsOK'
    <2> DEFINE j == [NoJob EXCEPT !.op = op, !.user = u, !.listing = l,
                       !.venue = listing[l].venue, !.row = b, !.request = r,
                       !.dates = d]
               h == [f EXCEPT !.listing = l]
    <2>1. listing[l].venue \in Venues
      BY <1>2, OffersAssumption DEF BlockLockListing, TablesOK, Offer
    <2>2. j \in Job
      BY <2>1 DEF Job, NoJob, AllOps
    <2>3. h \in Locks /\ "block_venue" \in Labels
      BY <1>0 DEF Locks, Labels
    <2>4. Known("block_venue", j) /\ Owns("block_venue", j, h)
      BY <1>0, <1>2, <2>1 DEF Known, Owns, NoJob, Locks, BookLabels,
         BlockLabels, ChangeLabels, EditLabels
    <2>5. Compatible(s, h)
      BY <1>0, <1>2 DEF Compatible, BlockLockListing, Locks
    <2>6. /\ pc' = [pc EXCEPT ![s] = "block_venue"]
          /\ job' = [job EXCEPT ![s] = j] /\ held' = [held EXCEPT ![s] = h]
      BY <1>2 DEF BlockLockListing, Goto, SessionsOK
    <2> HIDE DEF j, h
    <2> QED BY <2>2, <2>3, <2>4, <2>5, <2>6, StepSession
  <1>3. StartBlock(s) => SessionsOK'
    BY <1>2 DEF StartBlock
  <1>4. StartUnblock(s) => SessionsOK'
    BY <1>2 DEF StartUnblock
  <1>5. ASSUME BlockLockVenue(s) PROVE SessionsOK'
    <2>1. CASE Finish(s) BY <2>1, FinishSession
    <2>2. CASE ~Finish(s)
      <3> DEFINE h == [f EXCEPT !.venue = k.venue]
      <3>1. /\ pc[s] = "block_venue" /\ k.op = "block" /\ VenueFree(s, k.venue)
            /\ pc' = [pc EXCEPT ![s] = "block_check"]
            /\ job' = [job EXCEPT ![s] = k] /\ held' = [held EXCEPT ![s] = h]
        BY <1>5, <2>2 DEF BlockLockVenue, Goto, SessionsOK
      <3>2. k.venue \in Venues
        BY <1>0, <3>1 DEF Known, BlockLabels
      <3>3. h \in Locks /\ "block_check" \in Labels
        BY <1>0, <3>2 DEF Locks, Labels
      <3>4. Known("block_check", k) /\ Owns("block_check", k, h)
        BY <1>0, <3>1 DEF Known, Owns, Locks, BookLabels, BlockLabels,
           ChangeLabels, EditLabels
      <3>5. Compatible(s, h)
        BY <1>0, <3>1 DEF Compatible, Locks
      <3> HIDE DEF h
      <3> QED BY <1>0, <3>1, <3>3, <3>4, <3>5, StepSession
    <2> QED BY <2>1, <2>2
  <1>6. ASSUME BlockCheck(s) PROVE SessionsOK'
    <2>1. CASE Finish(s) BY <2>1, FinishSession
    <2>2. CASE ~Finish(s)
      <3>1. /\ pc[s] = "block_check" /\ UNCHANGED <<job, held>>
            /\ Goto(s, "block_insert")
        BY <1>6, <2>2 DEF BlockCheck
      <3>2. Known("block_insert", k) /\ Owns("block_insert", k, f)
        BY <1>0, <3>1 DEF Known, Owns, BookLabels, BlockLabels, ChangeLabels,
           EditLabels
      <3> QED BY <3>1, <3>2, GotoSession DEF Labels
    <2> QED BY <2>1, <2>2
  <1> QED BY <1>1, <1>3, <1>4, <1>5, <1>6

\* The steps of a date change do.
LEMMA ChangeSession ==
  ASSUME SessionsOK, TablesOK, NEW s \in Sessions
  PROVE  /\ StartPropose(s) => SessionsOK'
         /\ StartDecide(s) => SessionsOK'
         /\ ChangeLockListing(s) => SessionsOK'
         /\ ChangeLockVenue(s) => SessionsOK'
         /\ ProposeLockStay(s) => SessionsOK'
         /\ DecideLockStay(s) => SessionsOK'
         /\ ChangeCheck(s) => SessionsOK'
  <1> DEFINE k == job[s]
             f == held[s]
  <1>0. k \in Job /\ f \in Locks /\ Known(pc[s], k) /\ Owns(pc[s], k, f)
        /\ Compatible(s, f)
    BY DEF SessionsOK
  <1>1. ASSUME NEW op \in {"propose"} \cup Deciding, NEW i \in StayIds,
               NEW c \in ChangeIds \cup {None}, NEW r \in Requests \cup {None},
               NEW d \in Dates \cup {None}, NEW p \in Nat,
               op = "propose" => r \in Requests /\ d \in Dates,
               op \in Deciding => c \in ChangeIds,
               ChangeLockUsers(s, op, i, c, r, d, p)
        PROVE  SessionsOK'
    <2> DEFINE who == IF op \in {"propose", "withdraw"}
                        THEN stays[i].user ELSE Owner[stays[i].venue]
               j == [NoJob EXCEPT !.op = op, !.stay = i, !.row = c,
                       !.user = who, !.listing = stays[i].listing,
                       !.venue = stays[i].venue, !.request = r, !.dates = d,
                       !.price = p]
               h == [f EXCEPT !.shares = Recipients(i)]
    <2>1. /\ stays[i].user \in Users /\ stays[i].listing \in Listings
          /\ stays[i].venue \in Venues /\ Recipients(i) \subseteq Users
          /\ who \in Users
      BY <1>1, OwnerAssumption
         DEF ChangeLockUsers, TablesOK, Stay, NoStay, Recipients
    <2> HIDE DEF who
    <2>2. j \in Job
      BY <2>1 DEF Job, NoJob, AllOps, Deciding
    <2>3. h \in Locks /\ "change_listing" \in Labels
      BY <1>0, <2>1 DEF Locks, Labels
    <2>4. Known("change_listing", j) /\ Owns("change_listing", j, h)
      BY <1>0, <1>1, <2>1 DEF Known, Owns, NoJob, Locks, BookLabels,
         BlockLabels, ChangeLabels, EditLabels
    <2>5. Compatible(s, h)
      BY <1>0, <1>1 DEF Compatible, ChangeLockUsers, Locks
    <2>6. /\ pc' = [pc EXCEPT ![s] = "change_listing"]
          /\ job' = [job EXCEPT ![s] = j] /\ held' = [held EXCEPT ![s] = h]
      BY <1>1 DEF ChangeLockUsers, Goto, SessionsOK, who
    <2> HIDE DEF j, h
    <2> QED BY <2>2, <2>3, <2>4, <2>5, <2>6, StepSession
  <1>2. StartPropose(s) => SessionsOK'
    BY <1>1, OffersAssumption DEF StartPropose, Offer, Deciding
  <1>3. StartDecide(s) => SessionsOK'
    BY <1>1 DEF StartDecide, Deciding
  <1>4. ASSUME ChangeLockListing(s) PROVE SessionsOK'
    <2> DEFINE h == [f EXCEPT !.listing = k.listing]
    <2>1. /\ pc[s] = "change_listing" /\ ListingFree(s, k.listing)
          /\ pc' = [pc EXCEPT ![s] = "change_venue"]
          /\ job' = [job EXCEPT ![s] = k] /\ held' = [held EXCEPT ![s] = h]
      BY <1>4 DEF ChangeLockListing, Goto, SessionsOK
    <2>2. k.listing \in Listings
      BY <1>0, <2>1 DEF Known, ChangeLabels
    <2>3. h \in Locks /\ "change_venue" \in Labels
      BY <1>0, <2>2 DEF Locks, Labels
    <2>4. Known("change_venue", k) /\ Owns("change_venue", k, h)
      BY <1>0, <2>1 DEF Known, Owns, Locks, BookLabels, BlockLabels,
         ChangeLabels, EditLabels
    <2>5. Compatible(s, h)
      BY <1>0, <2>1 DEF Compatible, Locks
    <2> HIDE DEF h
    <2> QED BY <1>0, <2>1, <2>3, <2>4, <2>5, StepSession
  <1>5. ASSUME ChangeLockVenue(s) PROVE SessionsOK'
    <2> DEFINE h == [f EXCEPT !.venue = k.venue]
    <2>1. /\ pc[s] = "change_venue" /\ VenueFree(s, k.venue)
          /\ pc' = [pc EXCEPT ![s] = "change_stay"]
          /\ job' = [job EXCEPT ![s] = k] /\ held' = [held EXCEPT ![s] = h]
      BY <1>5 DEF ChangeLockVenue, Goto, SessionsOK
    <2>2. k.venue \in Venues
      BY <1>0, <2>1 DEF Known, ChangeLabels
    <2>3. h \in Locks /\ "change_stay" \in Labels
      BY <1>0, <2>2 DEF Locks, Labels
    <2>4. Known("change_stay", k) /\ Owns("change_stay", k, h)
      BY <1>0, <2>1 DEF Known, Owns, Locks, BookLabels, BlockLabels,
         ChangeLabels, EditLabels
    <2>5. Compatible(s, h)
      BY <1>0, <2>1 DEF Compatible, Locks
    <2> HIDE DEF h
    <2> QED BY <1>0, <2>1, <2>3, <2>4, <2>5, StepSession
  <1>6. ASSUME NEW label \in {"change_check", "change_commit"},
               NEW d \in Dates, NEW p \in Nat,
               NEW g \in PreparationDays(k.venue),
               pc[s] = "change_stay", StayFree(s, k.stay), Goto(s, label),
               job' = [job EXCEPT ![s] = [k EXCEPT !.gap = g, !.dates = d,
                                                   !.price = p]],
               held' = [held EXCEPT ![s] = [f EXCEPT !.stay = k.stay]]
        PROVE  SessionsOK'
    <2> DEFINE j == [k EXCEPT !.gap = g, !.dates = d, !.price = p]
               h == [f EXCEPT !.stay = k.stay]
    <2>1. g \in Nat
      BY OffersAssumption DEF PreparationDays, OnVenue, TablesOK, Offer
    <2>2. k.stay \in StayIds
      BY <1>0, <1>6 DEF Known, ChangeLabels
    <2>8. j \in Job
      BY <1>0, <2>1 DEF Job
    <2>9. h \in Locks
      BY <1>0, <2>2 DEF Locks
    <2>3. j \in Job /\ h \in Locks /\ label \in Labels
      BY <2>8, <2>9 DEF Labels
    <2>4. Known(label, j)
      BY <1>0, <1>6 DEF Known, Job, BookLabels, BlockLabels, ChangeLabels,
         EditLabels
    <2>5. Owns(label, j, h)
      BY <1>0, <1>6 DEF Owns, Job, Locks, BookLabels, BlockLabels, ChangeLabels,
         EditLabels
    <2>6. Compatible(s, h)
      BY <1>0, <1>6 DEF Compatible, Locks
    <2>7. /\ pc' = [pc EXCEPT ![s] = label]
          /\ job' = [job EXCEPT ![s] = j] /\ held' = [held EXCEPT ![s] = h]
      BY <1>6 DEF Goto
    <2> HIDE DEF j, h
    <2> QED BY <2>3, <2>4, <2>5, <2>6, <2>7, StepSession
  <1>7. ASSUME ProposeLockStay(s) PROVE SessionsOK'
    <2>1. CASE Finish(s) BY <2>1, FinishSession
    <2>2. CASE ~Finish(s)
      <3>1. PICK g \in PreparationDays(k.venue) :
              job' = [job EXCEPT ![s].gap = g]
        BY <1>7, <2>2 DEF ProposeLockStay
      <3>2. k.dates \in Dates /\ k.price \in Nat /\ pc[s] = "change_stay"
        BY <1>0, <1>7 DEF ProposeLockStay, Known, ChangeLabels, Job
      <3>3. [k EXCEPT !.gap = g]
              = [k EXCEPT !.gap = g, !.dates = k.dates, !.price = k.price]
        BY <1>0 DEF Job
      <3>4. /\ StayFree(s, k.stay) /\ Goto(s, "change_check")
            /\ held' = [held EXCEPT ![s] = [f EXCEPT !.stay = k.stay]]
            /\ job' = [job EXCEPT ![s] = [k EXCEPT !.gap = g]]
        BY <1>7, <2>2, <3>1 DEF ProposeLockStay, SessionsOK
      <3> HIDE DEF k, f
      <3>5. job' = [job EXCEPT ![s] = [k EXCEPT !.gap = g, !.dates = k.dates,
                                                !.price = k.price]]
        BY <3>3, <3>4
      <3> QED BY <1>6, <3>1, <3>2, <3>4, <3>5
    <2> QED BY <2>1, <2>2
  <1>8. ASSUME DecideLockStay(s) PROVE SessionsOK'
    <2>1. CASE Finish(s) BY <2>1, FinishSession
    <2>2. CASE ~Finish(s)
      <3> DEFINE c == k.row
                 label == IF k.op = "accept" THEN "change_check"
                                             ELSE "change_commit"
      <3>1. PICK g \in PreparationDays(k.venue) :
              job' = [job EXCEPT ![s] =
                        [k EXCEPT !.gap = g, !.dates = changes[c].dates,
                                  !.price = changes[c].price]]
        BY <1>8, <2>2 DEF DecideLockStay
      <3>2. c \in ChangeIds /\ changes[c].status = "pending"
            /\ pc[s] = "change_stay"
        BY <1>0, <1>8, <2>2 DEF DecideLockStay, Known, ChangeLabels
      <3>3. changes[c].dates \in Dates /\ changes[c].price \in Nat
        BY <3>2 DEF TablesOK, Change, NoChange
      <3>4. /\ StayFree(s, k.stay) /\ Goto(s, label)
            /\ held' = [held EXCEPT ![s] = [f EXCEPT !.stay = k.stay]]
        BY <1>8, <2>2 DEF DecideLockStay, SessionsOK
      <3>5. label \in {"change_check", "change_commit"}
        OBVIOUS
      <3> HIDE DEF label, k, f, c
      <3> QED BY <1>6, <3>1, <3>2, <3>3, <3>4, <3>5
    <2> QED BY <2>1, <2>2
  <1>9. ASSUME ChangeCheck(s) PROVE SessionsOK'
    <2>1. CASE Finish(s) BY <2>1, FinishSession
    <2>2. CASE ~Finish(s)
      <3>1. /\ pc[s] = "change_check" /\ UNCHANGED <<job, held>>
            /\ Goto(s, "change_commit")
        BY <1>9, <2>2 DEF ChangeCheck
      <3>2. Known("change_commit", k) /\ Owns("change_commit", k, f)
        BY <1>0, <3>1 DEF Known, Owns, BookLabels, BlockLabels, ChangeLabels,
           EditLabels
      <3> QED BY <3>1, <3>2, GotoSession DEF Labels
    <2> QED BY <2>1, <2>2
  <1> QED BY <1>2, <1>3, <1>4, <1>5, <1>7, <1>8, <1>9

\* The steps that save listings and add hourly resources do.
LEMMA EditSession ==
  ASSUME SessionsOK, TablesOK, NEW s \in Sessions
  PROVE  /\ \A l \in Listings, o \in Offers : ListStart(s, l, o) => SessionsOK'
         /\ \A u \in Users, l \in Listings, o \in Offers :
              EditLockListing(s, u, l, o) => SessionsOK'
         /\ EditLockVenue(s) => SessionsOK'
         /\ EditCheck(s) => SessionsOK'
         /\ \A v \in Venues : ResourceLockVenue(s, v) => SessionsOK'
  <1> DEFINE k == job[s]
             f == held[s]
  <1>0. k \in Job /\ f \in Locks /\ Known(pc[s], k) /\ Owns(pc[s], k, f)
        /\ Compatible(s, f)
    BY DEF SessionsOK
  <1>1. ASSUME NEW op \in {"list", "edit"}, NEW u \in Users,
               NEW l \in Listings, NEW o \in Offers,
               NEW label \in {"edit_venue", "edit_check", "edit_commit"},
               o.enabled => label = "edit_venue",
               ListingFree(s, l), Goto(s, label),
               job' = [job EXCEPT ![s] = [NoJob EXCEPT !.op = op, !.listing = l,
                         !.user = u, !.venue = o.venue, !.offer = o]],
               held' = [held EXCEPT ![s].listing = l]
        PROVE  SessionsOK'
    <2> DEFINE j == [NoJob EXCEPT !.op = op, !.listing = l, !.user = u,
                       !.venue = o.venue, !.offer = o]
               h == [f EXCEPT !.listing = l]
    <2>1. o.venue \in Venues
      BY OffersAssumption DEF Offer
    <2>2. j \in Job
      BY <2>1 DEF Job, NoJob, AllOps
    <2>3. h \in Locks
      BY <1>0 DEF Locks
    <2>4. Known(label, j)
      BY <1>1, <2>1 DEF Known, NoJob, BookLabels, BlockLabels, ChangeLabels,
         EditLabels
    <2>5. Owns(label, j, h)
      BY <1>0, <1>1 DEF Owns, NoJob, Locks, BookLabels, BlockLabels,
         ChangeLabels, EditLabels
    <2>6. Compatible(s, h)
      BY <1>0, <1>1 DEF Compatible, Locks
    <2>7. /\ pc' = [pc EXCEPT ![s] = label] /\ label \in Labels
          /\ job' = [job EXCEPT ![s] = j] /\ held' = [held EXCEPT ![s] = h]
      BY <1>1 DEF Goto, SessionsOK, Labels
    <2> HIDE DEF j, h
    <2> QED BY <2>2, <2>3, <2>4, <2>5, <2>6, <2>7, StepSession
  <1>2. ASSUME NEW l \in Listings, NEW o \in Offers, ListStart(s, l, o)
        PROVE  SessionsOK'
    <2>1. Owner[o.venue] \in Users
      BY OffersAssumption, OwnerAssumption DEF Offer
    <2>2. CASE o.enabled
      <3>1. /\ Goto(s, "edit_venue") /\ ListingFree(s, l)
            /\ held' = [held EXCEPT ![s].listing = l]
            /\ job' = [job EXCEPT ![s] = [NoJob EXCEPT !.op = "list",
                         !.listing = l, !.user = Owner[o.venue],
                         !.venue = o.venue, !.offer = o]]
        BY <1>2, <2>2 DEF ListStart
      <3> QED BY <1>1, <2>1, <2>2, <3>1
    <2>3. CASE ~o.enabled
      <3>1. /\ Goto(s, "edit_commit") /\ ListingFree(s, l)
            /\ held' = [held EXCEPT ![s].listing = l]
            /\ job' = [job EXCEPT ![s] = [NoJob EXCEPT !.op = "list",
                         !.listing = l, !.user = Owner[o.venue],
                         !.venue = o.venue, !.offer = o]]
        BY <1>2, <2>3 DEF ListStart
      <3> QED BY <1>1, <2>1, <2>3, <3>1
    <2> QED BY <2>2, <2>3
  <1>3. ASSUME NEW u \in Users, NEW l \in Listings, NEW o \in Offers,
               EditLockListing(s, u, l, o)
        PROVE  SessionsOK'
    <2>1. CASE o.enabled
      <3>1. /\ Goto(s, "edit_venue") /\ ListingFree(s, l)
            /\ held' = [held EXCEPT ![s].listing = l]
            /\ job' = [job EXCEPT ![s] = [NoJob EXCEPT !.op = "edit",
                         !.listing = l, !.user = u, !.venue = o.venue,
                         !.offer = o]]
        BY <1>3, <2>1 DEF EditLockListing
      <3> QED BY <1>1, <2>1, <3>1
    <2>2. CASE ~o.enabled
      <3>1. /\ Goto(s, "edit_check") /\ ListingFree(s, l)
            /\ held' = [held EXCEPT ![s].listing = l]
            /\ job' = [job EXCEPT ![s] = [NoJob EXCEPT !.op = "edit",
                         !.listing = l, !.user = u, !.venue = o.venue,
                         !.offer = o]]
        BY <1>3, <2>2 DEF EditLockListing
      <3> QED BY <1>1, <2>2, <3>1
    <2> QED BY <2>1, <2>2
  <1>4. ASSUME EditLockVenue(s) PROVE SessionsOK'
    <2>1. CASE Finish(s) BY <2>1, FinishSession
    <2>2. CASE ~Finish(s)
      <3> DEFINE h == [f EXCEPT !.venue = k.venue]
                 label == IF k.op = "list" THEN "edit_commit" ELSE "edit_check"
      <3>1. /\ pc[s] = "edit_venue" /\ VenueFree(s, k.venue)
            /\ pc' = [pc EXCEPT ![s] = label]
            /\ job' = [job EXCEPT ![s] = k] /\ held' = [held EXCEPT ![s] = h]
        BY <1>4, <2>2 DEF EditLockVenue, Goto, SessionsOK
      <3>2. k.venue \in Venues
        BY <1>0, <3>1 DEF Known, EditLabels
      <3>3. h \in Locks
        BY <1>0, <3>2 DEF Locks
      <3>4. label \in {"edit_check", "edit_commit"}
        OBVIOUS
      <3> HIDE DEF label
      <3>5. Known(label, k)
        BY <1>0, <3>1, <3>4 DEF Known, BookLabels, BlockLabels, ChangeLabels,
           EditLabels
      <3>6. Owns(label, k, h)
        BY <1>0, <3>1, <3>4 DEF Owns, Locks, BookLabels, BlockLabels,
           ChangeLabels, EditLabels
      <3>7. Compatible(s, h) /\ label \in Labels
        BY <1>0, <3>1, <3>4 DEF Compatible, Locks, Labels
      <3> HIDE DEF h
      <3> QED BY <1>0, <3>1, <3>3, <3>5, <3>6, <3>7, StepSession
    <2> QED BY <2>1, <2>2
  <1>5. ASSUME EditCheck(s) PROVE SessionsOK'
    <2>1. CASE Finish(s) BY <2>1, FinishSession
    <2>2. CASE ~Finish(s)
      <3>1. /\ pc[s] = "edit_check" /\ UNCHANGED <<job, held>>
            /\ Goto(s, "edit_commit")
        BY <1>5, <2>2 DEF EditCheck
      <3>2. Known("edit_commit", k) /\ Owns("edit_commit", k, f)
        BY <1>0, <3>1 DEF Known, Owns, BookLabels, BlockLabels, ChangeLabels,
           EditLabels
      <3> QED BY <3>1, <3>2, GotoSession DEF Labels
    <2> QED BY <2>1, <2>2
  <1>6. ASSUME NEW v \in Venues, ResourceLockVenue(s, v) PROVE SessionsOK'
    <2> DEFINE j == [NoJob EXCEPT !.op = "resource", !.user = Owner[v],
                                  !.venue = v]
               h == [f EXCEPT !.venue = v]
    <2>1. j \in Job
      BY OwnerAssumption DEF Job, NoJob, AllOps
    <2>2. h \in Locks /\ "resource_insert" \in Labels
      BY <1>0 DEF Locks, Labels
    <2>3. Known("resource_insert", j) /\ Owns("resource_insert", j, h)
      BY <1>0 DEF Known, Owns, NoJob, Locks, BookLabels, BlockLabels,
         ChangeLabels, EditLabels
    <2>4. Compatible(s, h)
      BY <1>0, <1>6 DEF Compatible, ResourceLockVenue, Locks
    <2>5. /\ pc' = [pc EXCEPT ![s] = "resource_insert"]
          /\ job' = [job EXCEPT ![s] = j] /\ held' = [held EXCEPT ![s] = h]
      BY <1>6 DEF ResourceLockVenue, Goto, SessionsOK
    <2> HIDE DEF j, h
    <2> QED BY <2>1, <2>2, <2>3, <2>4, <2>5, StepSession
  <1> QED BY <1>2, <1>3, <1>4, <1>5, <1>6

\* No step of the system puts a session out of order.
LEMMA SessionsStep == SessionsOK /\ TablesOK /\ [Next]_vars => SessionsOK'
  <1> SUFFICES ASSUME SessionsOK, TablesOK, [Next]_vars PROVE SessionsOK'
    OBVIOUS
  <1>1. CASE UNCHANGED <<pc, job, held>>
    BY <1>1 DEF SessionsOK, Known, Owns, Compatible, UserFree, UserShareable,
       ListingFree, VenueFree, StayFree
  <1>2. ASSUME NEW s \in Sessions, Start(s) PROVE SessionsOK'
    BY <1>2, BookSession, BlockSession, ChangeSession, EditSession DEF Start
  <1>3. ASSUME NEW s \in Sessions, Continue(s) PROVE SessionsOK'
    BY <1>3, BookSession, BlockSession, ChangeSession, EditSession,
       FinishSession
       DEF Continue, BookInsert, CancelCommit, BlockInsert, Unblock,
           ProposeCommit, DecideCommit, EditCommit, ResourceInsert
  <1>4. ASSUME NEW s \in Sessions, Abort(s) PROVE SessionsOK'
    BY <1>4, FinishSession DEF Abort
  <1> QED BY <1>1, <1>2, <1>3, <1>4
          DEF Next, vars, ResourceDelete, NextDay

\* One session moves at a time.
LEMMA OthersStay ==
  ASSUME SessionsOK, [Next]_vars
  PROVE  \/ UNCHANGED <<pc, job, held>>
         \/ \E s \in Sessions :
              /\ Start(s) \/ Continue(s) \/ Abort(s)
              /\ \A t \in Sessions \ {s} :
                   /\ pc'[t] = pc[t] /\ job'[t] = job[t] /\ held'[t] = held[t]
  <1>1. ASSUME NEW s \in Sessions, Finish(s)
        PROVE  \A t \in Sessions \ {s} :
                 /\ pc'[t] = pc[t] /\ job'[t] = job[t] /\ held'[t] = held[t]
    BY <1>1 DEF Finish, SessionsOK
  <1>2. ASSUME NEW s \in Sessions, Start(s)
        PROVE  \A t \in Sessions \ {s} :
                 /\ pc'[t] = pc[t] /\ job'[t] = job[t] /\ held'[t] = held[t]
    <2>1. CASE StartBook(s)
      BY <2>1 DEF StartBook, BookLockUser, Goto, SessionsOK
    <2>2. CASE StartBlock(s) \/ StartUnblock(s)
      BY <2>2 DEF StartBlock, StartUnblock, BlockLockListing, Goto, SessionsOK
    <2>3. CASE StartPropose(s) \/ StartDecide(s)
      BY <2>3 DEF StartPropose, StartDecide, ChangeLockUsers, Goto, SessionsOK
    <2>4. CASE \E i \in StayIds : CancelLockStay(s, i)
      BY <2>4 DEF CancelLockStay, Goto, SessionsOK
    <2>5. CASE \/ \E l \in Listings, o \in Offers : ListStart(s, l, o)
               \/ \E u \in Users, l \in Listings, o \in Offers :
                     EditLockListing(s, u, l, o)
               \/ \E v \in Venues : ResourceLockVenue(s, v)
      BY <2>5 DEF ListStart, EditLockListing, ResourceLockVenue, Goto,
         SessionsOK
    <2> QED BY <1>2, <2>1, <2>2, <2>3, <2>4, <2>5 DEF Start
  <1>3. ASSUME NEW s \in Sessions, Continue(s)
        PROVE  \A t \in Sessions \ {s} :
                 /\ pc'[t] = pc[t] /\ job'[t] = job[t] /\ held'[t] = held[t]
    <2>1. CASE BookLockListing(s)
      BY <1>1, <2>1 DEF BookLockListing, Goto, SessionsOK
    <2>2. CASE BookLockVenue(s)
      BY <1>1, <2>2 DEF BookLockVenue, Goto, SessionsOK
    <2>3. CASE BookCheck(s)
      BY <1>1, <2>3 DEF BookCheck, Goto, SessionsOK
    <2>4. CASE BlockLockVenue(s)
      BY <1>1, <2>4 DEF BlockLockVenue, Goto, SessionsOK
    <2>5. CASE BlockCheck(s)
      BY <1>1, <2>5 DEF BlockCheck, Goto, SessionsOK
    <2>6. CASE ChangeLockListing(s)
      BY <1>1, <2>6 DEF ChangeLockListing, Goto, SessionsOK
    <2>7. CASE ChangeLockVenue(s)
      BY <1>1, <2>7 DEF ChangeLockVenue, Goto, SessionsOK
    <2>8. CASE ProposeLockStay(s)
      BY <1>1, <2>8 DEF ProposeLockStay, Goto, SessionsOK
    <2>9. CASE DecideLockStay(s)
      BY <1>1, <2>9 DEF DecideLockStay, Goto, SessionsOK
    <2>10. CASE ChangeCheck(s)
      BY <1>1, <2>10 DEF ChangeCheck, Goto, SessionsOK
    <2>11. CASE EditLockVenue(s)
      BY <1>1, <2>11 DEF EditLockVenue, Goto, SessionsOK
    <2>12. CASE EditCheck(s)
      BY <1>1, <2>12 DEF EditCheck, Goto, SessionsOK
    <2>13. CASE \/ BookInsert(s) \/ CancelCommit(s) \/ BlockInsert(s)
                \/ Unblock(s) \/ ProposeCommit(s) \/ DecideCommit(s)
                \/ EditCommit(s) \/ ResourceInsert(s)
      <3>1. Finish(s)
        BY <2>13 DEF BookInsert, CancelCommit, BlockInsert, Unblock,
           ProposeCommit, DecideCommit, EditCommit, ResourceInsert
      <3> QED BY <3>1, <1>1
    <2> QED
      BY <1>3, <2>1, <2>2, <2>3, <2>4, <2>5, <2>6, <2>7, <2>8, <2>9,
         <2>10, <2>11, <2>12, <2>13
         DEF Continue
  <1>4. ASSUME NEW s \in Sessions, Abort(s)
        PROVE  \A t \in Sessions \ {s} :
                 /\ pc'[t] = pc[t] /\ job'[t] = job[t] /\ held'[t] = held[t]
    BY <1>1, <1>4 DEF Abort
  <1> QED BY <1>2, <1>3, <1>4 DEF Next, vars, ResourceDelete, NextDay

-----------------------------------------------------------------------------
(* Tables. *)

\* Only commits write to the tables.
LEMMA Commits ==
  ASSUME [Next]_vars
  PROVE  \/ UNCHANGED tables
         \/ \E s \in Sessions :
              \/ BookInsert(s) \/ CancelCommit(s) \/ BlockInsert(s)
              \/ Unblock(s) \/ ProposeCommit(s) \/ DecideCommit(s)
              \/ EditCommit(s) \/ ResourceInsert(s)
         \/ \E v \in Venues : ResourceDelete(v)
         \/ NextDay
  <1>1. ASSUME NEW s \in Sessions, Start(s) PROVE UNCHANGED tables
    BY <1>1 DEF Start, StartBook, StartBlock, StartUnblock, StartPropose,
       StartDecide, BookLockUser, CancelLockStay, BlockLockListing,
       ChangeLockUsers, ListStart, EditLockListing, ResourceLockVenue
  <1>2. ASSUME NEW s \in Sessions, Continue(s)
        PROVE  \/ UNCHANGED tables
               \/ BookInsert(s) \/ CancelCommit(s) \/ BlockInsert(s)
               \/ Unblock(s) \/ ProposeCommit(s) \/ DecideCommit(s)
               \/ EditCommit(s) \/ ResourceInsert(s)
    BY <1>2 DEF Continue, BookLockListing, BookLockVenue, BookCheck,
       BlockLockVenue, BlockCheck, ChangeLockListing, ChangeLockVenue,
       ProposeLockStay, DecideLockStay, ChangeCheck, EditLockVenue, EditCheck
  <1>3. ASSUME NEW s \in Sessions, Abort(s) PROVE UNCHANGED tables
    BY <1>3 DEF Abort
  <1> QED BY <1>1, <1>2, <1>3 DEF Next, vars

\* What a commit writes to stays: a new row, a cancellation, or the terms of an
\* accepted change.
LEMMA StayWrites ==
  ASSUME SessionsOK, TablesOK, RowsOK, [Next]_vars
  PROVE  \/ UNCHANGED stays
         \/ \E s \in Sessions, i \in StayIds :
              /\ BookInsert(s) /\ stays[i].status = "none"
              /\ stays' = [stays EXCEPT ![i] =
                   [status |-> "confirmed", listing |-> job[s].listing,
                    venue |-> job[s].venue, user |-> job[s].user,
                    request |-> job[s].request, dates |-> job[s].dates,
                    price |-> job[s].price]]
              /\ stays'[i] \in Stay
         \/ \E s \in Sessions :
              /\ CancelCommit(s) /\ job[s].stay \in StayIds
              /\ stays[job[s].stay] \in Stay
              /\ stays' = [stays EXCEPT ![job[s].stay] =
                             [stays[job[s].stay] EXCEPT !.status = "cancelled"]]
         \/ \E s \in Sessions :
              /\ DecideCommit(s) /\ job[s].op = "accept"
              /\ job[s].stay \in StayIds /\ stays[job[s].stay] \in Stay
              /\ stays' = [stays EXCEPT ![job[s].stay] =
                             [stays[job[s].stay] EXCEPT !.dates = job[s].dates,
                                                        !.price = job[s].price]]
  <1>0. \A s \in Sessions : /\ job[s] \in Job /\ Known(pc[s], job[s])
                            /\ Refers(pc[s], job[s])
    BY DEF SessionsOK, RowsOK
  <1>1. ASSUME NEW i \in StayIds, stays[i].status # "none"
        PROVE  stays[i] \in Stay
    BY <1>1 DEF TablesOK, NoStay
  <1>2. ASSUME NEW s \in Sessions, BookInsert(s)
        PROVE  \E i \in StayIds :
                 /\ stays[i].status = "none"
                 /\ stays' = [stays EXCEPT ![i] =
                      [status |-> "confirmed", listing |-> job[s].listing,
                       venue |-> job[s].venue, user |-> job[s].user,
                       request |-> job[s].request, dates |-> job[s].dates,
                       price |-> job[s].price]]
                 /\ stays'[i] \in Stay
    <2>1. PICK i \in StayIds :
                 /\ stays[i].status = "none"
                 /\ stays' = [stays EXCEPT ![i] =
                      [status |-> "confirmed", listing |-> job[s].listing,
                       venue |-> job[s].venue, user |-> job[s].user,
                       request |-> job[s].request, dates |-> job[s].dates,
                       price |-> job[s].price]]
      BY <1>2 DEF BookInsert
    <2>2. stays'[i] \in Stay
      BY <1>0, <1>2, <2>1 DEF BookInsert, Known, Job, BookLabels, Stay, TablesOK
    <2> QED BY <2>1, <2>2
  <1>3. ASSUME NEW s \in Sessions, CancelCommit(s)
        PROVE  /\ job[s].stay \in StayIds /\ stays[job[s].stay] \in Stay
               /\ stays' = [stays EXCEPT ![job[s].stay] =
                             [stays[job[s].stay] EXCEPT !.status = "cancelled"]]
    BY <1>0, <1>1, <1>3 DEF CancelCommit, Known, Refers
  <1>4. ASSUME NEW s \in Sessions, DecideCommit(s), job[s].op = "accept"
        PROVE  /\ job[s].stay \in StayIds /\ stays[job[s].stay] \in Stay
               /\ stays' = [stays EXCEPT ![job[s].stay] =
                             [stays[job[s].stay] EXCEPT !.dates = job[s].dates,
                                                        !.price = job[s].price]]
    BY <1>0, <1>1, <1>4 DEF DecideCommit, Known, Refers, ChangeLabels
  <1>5. ASSUME NEW s \in Sessions,
               \/ BlockInsert(s) \/ Unblock(s) \/ ProposeCommit(s)
               \/ EditCommit(s) \/ ResourceInsert(s)
               \/ DecideCommit(s) /\ job[s].op # "accept"
        PROVE  UNCHANGED stays
    BY <1>5 DEF BlockInsert, Unblock, ProposeCommit, EditCommit,
       ResourceInsert, DecideCommit
  <1>6. (\E v \in Venues : ResourceDelete(v)) \/ NextDay => UNCHANGED stays
    BY DEF ResourceDelete, NextDay
  <1> QED BY <1>2, <1>3, <1>4, <1>5, <1>6, Commits DEF tables

\* Rows of stays and changes are never taken back, and keep their keys.
StayKept(i) ==
  stays[i].status # "none" =>
    /\ stays'[i].status # "none"
    /\ stays'[i].listing = stays[i].listing /\ stays'[i].venue = stays[i].venue
    /\ stays'[i].user = stays[i].user /\ stays'[i].request = stays[i].request
ChangeKept(c) ==
  changes[c].status # "none" =>
    changes'[c].status # "none" /\ changes'[c].stay = changes[c].stay

\* No commit removes a stay or moves it to another listing, venue or guest.
LEMMA StaysKept ==
  ASSUME SessionsOK, TablesOK, RowsOK, [Next]_vars
  PROVE  /\ stays' \in [StayIds -> Stay \cup {NoStay}]
         /\ \A i \in StayIds : StayKept(i)
  <1>0. \A s \in Sessions : job[s] \in Job /\ Known(pc[s], job[s])
    BY DEF SessionsOK
  <1>1. CASE UNCHANGED stays
    BY <1>1 DEF TablesOK, StayKept
  <1>2. ASSUME NEW i \in StayIds, NEW r \in Stay,
               stays' = [stays EXCEPT ![i] = r],
               stays[i].status = "none" \/
                 /\ r.listing = stays[i].listing /\ r.venue = stays[i].venue
                 /\ r.user = stays[i].user /\ r.request = stays[i].request
        PROVE  /\ stays' \in [StayIds -> Stay \cup {NoStay}]
               /\ \A k \in StayIds : StayKept(k)
    <2>1. r.status # "none"
      BY DEF Stay
    <2> QED BY <1>2, <2>1 DEF TablesOK, StayKept
  <1>3. ASSUME NEW i \in StayIds, NEW r, stays[i].status = "none",
               stays' = [stays EXCEPT ![i] = r], stays'[i] \in Stay
        PROVE  /\ stays' \in [StayIds -> Stay \cup {NoStay}]
               /\ \A k \in StayIds : StayKept(k)
    <2>1. r \in Stay
      BY <1>3 DEF TablesOK
    <2> QED BY <1>2, <1>3, <2>1
  <1>4. ASSUME NEW i \in StayIds, stays[i] \in Stay,
               stays' = [stays EXCEPT ![i] =
                           [stays[i] EXCEPT !.status = "cancelled"]]
        PROVE  /\ stays' \in [StayIds -> Stay \cup {NoStay}]
               /\ \A k \in StayIds : StayKept(k)
    <2> DEFINE r == [stays[i] EXCEPT !.status = "cancelled"]
    <2>1. /\ r \in Stay
          /\ r.listing = stays[i].listing /\ r.venue = stays[i].venue
          /\ r.user = stays[i].user /\ r.request = stays[i].request
      BY <1>4 DEF Stay
    <2> HIDE DEF r
    <2>2. stays' = [stays EXCEPT ![i] = r]
      BY <1>4 DEF r
    <2> QED BY <1>2, <2>1, <2>2
  <1>5. ASSUME NEW s \in Sessions, DecideCommit(s), NEW i \in StayIds,
               stays[i] \in Stay,
               stays' = [stays EXCEPT ![i] =
                           [stays[i] EXCEPT !.dates = job[s].dates,
                                            !.price = job[s].price]]
        PROVE  /\ stays' \in [StayIds -> Stay \cup {NoStay}]
               /\ \A k \in StayIds : StayKept(k)
    <2> DEFINE r == [stays[i] EXCEPT !.dates = job[s].dates,
                                     !.price = job[s].price]
    <2>0. job[s].dates \in Dates /\ job[s].price \in Nat
      BY <1>0, <1>5 DEF DecideCommit, Known, Job
    <2>1. /\ r \in Stay
          /\ r.listing = stays[i].listing /\ r.venue = stays[i].venue
          /\ r.user = stays[i].user /\ r.request = stays[i].request
      BY <1>5, <2>0 DEF Stay
    <2> HIDE DEF r
    <2>2. stays' = [stays EXCEPT ![i] = r]
      BY <1>5 DEF r
    <2> QED BY <1>2, <2>1, <2>2
  <1> QED BY <1>1, <1>3, <1>4, <1>5, StayWrites

\* No commit removes a date change or hands it to another stay.
LEMMA ChangesKept ==
  ASSUME SessionsOK, TablesOK, RowsOK, [Next]_vars
  PROVE  /\ changes' \in [ChangeIds -> Change \cup {NoChange}]
         /\ \A c \in ChangeIds : ChangeKept(c)
  <1>0. \A s \in Sessions : /\ job[s] \in Job /\ Known(pc[s], job[s])
                            /\ Refers(pc[s], job[s])
    BY DEF SessionsOK, RowsOK
  <1>1. CASE UNCHANGED changes
    BY <1>1 DEF TablesOK, ChangeKept
  <1>2. ASSUME NEW s \in Sessions, ProposeCommit(s)
        PROVE  /\ changes' \in [ChangeIds -> Change \cup {NoChange}]
               /\ \A k \in ChangeIds : ChangeKept(k)
    <2> DEFINE j == job[s]
               r == [status |-> "pending", stay |-> j.stay,
                     request |-> j.request, dates |-> j.dates,
                     price |-> j.price, oldDates |-> stays[j.stay].dates,
                     oldPrice |-> stays[j.stay].price]
    <2>1. PICK c \in ChangeIds :
            /\ changes[c].status = "none"
            /\ changes' = [k \in ChangeIds |->
                 IF k = c THEN r
                 ELSE IF k \in PendingOf(j.stay)
                   THEN [changes[k] EXCEPT !.status = "expired"]
                 ELSE changes[k]]
      BY <1>2 DEF ProposeCommit
    <2>2. /\ j.stay \in StayIds /\ j.request \in Requests /\ j.dates \in Dates
          /\ j.price \in Nat /\ stays[j.stay].status # "none"
      BY <1>0, <1>2 DEF ProposeCommit, Known, Refers, ChangeLabels, Job
    <2>3. stays[j.stay] \in Stay
      BY <2>2 DEF TablesOK, NoStay
    <2>4. r \in Change /\ r.status # "none"
      BY <2>2, <2>3 DEF Change, Stay
    <2>5. ASSUME NEW k \in ChangeIds, k \in PendingOf(j.stay)
          PROVE  /\ [changes[k] EXCEPT !.status = "expired"] \in Change
                 /\ [changes[k] EXCEPT !.status = "expired"].status # "none"
                 /\ [changes[k] EXCEPT !.status = "expired"].stay
                      = changes[k].stay
      <3>1. changes[k] \in Change
        BY <2>5 DEF PendingOf, TablesOK, NoChange
      <3> QED BY <3>1 DEF Change
    <2> HIDE DEF r
    <2> QED BY <2>1, <2>4, <2>5 DEF TablesOK, ChangeKept
  <1>3. ASSUME NEW s \in Sessions, DecideCommit(s)
        PROVE  /\ changes' \in [ChangeIds -> Change \cup {NoChange}]
               /\ \A k \in ChangeIds : ChangeKept(k)
    <2> DEFINE c == job[s].row
    <2>1. c \in ChangeIds /\ changes[c].status # "none"
      BY <1>0, <1>3 DEF DecideCommit, Known, Refers, ChangeLabels
    <2>2. changes[c] \in Change
      BY <2>1 DEF TablesOK, NoChange
    <2>3. PICK t \in {"accepted", "declined", "withdrawn"} :
            changes' = [changes EXCEPT ![c] = [changes[c] EXCEPT !.status = t]]
      BY <1>3 DEF DecideCommit, Deciding
    <2>4. /\ [changes[c] EXCEPT !.status = t] \in Change
          /\ [changes[c] EXCEPT !.status = t].status # "none"
          /\ [changes[c] EXCEPT !.status = t].stay = changes[c].stay
      BY <2>2, <2>3 DEF Change
    <2> QED BY <2>1, <2>3, <2>4 DEF TablesOK, ChangeKept
  <1>4. ASSUME NEW s \in Sessions,
               \/ BookInsert(s) \/ CancelCommit(s) \/ BlockInsert(s)
               \/ Unblock(s) \/ EditCommit(s) \/ ResourceInsert(s)
        PROVE  UNCHANGED changes
    BY <1>4 DEF BookInsert, CancelCommit, BlockInsert, Unblock, EditCommit,
       ResourceInsert
  <1>5. (\E v \in Venues : ResourceDelete(v)) \/ NextDay => UNCHANGED changes
    BY DEF ResourceDelete, NextDay
  <1> QED BY <1>1, <1>2, <1>3, <1>4, <1>5, Commits DEF tables

\* Every commit writes well-formed rows.
LEMMA TablesStep ==
  SessionsOK /\ TablesOK /\ RowsOK /\ [Next]_vars => TablesOK'
  <1> SUFFICES ASSUME SessionsOK, TablesOK, RowsOK, [Next]_vars
               PROVE  TablesOK'
    OBVIOUS
  <1>0. \A s \in Sessions : job[s] \in Job /\ Known(pc[s], job[s])
    BY DEF SessionsOK
  <1>1. /\ stays' \in [StayIds -> Stay \cup {NoStay}]
        /\ changes' \in [ChangeIds -> Change \cup {NoChange}]
    BY StaysKept, ChangesKept
  <1>2. blocks' \in [BlockIds -> Block \cup {NoBlock}]
    <2>1. CASE UNCHANGED blocks
      BY <2>1 DEF TablesOK
    <2>2. ASSUME NEW s \in Sessions, BlockInsert(s)
          PROVE  blocks' \in [BlockIds -> Block \cup {NoBlock}]
      BY <1>0, <2>2 DEF BlockInsert, TablesOK, Block, Known, BlockLabels, Job
    <2>3. ASSUME NEW s \in Sessions, Unblock(s), ~UNCHANGED blocks
          PROVE  blocks' \in [BlockIds -> Block \cup {NoBlock}]
      <3> DEFINE b == job[s].row
      <3>1. b \in BlockIds /\ blocks[b].status # "none"
            /\ blocks' = [blocks EXCEPT ![b] = [blocks[b] EXCEPT !.status = "removed"]]
        BY <1>0, <2>3 DEF Unblock, Known, BlockLabels
      <3>2. blocks[b] \in Block
        BY <3>1 DEF TablesOK, NoBlock
      <3>3. [blocks[b] EXCEPT !.status = "removed"] \in Block
        BY <3>2 DEF Block
      <3> QED BY <3>1, <3>3 DEF TablesOK
    <2>4. ASSUME NEW s \in Sessions,
                 \/ BookInsert(s) \/ CancelCommit(s) \/ ProposeCommit(s)
                 \/ DecideCommit(s) \/ EditCommit(s) \/ ResourceInsert(s)
          PROVE  UNCHANGED blocks
      BY <2>4 DEF BookInsert, CancelCommit, ProposeCommit, DecideCommit,
         EditCommit, ResourceInsert
    <2>5. (\E v \in Venues : ResourceDelete(v)) \/ NextDay => UNCHANGED blocks
      BY DEF ResourceDelete, NextDay
    <2> QED BY <2>1, <2>2, <2>3, <2>4, <2>5, Commits DEF tables
  <1>3. /\ listing' \in [Listings -> Offers \cup {None}]
        /\ hourly' \subseteq Venues /\ today' \in Nat
    <2>1. CASE UNCHANGED tables
      BY <2>1 DEF tables, TablesOK
    <2>2. ASSUME NEW s \in Sessions, EditCommit(s)
          PROVE  /\ listing' \in [Listings -> Offers \cup {None}]
                 /\ hourly' \subseteq Venues /\ today' \in Nat
      BY <1>0, <2>2 DEF EditCommit, TablesOK, Known, EditLabels
    <2>3. ASSUME NEW s \in Sessions, ResourceInsert(s)
          PROVE  /\ listing' \in [Listings -> Offers \cup {None}]
                 /\ hourly' \subseteq Venues /\ today' \in Nat
      BY <1>0, <2>3 DEF ResourceInsert, TablesOK, Known
    <2>4. ASSUME NEW s \in Sessions,
                 \/ BookInsert(s) \/ CancelCommit(s) \/ BlockInsert(s)
                 \/ Unblock(s) \/ ProposeCommit(s) \/ DecideCommit(s)
          PROVE  UNCHANGED <<listing, hourly, today>>
      BY <2>4 DEF BookInsert, CancelCommit, BlockInsert, Unblock,
         ProposeCommit, DecideCommit
    <2>5. (\E v \in Venues : ResourceDelete(v)) \/ NextDay
            => /\ UNCHANGED listing /\ hourly' \subseteq hourly
               /\ today' = today \/ today' = today + 1
      BY DEF ResourceDelete, NextDay
    <2> QED BY <2>1, <2>2, <2>3, <2>4, <2>5, Commits DEF TablesOK
  <1> QED BY <1>1, <1>2, <1>3 DEF TablesOK

\* The rows a session refers to stay where it found them.
LEMMA RowsStep ==
  SessionsOK /\ TablesOK /\ RowsOK /\ [Next]_vars => RowsOK'
  <1> SUFFICES ASSUME SessionsOK, TablesOK, RowsOK, [Next]_vars,
                      NEW t \in Sessions
               PROVE  Refers(pc[t], job[t])'
    BY DEF RowsOK
  <1>0. /\ job[t] \in Job /\ Known(pc[t], job[t]) /\ Refers(pc[t], job[t])
    BY DEF SessionsOK, RowsOK
  <1>1. (\A i \in StayIds : StayKept(i)) /\ (\A c \in ChangeIds : ChangeKept(c))
    BY StaysKept, ChangesKept
  <1>2. ASSUME NEW label, NEW j, Known(label, j), Refers(label, j),
               pc'[t] = label, job'[t] = j
        PROVE  Refers(pc[t], job[t])'
    BY <1>1, <1>2 DEF Refers, Known, StayKept, ChangeKept, ChangeLabels
  <1>3. CASE pc'[t] = pc[t] /\ job'[t] = job[t]
    BY <1>0, <1>2, <1>3
  <1>4. CASE pc'[t] \notin {"cancel_commit"} \cup ChangeLabels
    BY <1>4 DEF Refers, ChangeLabels
  <1>5. ASSUME Start(t) PROVE Refers(pc[t], job[t])'
    <2>1. ASSUME NEW i \in StayIds, CancelLockStay(t, i)
          PROVE  Refers(pc[t], job[t])'
      BY <1>1, <2>1 DEF CancelLockStay, Goto, SessionsOK, Refers, NoJob,
         ChangeLabels, StayKept
    <2>2. ASSUME NEW op, NEW i \in StayIds, NEW c, NEW r, NEW d, NEW p,
                 ChangeLockUsers(t, op, i, c, r, d, p)
          PROVE  Refers(pc[t], job[t])'
      BY <1>1, <2>2 DEF ChangeLockUsers, Goto, SessionsOK, Refers, NoJob,
         ChangeLabels, StayKept
    <2>3. CASE \/ StartBook(t) \/ StartBlock(t) \/ StartUnblock(t)
               \/ \E l \in Listings, o \in Offers : ListStart(t, l, o)
               \/ \E u \in Users, l \in Listings, o \in Offers :
                    EditLockListing(t, u, l, o)
               \/ \E v \in Venues : ResourceLockVenue(t, v)
      <3>1. pc'[t] \notin {"cancel_commit"} \cup ChangeLabels
        BY <2>3 DEF StartBook, StartBlock, StartUnblock, BookLockUser,
           BlockLockListing, ListStart, EditLockListing, ResourceLockVenue,
           Goto, SessionsOK, ChangeLabels
      <3> QED BY <1>4, <3>1
    <2> QED BY <1>5, <2>1, <2>2, <2>3 DEF Start, StartPropose, StartDecide
  <1>6. ASSUME Finish(t) PROVE Refers(pc[t], job[t])'
    BY <1>4, <1>6 DEF Finish, SessionsOK, ChangeLabels
  <1>7. ASSUME Continue(t) PROVE Refers(pc[t], job[t])'
    <2>1. CASE \/ ChangeLockListing(t) \/ ChangeLockVenue(t)
               \/ ProposeLockStay(t) \/ ChangeCheck(t)
      <3>1. CASE Finish(t) BY <1>6, <3>1
      <3>2. CASE ~Finish(t)
        <4>1. /\ pc[t] \in ChangeLabels /\ pc'[t] \in ChangeLabels
              /\ pc'[t] \in {"change_check", "change_commit"}
                   => pc[t] = "change_check" \/ job[t].op = "propose"
              /\ job'[t].stay = job[t].stay /\ job'[t].row = job[t].row
              /\ job'[t].op = job[t].op /\ job'[t].listing = job[t].listing
              /\ job'[t].venue = job[t].venue
          BY <1>0, <2>1, <3>2 DEF ChangeLockListing, ChangeLockVenue,
             ProposeLockStay, ChangeCheck, Goto, SessionsOK, ChangeLabels, Job
        <4> QED BY <1>0, <1>1, <4>1 DEF Refers, Known, StayKept, ChangeKept,
                   ChangeLabels, Deciding
      <3> QED BY <3>1, <3>2
    <2>2. CASE DecideLockStay(t)
      <3>1. CASE Finish(t) BY <1>6, <3>1
      <3>2. CASE ~Finish(t)
        <4> DEFINE k == job[t]
        <4>1. PICK g \in PreparationDays(k.venue) :
                job' = [job EXCEPT ![t] =
                          [k EXCEPT !.gap = g, !.dates = changes[k.row].dates,
                                    !.price = changes[k.row].price]]
          BY <2>2, <3>2 DEF DecideLockStay
        <4>2. job'[t] = [k EXCEPT !.gap = g, !.dates = changes[k.row].dates,
                                  !.price = changes[k.row].price]
          BY <4>1 DEF SessionsOK
        <4>3. /\ job'[t].stay = k.stay /\ job'[t].row = k.row
              /\ job'[t].op = k.op /\ job'[t].listing = k.listing
              /\ job'[t].venue = k.venue
          BY <1>0, <4>2 DEF Job
        <4>4. /\ pc[t] = "change_stay" /\ k.op \in Deciding
              /\ changes[k.row].status # "none" /\ changes[k.row].stay = k.stay
          BY <2>2, <3>2 DEF DecideLockStay
        <4> HIDE DEF k
        <4>5. Refers(pc[t], k) /\ Known(pc[t], k)
          BY <1>0 DEF k
        <4> QED BY <1>1, <4>3, <4>4, <4>5 DEF Refers, Known, StayKept,
                   ChangeKept, ChangeLabels
      <3> QED BY <3>1, <3>2
    <2>3. CASE \/ BookLockListing(t) \/ BookLockVenue(t) \/ BookCheck(t)
               \/ BlockLockVenue(t) \/ BlockCheck(t)
               \/ EditLockVenue(t) \/ EditCheck(t)
      <3>1. Finish(t) \/ pc'[t] \notin {"cancel_commit"} \cup ChangeLabels
        BY <2>3 DEF BookLockListing, BookLockVenue, BookCheck, BlockLockVenue,
           BlockCheck, EditLockVenue, EditCheck, Goto, SessionsOK, ChangeLabels
      <3> QED BY <1>4, <1>6, <3>1
    <2>4. CASE \/ BookInsert(t) \/ CancelCommit(t) \/ BlockInsert(t)
               \/ Unblock(t) \/ ProposeCommit(t) \/ DecideCommit(t)
               \/ EditCommit(t) \/ ResourceInsert(t)
      BY <1>6, <2>4 DEF BookInsert, CancelCommit, BlockInsert, Unblock,
         ProposeCommit, DecideCommit, EditCommit, ResourceInsert
    <2> QED BY <1>7, <2>1, <2>2, <2>3, <2>4 DEF Continue
  <1> QED BY <1>3, <1>5, <1>6, <1>7, OthersStay DEF Abort

-----------------------------------------------------------------------------
(* Type correctness. *)

Inv1 == SessionsOK /\ TablesOK /\ RowsOK

\* The system starts with every session idle and every table well formed.
LEMMA Inv1Init == Init => Inv1
  <1> SUFFICES ASSUME Init PROVE Inv1
    OBVIOUS
  <1>1. SessionsOK
    <2>1. \A s \in Sessions : Compatible(s, NoLocks)
      BY DEF Compatible, NoLocks
    <2>2. \A s \in Sessions : pc[s] = "idle" /\ job[s] = NoJob
                              /\ held[s] = NoLocks
      BY DEF Init
    <2> QED BY <2>1, <2>2, NoJobType DEF Init, SessionsOK, Labels
  <1>2. TablesOK
    BY CatalogueAssumption DEF Init, TablesOK
  <1>3. RowsOK
    BY DEF Init, RowsOK, Refers, ChangeLabels
  <1> QED BY <1>1, <1>2, <1>3 DEF Inv1

\* Sessions, rows and locks are in order in every reachable state.
LEMMA Inv1Always == Spec => []Inv1
  <1>1. Inv1 /\ [Next]_vars => Inv1'
    BY SessionsStep, TablesStep, RowsStep DEF Inv1
  <1> QED BY <1>1, Inv1Init, PTL DEF Spec

\* TypeOK holds in every reachable state, whatever the sets of accounts, rows
\* and sessions are.
THEOREM TypeCorrect == Spec => []TypeOK
  <1>1. Inv1 => TypeOK
    BY DEF Inv1, SessionsOK, TablesOK, TypeOK
  <1> QED BY <1>1, Inv1Always, PTL

-----------------------------------------------------------------------------
(* What the rows promise beyond the calendar.                               *)
(*                                                                         *)
(* A request identifier is served once: what a handler found missing under  *)
(* its locks is still missing when it inserts; FreshOK adds to              *)
(* InsertsNeverCollide the steps between the search and the insert.         *)
(*                                                                         *)
(* Listings, stays and hourly resources agree about the apartments they are *)
(* of; Settled adds what a session knows of rows that others would need its *)
(* locks to change.                                                         *)

\* A session that has searched for an earlier row of its request, and holds the
\* row lock under which others would insert one, knows that there is none.
Fresh(label, j) ==
  /\ label \in BookLabels => ~PreviousStay(j.user, j.request)
  /\ label \in {"block_check", "block_insert"} =>
       ~PreviousBlock(j.venue, j.request)
  /\ label \in {"change_check", "change_commit"} /\ j.op = "propose" =>
       ~PreviousChange(j.stay, j.request)

FreshOK == \A s \in Sessions : Fresh(pc[s], job[s])

\* Only a commit adds a row: every row after a step was there before it, with
\* the same keys, or belongs to the request that commits.
LEMMA StaysOrigin ==
  ASSUME Inv1, [Next]_vars, NEW i \in StayIds, stays'[i].status # "none"
  PROVE  \/ /\ stays[i].status # "none"
            /\ stays'[i].user = stays[i].user
            /\ stays'[i].request = stays[i].request
            /\ stays'[i].listing = stays[i].listing
            /\ stays'[i].venue = stays[i].venue
         \/ \E s \in Sessions :
              /\ BookInsert(s) /\ stays'[i].user = job[s].user
              /\ stays'[i].listing = job[s].listing
              /\ stays'[i].venue = job[s].venue
  <1>1. CASE stays[i].status # "none"
    BY <1>1, StaysKept DEF Inv1, StayKept
  <1>2. CASE stays[i].status = "none"
    <2>1. ASSUME NEW k \in StayIds, NEW r, stays' = [stays EXCEPT ![k] = r]
          PROVE  k = i /\ stays'[i] = r
      BY <1>2, <2>1 DEF Inv1, TablesOK
    <2>2. ASSUME NEW k \in StayIds, stays[k] \in Stay PROVE k # i
      BY <1>2, <2>2 DEF Stay
    <2>3. ASSUME NEW s \in Sessions, NEW k \in StayIds,
                 stays' = [stays EXCEPT ![k] =
                   [status |-> "confirmed", listing |-> job[s].listing,
                    venue |-> job[s].venue, user |-> job[s].user,
                    request |-> job[s].request, dates |-> job[s].dates,
                    price |-> job[s].price]]
          PROVE  /\ stays'[i].user = job[s].user
                 /\ stays'[i].listing = job[s].listing
                 /\ stays'[i].venue = job[s].venue
      <3>1. k = i
        BY <1>2, <2>3 DEF Inv1, TablesOK
      <3> QED BY <2>3, <3>1 DEF Inv1, TablesOK
    <2>4. ASSUME NEW s \in Sessions, job[s].stay \in StayIds,
                 stays[job[s].stay] \in Stay
          PROVE  /\ stays' # [stays EXCEPT ![job[s].stay] =
                            [stays[job[s].stay] EXCEPT !.status = "cancelled"]]
                 /\ stays' # [stays EXCEPT ![job[s].stay] =
                            [stays[job[s].stay] EXCEPT !.dates = job[s].dates,
                                                       !.price = job[s].price]]
      BY <2>1, <2>2, <2>4
    <2>5. stays' # stays
      BY <1>2
    <2> QED BY <2>3, <2>4, <2>5, StayWrites DEF Inv1
  <1> QED BY <1>1, <1>2

LEMMA BlocksOrigin ==
  ASSUME Inv1, [Next]_vars, NEW b \in BlockIds, blocks'[b].status # "none"
  PROVE  \/ /\ blocks[b].status # "none"
            /\ blocks'[b].venue = blocks[b].venue
            /\ blocks'[b].request = blocks[b].request
         \/ \E s \in Sessions : BlockInsert(s) /\ blocks'[b].venue = job[s].venue
  <1>1. CASE UNCHANGED blocks
    BY <1>1
  <1>2. ASSUME NEW s \in Sessions, BlockInsert(s)
        PROVE  \/ blocks'[b] = blocks[b]
               \/ blocks'[b].venue = job[s].venue
    <2>1. PICK k \in BlockIds :
            blocks' = [blocks EXCEPT ![k] =
              [status |-> "active", venue |-> job[s].venue,
               request |-> job[s].request, dates |-> job[s].dates]]
      BY <1>2 DEF BlockInsert
    <2> QED BY <2>1 DEF Inv1, TablesOK
  <1>3. ASSUME NEW s \in Sessions, Unblock(s), ~UNCHANGED blocks
        PROVE  /\ blocks[b].status # "none"
               /\ blocks'[b].venue = blocks[b].venue
               /\ blocks'[b].request = blocks[b].request
    <2>1. /\ job[s].row \in BlockIds /\ blocks[job[s].row].status # "none"
          /\ blocks' = [blocks EXCEPT ![job[s].row].status = "removed"]
      BY <1>3 DEF Unblock, Inv1, SessionsOK, Known, BlockLabels
    <2>2. blocks[job[s].row] \in Block
      BY <2>1 DEF Inv1, TablesOK, NoBlock
    <2>3. CASE b = job[s].row
      BY <2>1, <2>2, <2>3 DEF Inv1, TablesOK, Block
    <2>4. CASE b # job[s].row
      BY <2>1, <2>4 DEF Inv1, TablesOK
    <2> QED BY <2>3, <2>4
  <1>4. ASSUME NEW s \in Sessions,
               \/ BookInsert(s) \/ CancelCommit(s) \/ ProposeCommit(s)
               \/ DecideCommit(s) \/ EditCommit(s) \/ ResourceInsert(s)
        PROVE  UNCHANGED blocks
    BY <1>4 DEF BookInsert, CancelCommit, ProposeCommit, DecideCommit,
       EditCommit, ResourceInsert
  <1>5. (\E v \in Venues : ResourceDelete(v)) \/ NextDay => UNCHANGED blocks
    BY DEF ResourceDelete, NextDay
  <1> QED BY <1>1, <1>2, <1>3, <1>4, <1>5, Commits DEF tables

LEMMA ChangesOrigin ==
  ASSUME Inv1, [Next]_vars, NEW c \in ChangeIds, changes'[c].status # "none"
  PROVE  \/ /\ changes[c].status # "none"
            /\ changes'[c].stay = changes[c].stay
            /\ changes'[c].request = changes[c].request
         \/ \E s \in Sessions :
              ProposeCommit(s) /\ changes'[c].stay = job[s].stay
  <1>1. CASE UNCHANGED changes
    BY <1>1
  <1>2. ASSUME NEW s \in Sessions, ProposeCommit(s)
        PROVE  \/ /\ changes[c].status # "none"
                  /\ changes'[c].stay = changes[c].stay
                  /\ changes'[c].request = changes[c].request
               \/ changes'[c].stay = job[s].stay
    <2>1. PICK k \in ChangeIds :
            changes' = [m \in ChangeIds |->
              IF m = k THEN
                [status |-> "pending", stay |-> job[s].stay,
                 request |-> job[s].request, dates |-> job[s].dates,
                 price |-> job[s].price,
                 oldDates |-> stays[job[s].stay].dates,
                 oldPrice |-> stays[job[s].stay].price]
              ELSE IF m \in PendingOf(job[s].stay)
                THEN [changes[m] EXCEPT !.status = "expired"]
              ELSE changes[m]]
      BY <1>2 DEF ProposeCommit
    <2>2. CASE c = k
      BY <2>1, <2>2
    <2>3. CASE c # k /\ c \in PendingOf(job[s].stay)
      <3>1. changes[c] \in Change
        BY <2>3 DEF PendingOf, Inv1, TablesOK, NoChange
      <3>2. changes'[c] = [changes[c] EXCEPT !.status = "expired"]
        BY <2>1, <2>3
      <3> QED BY <3>1, <3>2 DEF Change
    <2>4. CASE c # k /\ c \notin PendingOf(job[s].stay)
      BY <2>1, <2>4
    <2> QED BY <2>2, <2>3, <2>4
  <1>3. ASSUME NEW s \in Sessions, DecideCommit(s)
        PROVE  /\ changes[c].status # "none"
               /\ changes'[c].stay = changes[c].stay
               /\ changes'[c].request = changes[c].request
    <2>1. job[s].row \in ChangeIds /\ changes[job[s].row].status # "none"
      BY <1>3 DEF DecideCommit, Inv1, SessionsOK, RowsOK, Known, Refers,
         ChangeLabels
    <2>2. changes[job[s].row] \in Change
      BY <2>1 DEF Inv1, TablesOK, NoChange
    <2>3. PICK t : changes' = [changes EXCEPT ![job[s].row] =
                                 [changes[job[s].row] EXCEPT !.status = t]]
      BY <1>3 DEF DecideCommit
    <2>4. CASE c = job[s].row
      BY <2>1, <2>2, <2>3, <2>4 DEF Inv1, TablesOK, Change
    <2>5. CASE c # job[s].row
      BY <2>3, <2>5 DEF Inv1, TablesOK
    <2> QED BY <2>4, <2>5
  <1>4. ASSUME NEW s \in Sessions,
               \/ BookInsert(s) \/ CancelCommit(s) \/ BlockInsert(s)
               \/ Unblock(s) \/ EditCommit(s) \/ ResourceInsert(s)
        PROVE  UNCHANGED changes
    BY <1>4 DEF BookInsert, CancelCommit, BlockInsert, Unblock, EditCommit,
       ResourceInsert
  <1>5. (\E v \in Venues : ResourceDelete(v)) \/ NextDay => UNCHANGED changes
    BY DEF ResourceDelete, NextDay
  <1> QED BY <1>1, <1>2, <1>3, <1>4, <1>5, Commits DEF tables

\* While one session is past its search, no other session commits a row under
\* the same account, venue or stay: it would need the same row lock.
LEMMA OnlyOneInserts ==
  ASSUME Inv1, NEW s \in Sessions, NEW t \in Sessions, s # t
  PROVE  /\ BookInsert(s) /\ pc[t] \in BookLabels => job[s].user # job[t].user
         /\ BlockInsert(s) /\ pc[t] \in {"block_check", "block_insert"}
              => job[s].venue # job[t].venue
         /\ ProposeCommit(s) /\ pc[t] \in {"change_check", "change_commit"}
              => job[s].stay # job[t].stay
  <1>0. /\ Known(pc[s], job[s]) /\ Owns(pc[s], job[s], held[s])
        /\ Known(pc[t], job[t]) /\ Owns(pc[t], job[t], held[t])
        /\ Compatible(s, held[s])
    BY DEF Inv1, SessionsOK
  <1>1. ASSUME BookInsert(s), pc[t] \in BookLabels
        PROVE  job[s].user # job[t].user
    <2>1. held[s].user = job[s].user /\ job[s].user \in Users
          /\ held[t].user = job[t].user
      BY <1>0, <1>1 DEF BookInsert, Known, Owns, BookLabels
    <2> QED BY <1>0, <2>1, NoneAssumption DEF Compatible, UserFree
  <1>2. ASSUME BlockInsert(s), pc[t] \in {"block_check", "block_insert"}
        PROVE  job[s].venue # job[t].venue
    <2>1. held[s].venue = job[s].venue /\ job[s].venue \in Venues
          /\ held[t].venue = job[t].venue
      BY <1>0, <1>2 DEF BlockInsert, Known, Owns, BlockLabels
    <2> QED BY <1>0, <2>1, NoneAssumption DEF Compatible, VenueFree
  <1>3. ASSUME ProposeCommit(s), pc[t] \in {"change_check", "change_commit"}
        PROVE  job[s].stay # job[t].stay
    <2>1. held[s].stay = job[s].stay /\ job[s].stay \in StayIds
          /\ held[t].stay = job[t].stay
      BY <1>0, <1>3 DEF ProposeCommit, Known, Owns, ChangeLabels
    <2> QED BY <1>0, <2>1, NoneAssumption DEF Compatible, StayFree
  <1> QED BY <1>1, <1>2, <1>3

\* What a session has found missing stays missing while others move.
LEMMA FreshKept ==
  ASSUME Inv1, [Next]_vars, NEW t \in Sessions, Fresh(pc[t], job[t]),
         \A s \in Sessions : BookInsert(s) \/ BlockInsert(s) \/ ProposeCommit(s)
                               => s # t,
         pc'[t] = pc[t], job'[t] = job[t]
  PROVE  Fresh(pc[t], job[t])'
  <1>1. ASSUME pc[t] \in BookLabels
        PROVE  ~PreviousStay(job[t].user, job[t].request)'
    <2>1. \A s \in Sessions : BookInsert(s) => job[s].user # job[t].user
      BY <1>1, OnlyOneInserts
    <2> QED BY <1>1, <2>1, StaysOrigin DEF Fresh, PreviousStay
  <1>2. ASSUME pc[t] \in {"block_check", "block_insert"}
        PROVE  ~PreviousBlock(job[t].venue, job[t].request)'
    <2>1. \A s \in Sessions : BlockInsert(s) => job[s].venue # job[t].venue
      BY <1>2, OnlyOneInserts
    <2> QED BY <1>2, <2>1, BlocksOrigin DEF Fresh, PreviousBlock
  <1>3. ASSUME pc[t] \in {"change_check", "change_commit"},
               job[t].op = "propose"
        PROVE  ~PreviousChange(job[t].stay, job[t].request)'
    <2>1. \A s \in Sessions : ProposeCommit(s) => job[s].stay # job[t].stay
      BY <1>3, OnlyOneInserts
    <2> QED BY <1>3, <2>1, ChangesOrigin DEF Fresh, PreviousChange
  <1> QED BY <1>1, <1>2, <1>3 DEF Fresh

\* A session that moves on knows that its request is new, or has just found out.
LEMMA FreshAhead ==
  ASSUME Inv1, FreshOK, NEW s \in Sessions, Start(s) \/ Continue(s) \/ Abort(s)
  PROVE  Fresh(pc[s], job[s])'
  <1>0. /\ job[s] \in Job /\ Fresh(pc[s], job[s])
        /\ pc \in [Sessions -> Labels] /\ job \in [Sessions -> Job]
    BY DEF Inv1, SessionsOK, FreshOK
  <1>1. CASE pc'[s] \notin BookLabels \cup {"block_check", "block_insert",
                                            "change_check", "change_commit"}
    BY <1>1 DEF Fresh
  <1>2. CASE Finish(s)
    BY <1>0, <1>1, <1>2 DEF Finish, BookLabels
  <1>3. ASSUME NEW u \in Users, NEW l \in Listings, NEW r \in Requests,
               NEW d \in Dates, NEW p \in Nat, BookLockUser(s, u, l, r, d, p)
        PROVE  Fresh(pc[s], job[s])'
    <2>1. /\ pc'[s] = "book_listing" /\ job'[s].user = u /\ job'[s].request = r
          /\ UNCHANGED stays /\ ~PreviousStay(u, r)
      BY <1>0, <1>3 DEF BookLockUser, Goto, NoJob, tables
    <2> QED BY <2>1 DEF Fresh, PreviousStay
  <1>4. ASSUME BookLockListing(s) \/ BookLockVenue(s) \/ BookCheck(s), ~Finish(s)
        PROVE  Fresh(pc[s], job[s])'
    <2>1. /\ pc[s] \in BookLabels /\ UNCHANGED stays
          /\ pc'[s] \in {"book_venue", "book_check", "book_insert"}
      BY <1>0, <1>4 DEF BookLockListing, BookLockVenue, BookCheck, Goto, tables,
         BookLabels
    <2>2. job'[s].user = job[s].user /\ job'[s].request = job[s].request
      BY <1>0, <1>4 DEF BookLockListing, BookLockVenue, BookCheck, Job
    <2> QED BY <1>0, <2>1, <2>2 DEF Fresh, PreviousStay
  <1>5. ASSUME BlockLockVenue(s), ~Finish(s)
        PROVE  Fresh(pc[s], job[s])'
    <2>1. /\ pc'[s] = "block_check" /\ job'[s] = job[s] /\ UNCHANGED blocks
          /\ ~PreviousBlock(job[s].venue, job[s].request)
      BY <1>0, <1>5 DEF BlockLockVenue, Goto, tables
    <2> QED BY <2>1 DEF Fresh, PreviousBlock, BookLabels
  <1>6. ASSUME BlockCheck(s), ~Finish(s)
        PROVE  Fresh(pc[s], job[s])'
    <2>1. /\ pc[s] = "block_check" /\ pc'[s] = "block_insert"
          /\ job'[s] = job[s] /\ UNCHANGED blocks
      BY <1>0, <1>6 DEF BlockCheck, Goto, tables
    <2> QED BY <1>0, <2>1 DEF Fresh, PreviousBlock, BookLabels
  <1>7. ASSUME ProposeLockStay(s), ~Finish(s)
        PROVE  Fresh(pc[s], job[s])'
    <2>1. /\ pc'[s] = "change_check" /\ UNCHANGED changes
          /\ ~PreviousChange(job[s].stay, job[s].request)
      BY <1>0, <1>7 DEF ProposeLockStay, Goto, tables
    <2>2. job'[s].stay = job[s].stay /\ job'[s].request = job[s].request
      BY <1>0, <1>7 DEF ProposeLockStay, Job
    <2> QED BY <2>1, <2>2 DEF Fresh, PreviousChange, BookLabels
  <1>8. ASSUME DecideLockStay(s), ~Finish(s)
        PROVE  Fresh(pc[s], job[s])'
    <2>1. pc'[s] \in {"change_check", "change_commit"} /\ job[s].op \in Deciding
      BY <1>0, <1>8 DEF DecideLockStay, Goto
    <2>2. PICK g \in PreparationDays(job[s].venue) :
            job' = [job EXCEPT ![s] =
                      [job[s] EXCEPT !.gap = g,
                                     !.dates = changes[job[s].row].dates,
                                     !.price = changes[job[s].row].price]]
      BY <1>8 DEF DecideLockStay
    <2>3. job'[s].op # "propose"
      BY <1>0, <2>1, <2>2 DEF Job, Deciding
    <2> QED BY <2>1, <2>3 DEF Fresh, BookLabels
  <1>9. ASSUME ChangeCheck(s), ~Finish(s)
        PROVE  Fresh(pc[s], job[s])'
    <2>1. /\ pc[s] = "change_check" /\ pc'[s] = "change_commit"
          /\ job'[s] = job[s] /\ UNCHANGED changes
      BY <1>0, <1>9 DEF ChangeCheck, Goto, tables
    <2> QED BY <1>0, <2>1 DEF Fresh, PreviousChange, BookLabels
  <1>10. ASSUME Start(s), ~StartBook(s)
         PROVE  Fresh(pc[s], job[s])'
    <2>1. pc'[s] \in {"cancel_commit", "block_venue", "change_listing",
                      "edit_venue", "edit_check", "edit_commit",
                      "resource_insert"}
      BY <1>0, <1>10 DEF Start, StartBlock, StartUnblock, StartPropose,
         StartDecide, CancelLockStay, BlockLockListing, ChangeLockUsers,
         ListStart, EditLockListing, ResourceLockVenue, Goto
    <2> QED BY <1>1, <2>1 DEF BookLabels
  <1>11. ASSUME StartBook(s) PROVE Fresh(pc[s], job[s])'
    BY <1>3, <1>11, OffersAssumption DEF StartBook, Offer
  <1>12. ASSUME \/ ChangeLockListing(s) \/ ChangeLockVenue(s)
                \/ EditLockVenue(s) \/ EditCheck(s),
                ~Finish(s)
         PROVE  Fresh(pc[s], job[s])'
    <2>1. pc'[s] \notin BookLabels \cup {"block_check", "block_insert",
                                         "change_check", "change_commit"}
      BY <1>0, <1>12 DEF ChangeLockListing, ChangeLockVenue, EditLockVenue,
         EditCheck, Goto, BookLabels
    <2> QED BY <1>1, <2>1
  <1>13. ASSUME \/ BookInsert(s) \/ CancelCommit(s) \/ BlockInsert(s)
                \/ Unblock(s) \/ ProposeCommit(s) \/ DecideCommit(s)
                \/ EditCommit(s) \/ ResourceInsert(s) \/ Abort(s)
         PROVE  Finish(s)
    BY <1>13 DEF BookInsert, CancelCommit, BlockInsert, Unblock, ProposeCommit,
       DecideCommit, EditCommit, ResourceInsert, Abort
  <1> QED BY <1>2, <1>4, <1>5, <1>6, <1>7, <1>8, <1>9, <1>10, <1>11, <1>12,
             <1>13 DEF Continue

\* Every step keeps what the sessions have found out.
LEMMA FreshStep ==
  ASSUME Inv1, FreshOK, [Next]_vars
  PROVE  FreshOK'
  <1>1. ASSUME NEW s \in Sessions,
               BookInsert(s) \/ BlockInsert(s) \/ ProposeCommit(s)
        PROVE  /\ pc[s] # "idle" /\ pc'[s] = "idle"
    BY <1>1 DEF BookInsert, BlockInsert, ProposeCommit, Finish, Inv1, SessionsOK
  <1>2. ASSUME NEW t \in Sessions, pc'[t] = pc[t], job'[t] = job[t]
        PROVE  Fresh(pc[t], job[t])'
    BY <1>1, <1>2, FreshKept DEF FreshOK
  <1>3. ASSUME NEW t \in Sessions, Start(t) \/ Continue(t) \/ Abort(t)
        PROVE  Fresh(pc[t], job[t])'
    BY <1>3, FreshAhead DEF Fresh, PreviousStay, PreviousBlock, PreviousChange
  <1>4. ASSUME NEW t \in Sessions PROVE Fresh(pc[t], job[t])'
    BY <1>2, <1>3, OthersStay DEF Inv1
  <1> QED BY <1>4 DEF FreshOK

\* A retried request never meets a unique index, however many clients retry and
\* however often (create, create_block, create change).
THEOREM InsertsNeverCollideAlways == Spec => []InsertsNeverCollide
  <1>1. Init => FreshOK
    BY DEF Init, FreshOK, Fresh, BookLabels
  <1>2. Inv1 /\ FreshOK /\ [Next]_vars => FreshOK'
    BY FreshStep
  <1>3. FreshOK => InsertsNeverCollide
    BY DEF FreshOK, Fresh, InsertsNeverCollide, BookLabels
  <1> QED BY <1>1, <1>2, <1>3, Inv1Always, PTL DEF Spec

-----------------------------------------------------------------------------
(* One open question per stay. *)

\* The commit of a request closes the open one it replaces, and no answer opens
\* one.
LEMMA OnePendingStep ==
  ASSUME Inv1, [Next]_vars, OnePendingChange
  PROVE  OnePendingChange'
  <1>1. CASE UNCHANGED changes
    BY <1>1 DEF OnePendingChange
  <1>2. ASSUME NEW s \in Sessions, ProposeCommit(s) PROVE OnePendingChange'
    <2> DEFINE i == job[s].stay
    <2>1. PICK c \in ChangeIds :
            changes' = [k \in ChangeIds |->
              IF k = c THEN
                [status |-> "pending", stay |-> i, request |-> job[s].request,
                 dates |-> job[s].dates, price |-> job[s].price,
                 oldDates |-> stays[i].dates, oldPrice |-> stays[i].price]
              ELSE IF k \in PendingOf(i)
                THEN [changes[k] EXCEPT !.status = "expired"]
              ELSE changes[k]]
      BY <1>2 DEF ProposeCommit
    <2>2. changes'[c].stay = i
      BY <2>1
    <2>3. ASSUME NEW k \in ChangeIds, k # c, changes'[k].status = "pending"
          PROVE  changes'[k] = changes[k] /\ changes[k].stay # i
      <3>1. CASE k \in PendingOf(i)
        <4>1. changes[k] \in Change
          BY <3>1 DEF PendingOf, Inv1, TablesOK, NoChange
        <4>2. changes'[k] = [changes[k] EXCEPT !.status = "expired"]
          BY <2>1, <2>3, <3>1
        <4> QED BY <2>3, <4>1, <4>2 DEF Change
      <3>2. CASE k \notin PendingOf(i)
        BY <2>1, <2>3, <3>2 DEF PendingOf
      <3> QED BY <3>1, <3>2
    <2> HIDE DEF i
    <2> QED BY <2>2, <2>3 DEF OnePendingChange
  <1>3. ASSUME NEW s \in Sessions, DecideCommit(s) PROVE OnePendingChange'
    <2> DEFINE c == job[s].row
    <2>1. c \in ChangeIds /\ changes[c].status # "none"
      BY <1>3 DEF DecideCommit, Inv1, SessionsOK, RowsOK, Known, Refers,
         ChangeLabels
    <2>2. changes[c] \in Change
      BY <2>1 DEF Inv1, TablesOK, NoChange
    <2>3. PICK t \in {"accepted", "declined", "withdrawn"} :
            changes' = [changes EXCEPT ![c] = [changes[c] EXCEPT !.status = t]]
      BY <1>3 DEF DecideCommit, Deciding
    <2>4. changes'[c].status # "pending"
      BY <2>1, <2>2, <2>3 DEF Inv1, TablesOK, Change
    <2>5. \A k \in ChangeIds \ {c} : changes'[k] = changes[k]
      BY <2>3 DEF Inv1, TablesOK
    <2> HIDE DEF c
    <2> QED BY <2>4, <2>5 DEF OnePendingChange
  <1>4. ASSUME NEW s \in Sessions,
               \/ BookInsert(s) \/ CancelCommit(s) \/ BlockInsert(s)
               \/ Unblock(s) \/ EditCommit(s) \/ ResourceInsert(s)
        PROVE  UNCHANGED changes
    BY <1>4 DEF BookInsert, CancelCommit, BlockInsert, Unblock, EditCommit,
       ResourceInsert
  <1>5. (\E v \in Venues : ResourceDelete(v)) \/ NextDay => UNCHANGED changes
    BY DEF ResourceDelete, NextDay
  <1> QED BY <1>1, <1>2, <1>3, <1>4, <1>5, Commits DEF tables

\* A stay never has two date changes awaiting an answer, however many are
\* requested at the same time.
THEOREM OnePendingChangeAlways == Spec => []OnePendingChange
  <1>1. Init => OnePendingChange
    BY DEF Init, OnePendingChange, NoChange
  <1>2. Inv1 /\ OnePendingChange /\ [Next]_vars => OnePendingChange'
    BY OnePendingStep
  <1> QED BY <1>1, <1>2, Inv1Always, PTL DEF Spec
-----------------------------------------------------------------------------
(* Listings, stays and hourly resources. *)

\* What a session that holds a listing or a venue relies on until it commits: a
\* booking, on the listing it was accepted for; a new or edited listing, on the
\* stays it has and on the hours its venue is not sold by; an hourly resource,
\* on a venue without nightly inventory.
Settled(label, j) ==
  /\ label \in {"book_venue", "book_check", "book_insert"} =>
       Bookable(j.listing) /\ listing[j.listing].venue = j.venue
  /\ label = "edit_commit" \/ (label = "edit_venue" /\ j.op = "list") =>
       \A i \in StayIds :
         stays[i].status # "none" /\ stays[i].listing = j.listing
           => stays[i].venue = j.venue
  /\ label \in {"edit_check", "edit_commit"} /\ j.offer.enabled =>
       j.venue \notin hourly
  /\ label = "resource_insert" =>
       /\ \A l \in OnVenue(j.venue) : ~listing[l].enabled
       /\ \A i \in StayIds : stays[i].venue # j.venue

VenuesOK == /\ StaysOnListingVenue /\ ExclusiveInventory
            /\ \A s \in Sessions : Settled(pc[s], job[s])

-----------------------------------------------------------------------------
(* Which commits write what. *)

\* Listings are written by an edit, hourly resources by their creation.
LEMMA ListingWrites ==
  ASSUME [Next]_vars
  PROVE  /\ \/ UNCHANGED listing
            \/ \E s \in Sessions : EditCommit(s)
         /\ \/ hourly' \subseteq hourly
            \/ \E s \in Sessions :
                 ResourceInsert(s) /\ hourly' = hourly \cup {job[s].venue}
  <1>1. ASSUME NEW s \in Sessions,
               \/ BookInsert(s) \/ CancelCommit(s) \/ BlockInsert(s)
               \/ Unblock(s) \/ ProposeCommit(s) \/ DecideCommit(s)
        PROVE  UNCHANGED <<listing, hourly>>
    BY <1>1 DEF BookInsert, CancelCommit, BlockInsert, Unblock, ProposeCommit,
       DecideCommit
  <1>2. ASSUME NEW s \in Sessions, EditCommit(s) PROVE UNCHANGED hourly
    BY <1>2 DEF EditCommit
  <1>3. ASSUME NEW s \in Sessions, ResourceInsert(s)
        PROVE  UNCHANGED listing /\ hourly' = hourly \cup {job[s].venue}
    BY <1>3 DEF ResourceInsert
  <1>4. (\E v \in Venues : ResourceDelete(v)) \/ NextDay
          => UNCHANGED listing /\ hourly' \subseteq hourly
    BY DEF ResourceDelete, NextDay
  <1> QED BY <1>1, <1>2, <1>3, <1>4, Commits DEF tables

\* The effect of an edit.
LEMMA EditWrites ==
  ASSUME Inv1, NEW s \in Sessions, EditCommit(s)
  PROVE  /\ job[s].listing \in Listings /\ job[s].offer \in Offers
         /\ job[s].offer.venue = job[s].venue /\ pc[s] = "edit_commit"
         /\ listing'[job[s].listing] = job[s].offer
         /\ \A l \in Listings \ {job[s].listing} : listing'[l] = listing[l]
         /\ UNCHANGED <<stays, hourly>>
  BY DEF EditCommit, Inv1, SessionsOK, TablesOK, Known, EditLabels

\* A row that is not there refers to no venue and no listing.
LEMMA NoRowNowhere ==
  ASSUME TablesOK, NEW i \in StayIds
  PROVE  stays[i].status = "none" => stays[i] = NoStay
  BY DEF TablesOK, Stay

\* Two sessions never rely on the same listing, or the same venue, when one of
\* them is about to change it.
LEMMA Excluded ==
  ASSUME Inv1, NEW s \in Sessions, NEW t \in Sessions, s # t
  PROVE  /\ BookInsert(s) /\ pc[t] \in {"edit_venue", "edit_commit"}
              => job[s].listing # job[t].listing
         /\ BookInsert(s) /\ pc[t] = "resource_insert"
              => job[s].venue # job[t].venue
         /\ EditCommit(s) /\ pc[t] \in {"book_venue", "book_check", "book_insert"}
              => job[s].listing # job[t].listing
         /\ EditCommit(s) /\ job[s].offer.enabled /\ pc[t] = "resource_insert"
              => job[s].venue # job[t].venue
         /\ ResourceInsert(s) /\ pc[t] \in {"edit_check", "edit_commit"}
              /\ job[t].offer.enabled
              => job[s].venue # job[t].venue
  <1>0. /\ Known(pc[s], job[s]) /\ Owns(pc[s], job[s], held[s])
        /\ Known(pc[t], job[t]) /\ Owns(pc[t], job[t], held[t])
        /\ Compatible(s, held[s])
    BY DEF Inv1, SessionsOK
  <1>1. ASSUME held[s].listing = job[s].listing, job[s].listing \in Listings,
               held[t].listing = job[t].listing
        PROVE  job[s].listing # job[t].listing
    BY <1>0, <1>1, NoneAssumption DEF Compatible, ListingFree
  <1>2. ASSUME held[s].venue = job[s].venue, job[s].venue \in Venues,
               held[t].venue = job[t].venue
        PROVE  job[s].venue # job[t].venue
    BY <1>0, <1>2, NoneAssumption DEF Compatible, VenueFree
  <1>3. BookInsert(s) =>
          /\ held[s].listing = job[s].listing /\ job[s].listing \in Listings
          /\ held[s].venue = job[s].venue /\ job[s].venue \in Venues
    BY <1>0 DEF BookInsert, Known, Owns, BookLabels
  <1>4. EditCommit(s) =>
          /\ held[s].listing = job[s].listing /\ job[s].listing \in Listings
          /\ job[s].venue \in Venues
          /\ job[s].offer.enabled => held[s].venue = job[s].venue
    BY <1>0 DEF EditCommit, Known, Owns, EditLabels
  <1>5. ResourceInsert(s) =>
          held[s].venue = job[s].venue /\ job[s].venue \in Venues
    BY <1>0 DEF ResourceInsert, Known, Owns
  <1>6. /\ pc[t] \in {"edit_venue", "edit_commit", "book_venue", "book_check",
                      "book_insert"}
             => held[t].listing = job[t].listing
        /\ pc[t] = "resource_insert" => held[t].venue = job[t].venue
        /\ pc[t] \in {"edit_check", "edit_commit"} /\ job[t].offer.enabled
             => held[t].venue = job[t].venue
    BY <1>0 DEF Owns, EditLabels
  <1> QED BY <1>1, <1>2, <1>3, <1>4, <1>5, <1>6

-----------------------------------------------------------------------------
(* The two invariants. *)

\* A stay is booked on the apartment of its listing, and a listing with stays
\* does not move.
LEMMA StaysOnVenueStep ==
  ASSUME Inv1, Inv1', [Next]_vars, VenuesOK
  PROVE  StaysOnListingVenue'
  <1> SUFFICES ASSUME NEW i \in StayIds, stays'[i].status # "none"
               PROVE  /\ listing'[stays'[i].listing] # None
                      /\ listing'[stays'[i].listing].venue = stays'[i].venue
    BY DEF StaysOnListingVenue
  <1>0. stays'[i].listing \in Listings
    BY DEF Inv1, TablesOK, Stay, NoStay
  <1>1. ASSUME NEW s \in Sessions, BookInsert(s),
               stays'[i].listing = job[s].listing,
               stays'[i].venue = job[s].venue
        PROVE  /\ listing'[stays'[i].listing] # None
               /\ listing'[stays'[i].listing].venue = stays'[i].venue
    BY <1>1 DEF BookInsert, VenuesOK, Settled, Bookable
  <1>2. ASSUME stays[i].status # "none", stays'[i].listing = stays[i].listing,
               stays'[i].venue = stays[i].venue
        PROVE  /\ listing'[stays'[i].listing] # None
               /\ listing'[stays'[i].listing].venue = stays'[i].venue
    <2>1. /\ listing[stays[i].listing] # None
          /\ listing[stays[i].listing].venue = stays[i].venue
      BY <1>2 DEF VenuesOK, StaysOnListingVenue
    <2>2. CASE UNCHANGED listing
      BY <1>2, <2>1, <2>2
    <2>3. ASSUME NEW s \in Sessions, EditCommit(s)
          PROVE  /\ listing'[stays'[i].listing] # None
                 /\ listing'[stays'[i].listing].venue = stays'[i].venue
      <3>1. CASE stays[i].listing = job[s].listing
        <4>1. stays[i].venue = job[s].venue
          BY <1>2, <2>3, <3>1, EditWrites DEF VenuesOK, Settled
        <4>2. job[s].offer # None
          BY <2>3, EditWrites, NoneAssumption
        <4> QED BY <1>2, <2>3, <3>1, <4>1, <4>2, EditWrites
      <3>2. CASE stays[i].listing # job[s].listing
        BY <1>0, <1>2, <2>1, <2>3, <3>2, EditWrites
      <3> QED BY <3>1, <3>2
    <2> QED BY <2>2, <2>3, ListingWrites
  <1> QED BY <1>1, <1>2, StaysOrigin

\* Nothing is sold by the night where something is sold by the hour.
LEMMA ExclusiveStep ==
  ASSUME Inv1, Inv1', [Next]_vars, VenuesOK
  PROVE  ExclusiveInventory'
  <1> SUFFICES ASSUME NEW v \in hourly'
               PROVE  /\ \A l \in OnVenue(v)' : ~listing'[l].enabled
                      /\ \A i \in StayIds : stays'[i].venue # v
    BY DEF ExclusiveInventory
  <1>0. v \in Venues /\ v # None
    BY NoneAssumption DEF Inv1, TablesOK
  <1>1. ASSUME NEW s \in Sessions, ResourceInsert(s), v = job[s].venue
        PROVE  /\ \A l \in OnVenue(v)' : ~listing'[l].enabled
               /\ \A i \in StayIds : stays'[i].venue # v
    BY <1>1 DEF ResourceInsert, VenuesOK, Settled, OnVenue
  <1>2. ASSUME v \in hourly, NEW l \in OnVenue(v)' PROVE ~listing'[l].enabled
    <2>1. CASE UNCHANGED listing
      BY <1>2, <2>1 DEF VenuesOK, ExclusiveInventory, OnVenue
    <2>2. ASSUME NEW s \in Sessions, EditCommit(s) PROVE ~listing'[l].enabled
      <3>1. CASE l = job[s].listing
        BY <1>2, <2>2, <3>1, EditWrites DEF VenuesOK, Settled, OnVenue
      <3>2. CASE l # job[s].listing
        BY <1>2, <2>2, <3>2, EditWrites DEF VenuesOK, ExclusiveInventory,
           OnVenue
      <3> QED BY <3>1, <3>2
    <2> QED BY <2>1, <2>2, ListingWrites
  <1>3. ASSUME v \in hourly, NEW i \in StayIds PROVE stays'[i].venue # v
    <2>1. CASE stays'[i].status = "none"
      <3>1. stays'[i] = NoStay
        BY <2>1 DEF Inv1, TablesOK, Stay
      <3> QED BY <1>0, <3>1 DEF NoStay
    <2>2. CASE stays[i].status # "none" /\ stays'[i].venue = stays[i].venue
      BY <1>3, <2>2 DEF VenuesOK, ExclusiveInventory
    <2>3. ASSUME NEW s \in Sessions, BookInsert(s),
                 stays'[i].venue = job[s].venue
          PROVE  stays'[i].venue # v
      <3>1. /\ pc[s] = "book_insert" /\ job[s].listing \in Listings
            /\ Bookable(job[s].listing)
            /\ listing[job[s].listing].venue = job[s].venue
        BY <2>3 DEF BookInsert, Inv1, SessionsOK, Known, BookLabels, VenuesOK,
           Settled
      <3> QED BY <1>3, <2>3, <3>1 DEF VenuesOK, ExclusiveInventory, OnVenue,
                 Bookable
    <2> QED BY <2>1, <2>2, <2>3, StaysOrigin
  <1> QED BY <1>1, <1>2, <1>3, ListingWrites

-----------------------------------------------------------------------------
(* What the sessions rely on. *)

\* It stays so while others move.
LEMMA SettledKept ==
  ASSUME Inv1, Inv1', [Next]_vars, NEW t \in Sessions, Settled(pc[t], job[t]),
         \A s \in Sessions : BookInsert(s) \/ EditCommit(s) \/ ResourceInsert(s)
                               => s # t,
         pc'[t] = pc[t], job'[t] = job[t]
  PROVE  Settled(pc[t], job[t])'
  <1>0. /\ Known(pc[t], job[t]) /\ Known(pc'[t], job'[t])
    BY DEF Inv1, SessionsOK
  <1>1. ASSUME pc[t] \in {"book_venue", "book_check", "book_insert"}
        PROVE  (Bookable(job[t].listing)
                /\ listing[job[t].listing].venue = job[t].venue)'
    <2>1. job[t].listing \in Listings
      BY <1>0, <1>1 DEF Known, BookLabels
    <2>2. listing'[job[t].listing] = listing[job[t].listing]
      BY <1>1, <2>1, ListingWrites, EditWrites, Excluded
    <2> QED BY <1>1, <2>2 DEF Settled, Bookable
  <1>2. ASSUME pc[t] = "edit_commit" \/ (pc[t] = "edit_venue"
                                         /\ job[t].op = "list"),
               NEW i \in StayIds, stays'[i].status # "none",
               stays'[i].listing = job[t].listing
        PROVE  stays'[i].venue = job[t].venue
    BY <1>2, StaysOrigin, Excluded DEF Settled
  <1>3. ASSUME pc[t] \in {"edit_check", "edit_commit"}, job[t].offer.enabled
        PROVE  job[t].venue \notin hourly'
    BY <1>3, ListingWrites, Excluded DEF Settled
  <1>4. ASSUME pc[t] = "resource_insert"
        PROVE  (/\ \A l \in OnVenue(job[t].venue) : ~listing[l].enabled
                /\ \A i \in StayIds : stays[i].venue # job[t].venue)'
    <2>0. job[t].venue \in Venues /\ job[t].venue # None
      BY <1>0, <1>4, NoneAssumption DEF Known
    <2>1. ASSUME NEW l \in OnVenue(job[t].venue)' PROVE ~listing'[l].enabled
      <3>1. l \in Listings /\ listing'[l] # None
            /\ listing'[l].venue = job[t].venue
        BY <2>1 DEF OnVenue
      <3>2. CASE UNCHANGED listing
        BY <1>4, <3>1, <3>2 DEF Settled, OnVenue
      <3>3. ASSUME NEW s \in Sessions, EditCommit(s) PROVE ~listing'[l].enabled
        <4>1. CASE l = job[s].listing
          BY <1>4, <3>1, <3>3, <4>1, EditWrites, Excluded
        <4>2. CASE l # job[s].listing
          BY <1>4, <3>1, <3>3, <4>2, EditWrites DEF Settled, OnVenue
        <4> QED BY <4>1, <4>2
      <3> QED BY <3>2, <3>3, ListingWrites
    <2>2. ASSUME NEW i \in StayIds PROVE stays'[i].venue # job[t].venue
      <3>1. CASE stays'[i].status = "none"
        <4>1. stays'[i] = NoStay
          BY <3>1 DEF Inv1, TablesOK, Stay
        <4> QED BY <2>0, <4>1 DEF NoStay
      <3>2. CASE stays'[i].status # "none"
        BY <1>4, <3>2, StaysOrigin, Excluded DEF Settled
      <3> QED BY <3>1, <3>2
    <2>3. job'[t].venue = job[t].venue
      OBVIOUS
    <2> QED BY <2>1, <2>2, <2>3 DEF OnVenue
  <1> QED BY <1>1, <1>2, <1>3, <1>4 DEF Settled

\* A session that moves on has found out what it will rely on.
LEMMA SettledAhead ==
  ASSUME Inv1, VenuesOK, NEW s \in Sessions,
         Start(s) \/ Continue(s) \/ Abort(s)
  PROVE  Settled(pc[s], job[s])'
  <1>0. /\ job[s] \in Job /\ Settled(pc[s], job[s]) /\ Known(pc[s], job[s])
        /\ pc \in [Sessions -> Labels] /\ job \in [Sessions -> Job]
    BY DEF Inv1, SessionsOK, VenuesOK
  <1> DEFINE Relying == {"book_venue", "book_check", "book_insert",
                         "edit_venue", "edit_check", "edit_commit",
                         "resource_insert"}
  <1>1. CASE pc'[s] \notin Relying
    BY <1>1 DEF Settled
  <1>2. CASE Finish(s)
    BY <1>0, <1>1, <1>2 DEF Finish
  <1>3. ASSUME BookLockListing(s), ~Finish(s) PROVE Settled(pc[s], job[s])'
    <2>1. /\ pc'[s] = "book_venue" /\ Bookable(job[s].listing)
          /\ UNCHANGED listing
          /\ job' = [job EXCEPT ![s].venue = listing[job[s].listing].venue]
      BY <1>0, <1>3 DEF BookLockListing, Goto, tables
    <2>2. /\ job'[s].listing = job[s].listing
          /\ job'[s].venue = listing[job[s].listing].venue
      BY <1>0, <2>1 DEF Job
    <2> QED BY <2>1, <2>2 DEF Settled, Bookable
  <1>4. ASSUME BookLockVenue(s) \/ BookCheck(s), ~Finish(s)
        PROVE  Settled(pc[s], job[s])'
    <2>1. /\ pc[s] \in {"book_venue", "book_check"} /\ UNCHANGED listing
          /\ pc'[s] \in {"book_check", "book_insert"}
      BY <1>0, <1>4 DEF BookLockVenue, BookCheck, Goto, tables
    <2>2. job'[s].listing = job[s].listing /\ job'[s].venue = job[s].venue
      BY <1>0, <1>4 DEF BookLockVenue, BookCheck, Job
    <2> QED BY <1>0, <2>1, <2>2 DEF Settled, Bookable
  <1>5. ASSUME NEW l \in Listings, NEW o \in Offers, ListStart(s, l, o)
        PROVE  Settled(pc[s], job[s])'
    <2>1. /\ pc'[s] = (IF o.enabled THEN "edit_venue" ELSE "edit_commit")
          /\ job'[s].listing = l /\ job'[s].venue = o.venue
          /\ job'[s].offer = o /\ listing[l] = None
          /\ UNCHANGED <<listing, hourly, stays>>
      BY <1>0, <1>5 DEF ListStart, Goto, NoJob, tables
    <2>2. \A i \in StayIds : stays[i].status # "none" => stays[i].listing # l
      BY <2>1 DEF VenuesOK, StaysOnListingVenue
    <2> QED BY <2>1, <2>2 DEF Settled
  <1>6. ASSUME NEW u \in Users, NEW l \in Listings, NEW o \in Offers,
               EditLockListing(s, u, l, o)
        PROVE  Settled(pc[s], job[s])'
    <2>1. /\ pc'[s] = (IF o.enabled THEN "edit_venue" ELSE "edit_check")
          /\ job'[s].op = "edit" /\ job'[s].offer = o
      BY <1>0, <1>6 DEF EditLockListing, Goto, NoJob
    <2> QED BY <2>1 DEF Settled
  <1>7. ASSUME EditLockVenue(s), ~Finish(s) PROVE Settled(pc[s], job[s])'
    <2>1. /\ pc[s] = "edit_venue" /\ job'[s] = job[s]
          /\ job[s].venue \notin hourly /\ UNCHANGED <<listing, hourly, stays>>
          /\ pc'[s] = (IF job[s].op = "list" THEN "edit_commit"
                                             ELSE "edit_check")
      BY <1>0, <1>7 DEF EditLockVenue, Goto, tables
    <2> QED BY <1>0, <2>1 DEF Settled
  <1>8. ASSUME EditCheck(s), ~Finish(s) PROVE Settled(pc[s], job[s])'
    <2>1. /\ pc[s] = "edit_check" /\ pc'[s] = "edit_commit"
          /\ job'[s] = job[s] /\ UNCHANGED <<listing, hourly, stays>>
          /\ \/ listing[job[s].listing].venue = job[s].venue
             \/ \A i \in StayIds : stays[i].listing # job[s].listing
      BY <1>0, <1>8 DEF EditCheck, Goto, tables
    <2>2. ASSUME NEW i \in StayIds, stays[i].status # "none",
                 stays[i].listing = job[s].listing
          PROVE  stays[i].venue = job[s].venue
      BY <2>1, <2>2 DEF VenuesOK, StaysOnListingVenue
    <2> QED BY <1>0, <2>1, <2>2 DEF Settled
  <1>9. ASSUME NEW v \in Venues, ResourceLockVenue(s, v)
        PROVE  Settled(pc[s], job[s])'
    <2>1. /\ pc'[s] = "resource_insert" /\ job'[s].venue = v
          /\ UNCHANGED <<listing, stays>>
          /\ \A l \in OnVenue(v) : ~listing[l].enabled
          /\ \A i \in StayIds : stays[i].venue # v
      BY <1>0, <1>9 DEF ResourceLockVenue, Goto, NoJob, tables
    <2> QED BY <2>1 DEF Settled, OnVenue
  <1>10. ASSUME \/ StartBook(s) \/ StartBlock(s) \/ StartUnblock(s)
                \/ StartPropose(s) \/ StartDecide(s)
                \/ \E i \in StayIds : CancelLockStay(s, i)
         PROVE  Settled(pc[s], job[s])'
    <2>1. pc'[s] \in {"book_listing", "block_venue", "change_listing",
                      "cancel_commit"}
      BY <1>0, <1>10 DEF StartBook, StartBlock, StartUnblock, StartPropose,
         StartDecide, BookLockUser, CancelLockStay, BlockLockListing,
         ChangeLockUsers, Goto
    <2> QED BY <1>1, <2>1
  <1>11. ASSUME \/ BlockLockVenue(s) \/ BlockCheck(s) \/ ChangeLockListing(s)
                \/ ChangeLockVenue(s) \/ ProposeLockStay(s) \/ DecideLockStay(s)
                \/ ChangeCheck(s),
                ~Finish(s)
         PROVE  Settled(pc[s], job[s])'
    <2>1. pc'[s] \in {"block_check", "block_insert", "change_venue",
                      "change_stay", "change_check", "change_commit"}
      BY <1>0, <1>11 DEF BlockLockVenue, BlockCheck, ChangeLockListing,
         ChangeLockVenue, ProposeLockStay, DecideLockStay, ChangeCheck, Goto
    <2> QED BY <1>1, <2>1
  <1>12. ASSUME \/ BookInsert(s) \/ CancelCommit(s) \/ BlockInsert(s)
                \/ Unblock(s) \/ ProposeCommit(s) \/ DecideCommit(s)
                \/ EditCommit(s) \/ ResourceInsert(s) \/ Abort(s)
         PROVE  Finish(s)
    BY <1>12 DEF BookInsert, CancelCommit, BlockInsert, Unblock, ProposeCommit,
       DecideCommit, EditCommit, ResourceInsert, Abort
  <1>13. CASE Start(s)
    BY <1>5, <1>6, <1>9, <1>10, <1>13 DEF Start
  <1> QED BY <1>2, <1>3, <1>4, <1>7, <1>8, <1>11, <1>12, <1>13 DEF Continue

\* Every step keeps the two invariants and what the sessions rely on.
LEMMA VenuesStep ==
  ASSUME Inv1, Inv1', [Next]_vars, VenuesOK
  PROVE  VenuesOK'
  <1>1. ASSUME NEW s \in Sessions,
               BookInsert(s) \/ EditCommit(s) \/ ResourceInsert(s)
        PROVE  pc[s] # "idle" /\ pc'[s] = "idle"
    BY <1>1 DEF BookInsert, EditCommit, ResourceInsert, Finish, Inv1, SessionsOK
  <1>2. ASSUME NEW t \in Sessions, pc'[t] = pc[t], job'[t] = job[t]
        PROVE  Settled(pc[t], job[t])'
    BY <1>1, <1>2, SettledKept DEF VenuesOK
  <1>3. ASSUME NEW t \in Sessions, Start(t) \/ Continue(t) \/ Abort(t)
        PROVE  Settled(pc[t], job[t])'
    BY <1>3, SettledAhead
  <1>4. ASSUME NEW t \in Sessions PROVE Settled(pc[t], job[t])'
    BY <1>2, <1>3, OthersStay DEF Inv1
  <1> QED BY <1>4, StaysOnVenueStep, ExclusiveStep DEF VenuesOK

\* Stays, listings and hourly resources agree about the venues in every
\* reachable state.
LEMMA VenuesAlways == Spec => []VenuesOK
  <1>1. Init => VenuesOK
    BY DEF Init, VenuesOK, StaysOnListingVenue, ExclusiveInventory, Settled,
       NoStay
  <1>2. Inv1 /\ Inv1' /\ VenuesOK /\ [Next]_vars => VenuesOK'
    BY VenuesStep
  <1> QED BY <1>1, <1>2, Inv1Always, PTL DEF Spec

\* A confirmed or cancelled stay lies on the apartment its listing is of, however
\* owners move listings while guests book (update, create).
THEOREM StaysOnListingVenueAlways == Spec => []StaysOnListingVenue
  <1>1. VenuesOK => StaysOnListingVenue
    BY DEF VenuesOK
  <1> QED BY <1>1, VenuesAlways, PTL

\* No apartment is sold by the night and by the hour, however owners create
\* resources and switch online booking on at the same time.
THEOREM ExclusiveInventoryAlways == Spec => []ExclusiveInventory
  <1>1. VenuesOK => ExclusiveInventory
    BY DEF VenuesOK
  <1> QED BY <1>1, VenuesAlways, PTL

-----------------------------------------------------------------------------
(* No night twice. *)

\* Between its check and its commit, a session finds the calendar of the venue
\* it has locked as it was checked.
Cleared(label, j) ==
  /\ label \in {"book_insert", "block_insert"} =>
       ~Occupied(j.venue, j.dates, 0, None)
  /\ label = "change_commit" /\ j.op = "accept" =>
       ~Occupied(j.venue, j.dates, 0, j.stay)

Disjoint == NoDoubleBooking /\ StaysClearOfBlocks /\ BlocksDisjoint

CalendarOK == Disjoint /\ \A s \in Sessions : Cleared(pc[s], job[s])

\* Overlapping ranges are near each other for every gap, and in both orders.
LEMMA NearOverlap ==
  ASSUME NEW d \in Dates, NEW e \in Dates, Near(d, e, 0)
  PROVE  Near(e, d, 0) /\ \A g \in Nat : Near(d, e, g)
  BY DatesAssumption DEF Near

\* A calendar that is free with a gap is free without one.
LEMMA OccupiedGap ==
  ASSUME TablesOK, NEW v, NEW d \in Dates, NEW g \in Nat, NEW x,
         Occupied(v, d, 0, x)
  PROVE  Occupied(v, d, g, x)
  <1>1. ASSUME NEW i \in StayIds, stays[i].status = "confirmed"
        PROVE  stays[i].dates \in Dates
    BY <1>1 DEF TablesOK, Stay, NoStay
  <1> QED BY <1>1, NearOverlap DEF Occupied

\* What this step adds to the calendars lies on venue v.
AddsOnlyOn(v) ==
  /\ \A i \in StayIds : stays'[i].status = "confirmed" =>
       \/ stays'[i].venue = v
       \/ /\ stays[i].status = "confirmed" /\ stays[i].venue = stays'[i].venue
          /\ stays[i].dates = stays'[i].dates
  /\ \A b \in BlockIds : blocks'[b].status = "active" =>
       \/ blocks'[b].venue = v
       \/ /\ blocks[b].status = "active" /\ blocks[b].venue = blocks'[b].venue
          /\ blocks[b].dates = blocks'[b].dates

\* A commit on one venue leaves the calendar of every other venue as it was.
LEMMA OccupiedElsewhere ==
  ASSUME NEW v, AddsOnlyOn(v), NEW w, w # v, NEW d, NEW g, NEW x,
         ~Occupied(w, d, g, x)
  PROVE  ~Occupied(w, d, g, x)'
  BY DEF AddsOnlyOn, Occupied

\* Two sessions past their inventory locks are on different venues.
LEMMA VenuesApart ==
  ASSUME SessionsOK, NEW s \in Sessions, NEW t \in Sessions, s # t,
         pc[s] \in {"book_insert", "block_insert", "change_commit"},
         pc[t] \in {"book_insert", "block_insert", "change_commit"}
  PROVE  job[s].venue # job[t].venue
  <1>1. /\ held[s].venue = job[s].venue /\ job[s].venue \in Venues
        /\ held[t].venue = job[t].venue
    BY DEF SessionsOK, Owns, Known, BookLabels, BlockLabels, ChangeLabels
  <1>2. held[s].venue # None => VenueFree(s, held[s].venue)
    BY DEF SessionsOK, Compatible
  <1> QED BY <1>1, <1>2, NoneAssumption DEF VenueFree

\* What the other sessions have checked survives a commit on this venue: they
\* hold the locks of other venues.
LEMMA ClearedWhereWritten ==
  ASSUME SessionsOK, CalendarOK, NEW s \in Sessions, Finish(s),
         pc[s] \in {"book_insert", "block_insert", "change_commit"},
         AddsOnlyOn(job[s].venue), NEW t \in Sessions
  PROVE  Cleared(pc[t], job[t])'
  <1>1. CASE t = s
    BY <1>1 DEF Finish, SessionsOK, Cleared
  <1>2. CASE t # s
    <2>1. pc'[t] = pc[t] /\ job'[t] = job[t] /\ Cleared(pc[t], job[t])
      BY <1>2 DEF Finish, SessionsOK, CalendarOK
    <2>2. pc[t] \in {"book_insert", "block_insert", "change_commit"}
            => job[t].venue # job[s].venue
      BY <1>2, VenuesApart
    <2>3. CASE pc[t] \in {"book_insert", "block_insert"}
      <3>1. ~Occupied(job[t].venue, job[t].dates, 0, None)'
        BY <2>1, <2>2, <2>3, OccupiedElsewhere DEF Cleared
      <3> QED BY <2>1, <2>3, <3>1 DEF Cleared
    <2>4. CASE pc[t] = "change_commit" /\ job[t].op = "accept"
      <3>1. ~Occupied(job[t].venue, job[t].dates, 0, job[t].stay)'
        BY <2>1, <2>2, <2>4, OccupiedElsewhere DEF Cleared
      <3> QED BY <2>1, <2>4, <3>1 DEF Cleared
    <2> QED BY <2>1, <2>3, <2>4 DEF Cleared
  <1> QED BY <1>1, <1>2

\* A booking, an accepted change and a block keep the calendars disjoint,
\* because what they add was free a moment ago and is on their own venue.
LEMMA BookInsertCalendar ==
  ASSUME Inv1, Inv1', [Next]_vars, CalendarOK, NEW s \in Sessions, BookInsert(s)
  PROVE  CalendarOK'
  <1> DEFINE j == job[s]
  <1>1. PICK i \in StayIds :
          /\ stays[i].status = "none"
          /\ stays' = [stays EXCEPT ![i] =
               [status |-> "confirmed", listing |-> j.listing,
                venue |-> j.venue, user |-> j.user, request |-> j.request,
                dates |-> j.dates, price |-> j.price]]
    BY DEF BookInsert
  <1>2. /\ pc[s] = "book_insert" /\ Finish(s) /\ blocks' = blocks
        /\ ~Occupied(j.venue, j.dates, 0, None)
    BY DEF BookInsert, CalendarOK, Cleared
  <1>3. /\ stays'[i].status = "confirmed" /\ stays'[i].venue = j.venue
        /\ stays'[i].dates = j.dates
        /\ \A k \in StayIds \ {i} : stays'[k] = stays[k]
    BY <1>1 DEF Inv1, TablesOK
  <1>4. AddsOnlyOn(j.venue)
    BY <1>2, <1>3 DEF AddsOnlyOn
  <1>5. j.dates \in Dates
    BY <1>2 DEF Inv1, SessionsOK, Known, BookLabels
  <1>6. /\ \A k \in StayIds : stays[k].status = "confirmed" =>
             stays[k].dates \in Dates
        /\ \A b \in BlockIds : blocks[b].status = "active" =>
             blocks[b].dates \in Dates
    BY DEF Inv1, TablesOK, Stay, NoStay, Block, NoBlock
  <1>7. /\ \A k \in StayIds : stays[k].status = "confirmed" /\ stays[k].venue = j.venue
             => ~Near(stays[k].dates, j.dates, 0) /\ ~Near(j.dates, stays[k].dates, 0)
        /\ \A b \in BlockIds : blocks[b].status = "active" /\ blocks[b].venue = j.venue
             => ~Near(blocks[b].dates, j.dates, 0) /\ ~Near(j.dates, blocks[b].dates, 0)
    BY <1>2, <1>5, <1>6, NearOverlap, NoneAssumption DEF Occupied
  <1>8. NoDoubleBooking'
    BY <1>3, <1>7 DEF CalendarOK, Disjoint, NoDoubleBooking
  <1>9. StaysClearOfBlocks'
    BY <1>2, <1>3, <1>7 DEF CalendarOK, Disjoint, StaysClearOfBlocks
  <1>10. BlocksDisjoint'
    BY <1>2 DEF CalendarOK, Disjoint, BlocksDisjoint
  <1>11. \A t \in Sessions : Cleared(pc[t], job[t])'
    BY <1>2, <1>4, ClearedWhereWritten DEF Inv1
  <1> QED BY <1>8, <1>9, <1>10, <1>11 DEF CalendarOK, Disjoint

\* A new block keeps the calendar clear: its session checked the dates and has
\* held the venue since.
LEMMA BlockInsertCalendar ==
  ASSUME Inv1, Inv1', [Next]_vars, CalendarOK, NEW s \in Sessions, BlockInsert(s)
  PROVE  CalendarOK'
  <1> DEFINE j == job[s]
  <1>1. PICK b \in BlockIds :
          /\ blocks[b].status = "none"
          /\ blocks' = [blocks EXCEPT ![b] =
               [status |-> "active", venue |-> j.venue, request |-> j.request,
                dates |-> j.dates]]
    BY DEF BlockInsert
  <1>2. /\ pc[s] = "block_insert" /\ Finish(s) /\ stays' = stays
        /\ ~Occupied(j.venue, j.dates, 0, None)
    BY DEF BlockInsert, CalendarOK, Cleared
  <1>3. /\ blocks'[b].status = "active" /\ blocks'[b].venue = j.venue
        /\ blocks'[b].dates = j.dates
        /\ \A k \in BlockIds \ {b} : blocks'[k] = blocks[k]
    BY <1>1 DEF Inv1, TablesOK
  <1>4. AddsOnlyOn(j.venue)
    BY <1>2, <1>3 DEF AddsOnlyOn
  <1>5. j.dates \in Dates
    BY <1>2 DEF Inv1, SessionsOK, Known, BlockLabels
  <1>6. /\ \A k \in StayIds : stays[k].status = "confirmed" =>
             stays[k].dates \in Dates
        /\ \A a \in BlockIds : blocks[a].status = "active" =>
             blocks[a].dates \in Dates
    BY DEF Inv1, TablesOK, Stay, NoStay, Block, NoBlock
  <1>7. /\ \A k \in StayIds : stays[k].status = "confirmed" /\ stays[k].venue = j.venue
             => ~Near(stays[k].dates, j.dates, 0)
        /\ \A a \in BlockIds : blocks[a].status = "active" /\ blocks[a].venue = j.venue
             => ~Near(blocks[a].dates, j.dates, 0) /\ ~Near(j.dates, blocks[a].dates, 0)
    BY <1>2, <1>5, <1>6, NearOverlap, NoneAssumption DEF Occupied
  <1>8. NoDoubleBooking'
    BY <1>2 DEF CalendarOK, Disjoint, NoDoubleBooking
  <1>9. StaysClearOfBlocks'
    BY <1>2, <1>3, <1>7 DEF CalendarOK, Disjoint, StaysClearOfBlocks
  <1>10. BlocksDisjoint'
    BY <1>3, <1>7 DEF CalendarOK, Disjoint, BlocksDisjoint
  <1>11. \A t \in Sessions : Cleared(pc[t], job[t])'
    BY <1>2, <1>4, ClearedWhereWritten DEF Inv1
  <1> QED BY <1>8, <1>9, <1>10, <1>11 DEF CalendarOK, Disjoint

\* So do the dates an accepted change gives to a stay.
LEMMA AcceptCalendar ==
  ASSUME Inv1, Inv1', [Next]_vars, CalendarOK, NEW s \in Sessions,
         DecideCommit(s), job[s].op = "accept"
  PROVE  CalendarOK'
  <1> DEFINE j == job[s]
             i == j.stay
  <1>1. /\ pc[s] = "change_commit" /\ Finish(s) /\ blocks' = blocks
        /\ ~Occupied(j.venue, j.dates, 0, i)
        /\ stays' = [stays EXCEPT ![i] = [stays[i] EXCEPT !.dates = j.dates,
                                                          !.price = j.price]]
    BY DEF DecideCommit, CalendarOK, Cleared
  <1>2. /\ i \in StayIds /\ j.dates \in Dates /\ stays[i].status # "none"
        /\ stays[i].venue = j.venue
    BY <1>1 DEF Inv1, SessionsOK, RowsOK, Known, Refers, ChangeLabels
  <1>3. stays[i] \in Stay
    BY <1>2 DEF Inv1, TablesOK, NoStay
  <1>4. /\ stays'[i].status = stays[i].status /\ stays'[i].venue = j.venue
        /\ stays'[i].dates = j.dates
        /\ \A k \in StayIds \ {i} : stays'[k] = stays[k]
    BY <1>1, <1>2, <1>3 DEF Inv1, TablesOK, Stay
  <1>5. AddsOnlyOn(j.venue)
    BY <1>1, <1>4 DEF AddsOnlyOn
  <1>6. /\ \A k \in StayIds : stays[k].status = "confirmed" =>
             stays[k].dates \in Dates
        /\ \A b \in BlockIds : blocks[b].status = "active" =>
             blocks[b].dates \in Dates
    BY DEF Inv1, TablesOK, Stay, NoStay, Block, NoBlock
  <1>7. /\ \A k \in StayIds \ {i} :
             stays[k].status = "confirmed" /\ stays[k].venue = j.venue
             => ~Near(stays[k].dates, j.dates, 0) /\ ~Near(j.dates, stays[k].dates, 0)
        /\ \A b \in BlockIds : blocks[b].status = "active" /\ blocks[b].venue = j.venue
             => ~Near(j.dates, blocks[b].dates, 0)
    BY <1>1, <1>2, <1>6, NearOverlap DEF Occupied
  <1>8. NoDoubleBooking'
    BY <1>4, <1>7 DEF CalendarOK, Disjoint, NoDoubleBooking
  <1>9. StaysClearOfBlocks'
    BY <1>1, <1>4, <1>7 DEF CalendarOK, Disjoint, StaysClearOfBlocks
  <1>10. BlocksDisjoint'
    BY <1>1 DEF CalendarOK, Disjoint, BlocksDisjoint
  <1>11. \A t \in Sessions : Cleared(pc[t], job[t])'
    BY <1>1, <1>5, ClearedWhereWritten DEF Inv1
  <1> QED BY <1>8, <1>9, <1>10, <1>11 DEF CalendarOK, Disjoint

\* A step that adds nothing to any calendar.
OnlyFrees ==
  /\ \A i \in StayIds : stays'[i].status = "confirmed" =>
       /\ stays[i].status = "confirmed" /\ stays[i].venue = stays'[i].venue
       /\ stays[i].dates = stays'[i].dates
  /\ \A b \in BlockIds : blocks'[b].status = "active" =>
       /\ blocks[b].status = "active" /\ blocks[b].venue = blocks'[b].venue
       /\ blocks[b].dates = blocks'[b].dates

\* Freeing dates keeps the calendar clear.
LEMMA FreeingKeeps ==
  ASSUME OnlyFrees
  PROVE  /\ Disjoint => Disjoint'
         /\ \A label, j : Cleared(label, j) => Cleared(label, j)'
  <1>1. Disjoint => Disjoint'
    <2>1. NoDoubleBooking => NoDoubleBooking'
      BY DEF OnlyFrees, NoDoubleBooking
    <2>2. StaysClearOfBlocks => StaysClearOfBlocks'
      BY DEF OnlyFrees, StaysClearOfBlocks
    <2>3. BlocksDisjoint => BlocksDisjoint'
      BY DEF OnlyFrees, BlocksDisjoint
    <2> QED BY <2>1, <2>2, <2>3 DEF Disjoint
  <1>2. ASSUME NEW v, NEW d, NEW x, Occupied(v, d, 0, x)'
        PROVE  Occupied(v, d, 0, x)
    BY <1>2 DEF OnlyFrees, Occupied
  <1> QED BY <1>1, <1>2 DEF Cleared

\* The steps that are neither a booking, a block nor an accepted change.
Places(s) ==
  BookInsert(s) \/ BlockInsert(s) \/ (DecideCommit(s) /\ job[s].op = "accept")

\* Every other step leaves the calendar alone or frees dates.
LEMMA OtherStepsFree ==
  ASSUME Inv1, [Next]_vars, \A s \in Sessions : ~Places(s)
  PROVE  OnlyFrees
  <1>1. CASE UNCHANGED <<stays, blocks>>
    BY <1>1 DEF OnlyFrees
  <1>2. ASSUME NEW s \in Sessions, CancelCommit(s) PROVE OnlyFrees
    <2>1. job[s].stay \in StayIds /\ UNCHANGED blocks
          /\ stays' = [stays EXCEPT ![job[s].stay].status = "cancelled"]
      BY <1>2 DEF CancelCommit, Inv1, SessionsOK, Known
    <2>2. stays[job[s].stay] \in Stay
      BY <1>2, <2>1 DEF CancelCommit, Inv1, TablesOK, RowsOK, Refers, NoStay
    <2>3. /\ stays'[job[s].stay].status = "cancelled"
          /\ \A k \in StayIds \ {job[s].stay} : stays'[k] = stays[k]
      BY <2>1, <2>2 DEF Inv1, TablesOK, Stay
    <2> QED BY <2>1, <2>3 DEF OnlyFrees
  <1>3. ASSUME NEW s \in Sessions, Unblock(s), ~UNCHANGED blocks PROVE OnlyFrees
    <2>1. job[s].row \in BlockIds /\ UNCHANGED stays
          /\ blocks[job[s].row].status # "none"
          /\ blocks' = [blocks EXCEPT ![job[s].row].status = "removed"]
      BY <1>3 DEF Unblock, Inv1, SessionsOK, Known, BlockLabels
    <2>2. blocks[job[s].row] \in Block
      BY <2>1 DEF Inv1, TablesOK, NoBlock
    <2>3. /\ blocks'[job[s].row].status = "removed"
          /\ \A k \in BlockIds \ {job[s].row} : blocks'[k] = blocks[k]
      BY <2>1, <2>2 DEF Inv1, TablesOK, Block
    <2> QED BY <2>1, <2>3 DEF OnlyFrees
  <1>4. ASSUME NEW s \in Sessions,
               \/ ProposeCommit(s) \/ EditCommit(s) \/ ResourceInsert(s)
               \/ DecideCommit(s) /\ job[s].op # "accept"
               \/ Unblock(s) /\ UNCHANGED blocks
        PROVE  UNCHANGED <<stays, blocks>>
    BY <1>4 DEF ProposeCommit, EditCommit, ResourceInsert, DecideCommit, Unblock
  <1>5. (\E v \in Venues : ResourceDelete(v)) \/ NextDay
          => UNCHANGED <<stays, blocks>>
    BY DEF ResourceDelete, NextDay
  <1>6. CASE UNCHANGED tables
    BY <1>1, <1>6 DEF tables
  <1>7. ASSUME NEW s \in Sessions,
               \/ BookInsert(s) \/ CancelCommit(s) \/ BlockInsert(s)
               \/ Unblock(s) \/ ProposeCommit(s) \/ DecideCommit(s)
               \/ EditCommit(s) \/ ResourceInsert(s)
        PROVE  OnlyFrees
    <2>1. /\ ~BookInsert(s) /\ ~BlockInsert(s)
          /\ ~(DecideCommit(s) /\ job[s].op = "accept")
      BY DEF Places
    <2>2. CASE CancelCommit(s)
      BY <1>2, <2>2
    <2>3. CASE Unblock(s) /\ ~UNCHANGED blocks
      BY <1>3, <2>3
    <2>4. CASE \/ ProposeCommit(s) \/ EditCommit(s) \/ ResourceInsert(s)
               \/ DecideCommit(s) /\ job[s].op # "accept"
               \/ Unblock(s) /\ UNCHANGED blocks
      BY <1>1, <1>4, <2>4
    <2> QED BY <1>7, <2>1, <2>2, <2>3, <2>4
  <1>8. CASE (\E v \in Venues : ResourceDelete(v)) \/ NextDay
    BY <1>1, <1>5, <1>8
  <1> QED BY <1>6, <1>7, <1>8, Commits

\* A session comes to its commit through its check only.
LEMMA CheckedFirst ==
  ASSUME Inv1, NEW s \in Sessions, Start(s) \/ Continue(s) \/ Abort(s)
  PROVE  Cleared(pc'[s], job'[s])
  <1>0. /\ job[s] \in Job /\ Known(pc[s], job[s]) /\ TablesOK
    BY DEF Inv1, SessionsOK
  <1>1. CASE /\ pc'[s] \notin {"book_insert", "block_insert"}
             /\ pc'[s] = "change_commit" => job'[s].op # "accept"
    BY <1>1 DEF Cleared
  <1>2. CASE Finish(s)
    BY <1>1, <1>2 DEF Finish, Inv1, SessionsOK
  <1>3. ASSUME BookCheck(s) \/ BlockCheck(s) \/ ChangeCheck(s), ~Finish(s)
        PROVE  Cleared(pc'[s], job'[s])
    <2>1. job'[s] = job[s] /\ job[s].gap \in Nat /\ job[s].dates \in Dates
      BY <1>0, <1>3 DEF BookCheck, BlockCheck, ChangeCheck, Known, BookLabels,
         BlockLabels, Job
    <2>2. CASE BookCheck(s)
      <3>1. pc'[s] = "book_insert"
            /\ ~Occupied(job[s].venue, job[s].dates, job[s].gap, None)
        BY <1>3, <2>2 DEF BookCheck, Goto, Inv1, SessionsOK
      <3> QED BY <1>0, <2>1, <3>1, OccupiedGap DEF Cleared
    <2>3. CASE BlockCheck(s)
      <3>1. pc'[s] = "block_insert"
            /\ ~Occupied(job[s].venue, job[s].dates, 0, None)
        BY <1>3, <2>3 DEF BlockCheck, Goto, Inv1, SessionsOK
      <3> QED BY <2>1, <3>1 DEF Cleared
    <2>4. CASE ChangeCheck(s)
      <3>1. pc'[s] = "change_commit"
            /\ ~Occupied(job[s].venue, job[s].dates, job[s].gap, job[s].stay)
        BY <1>3, <2>4 DEF ChangeCheck, Goto, Inv1, SessionsOK
      <3> QED BY <1>0, <2>1, <3>1, OccupiedGap DEF Cleared
    <2> QED BY <1>3, <2>2, <2>3, <2>4
  <1>4. ASSUME Start(s) PROVE Cleared(pc'[s], job'[s])
    <2>1. pc'[s] \notin {"book_insert", "block_insert", "change_commit"}
      BY <1>4 DEF Start, StartBook, StartBlock, StartUnblock, StartPropose,
         StartDecide, BookLockUser, CancelLockStay, BlockLockListing,
         ChangeLockUsers, ListStart, EditLockListing, ResourceLockVenue,
         Goto, Inv1, SessionsOK
    <2> QED BY <1>1, <2>1
  <1>5. ASSUME DecideLockStay(s), ~Finish(s) PROVE Cleared(pc'[s], job'[s])
    <2>1. PICK g \in PreparationDays(job[s].venue) :
            job' = [job EXCEPT ![s] =
                      [job[s] EXCEPT !.gap = g,
                                     !.dates = changes[job[s].row].dates,
                                     !.price = changes[job[s].row].price]]
      BY <1>5 DEF DecideLockStay
    <2>2. job'[s].op = job[s].op
      BY <1>0, <2>1 DEF Job, Inv1, SessionsOK
    <2>3. pc'[s] = IF job[s].op = "accept" THEN "change_check"
                                           ELSE "change_commit"
      BY <1>5 DEF DecideLockStay, Goto, Inv1, SessionsOK
    <2> QED BY <1>1, <2>2, <2>3
  <1>6. ASSUME \/ BookLockListing(s) \/ BookLockVenue(s) \/ BlockLockVenue(s)
               \/ ChangeLockListing(s) \/ ChangeLockVenue(s)
               \/ ProposeLockStay(s) \/ EditLockVenue(s) \/ EditCheck(s),
               ~Finish(s)
        PROVE  Cleared(pc'[s], job'[s])
    <2>1. pc'[s] \notin {"book_insert", "block_insert", "change_commit"}
      BY <1>6 DEF BookLockListing, BookLockVenue, BlockLockVenue,
         ChangeLockListing, ChangeLockVenue, ProposeLockStay, EditLockVenue,
         EditCheck, Goto, Inv1, SessionsOK
    <2> QED BY <1>1, <2>1
  <1>7. ASSUME \/ BookInsert(s) \/ CancelCommit(s) \/ BlockInsert(s)
               \/ Unblock(s) \/ ProposeCommit(s) \/ DecideCommit(s)
               \/ EditCommit(s) \/ ResourceInsert(s) \/ Abort(s)
        PROVE  Finish(s)
    BY <1>7 DEF BookInsert, CancelCommit, BlockInsert, Unblock, ProposeCommit,
       DecideCommit, EditCommit, ResourceInsert, Abort
  <1> QED BY <1>2, <1>3, <1>4, <1>5, <1>6, <1>7 DEF Continue

\* Every step keeps the calendar clear and every check made on it valid.
LEMMA CalendarStep ==
  ASSUME Inv1, Inv1', [Next]_vars, CalendarOK
  PROVE  CalendarOK'
  <1>1. ASSUME NEW s \in Sessions, Places(s) PROVE CalendarOK'
    BY <1>1, BookInsertCalendar, BlockInsertCalendar, AcceptCalendar DEF Places
  <1>2. ASSUME \A s \in Sessions : ~Places(s) PROVE CalendarOK'
    <2>1. /\ Disjoint'
          /\ \A label, j : Cleared(label, j) => Cleared(label, j)'
      BY <1>2, OtherStepsFree, FreeingKeeps DEF CalendarOK
    <2>2. ASSUME NEW t \in Sessions PROVE Cleared(pc'[t], job'[t])
      <3>1. CASE pc'[t] = pc[t] /\ job'[t] = job[t]
        BY <3>1 DEF CalendarOK
      <3>2. CASE Start(t) \/ Continue(t) \/ Abort(t)
        BY <3>2, CheckedFirst
      <3> QED BY <3>1, <3>2, OthersStay DEF Inv1
    <2>3. ASSUME NEW t \in Sessions PROVE Cleared(pc[t], job[t])'
      <3>1. Cleared(pc'[t], job'[t])
        BY <2>2
      <3> DEFINE label == pc'[t]
                 j == job'[t]
      <3> QED BY <2>1, <3>1 DEF Cleared, Occupied
    <2> QED BY <2>1, <2>3 DEF CalendarOK
  <1> QED BY <1>1, <1>2

\* No night is sold twice, and none that its owner has closed, for any number
\* of guests, listings, stays and concurrent requests.
THEOREM CalendarAlways == Spec => []Disjoint
  <1>1. Init => CalendarOK
    BY NoneAssumption DEF Init, CalendarOK, Disjoint, NoDoubleBooking,
       StaysClearOfBlocks, BlocksDisjoint, Cleared, NoStay, NoBlock
  <1>2. Inv1 /\ Inv1' /\ CalendarOK /\ [Next]_vars => CalendarOK'
    BY CalendarStep
  <1>3. CalendarOK => Disjoint
    BY DEF CalendarOK
  <1> QED BY <1>1, <1>2, <1>3, Inv1Always, PTL DEF Spec

\* No two confirmed stays of an apartment share a night, for any number of
\* guests, listings and concurrent requests (create and decide).
THEOREM NoDoubleBookingAlways == Spec => []NoDoubleBooking
  <1>1. Disjoint => NoDoubleBooking
    BY DEF Disjoint
  <1> QED BY <1>1, CalendarAlways, PTL

\* No confirmed stay lies on dates that the owner has closed.
THEOREM StaysClearOfBlocksAlways == Spec => []StaysClearOfBlocks
  <1>1. Disjoint => StaysClearOfBlocks
    BY DEF Disjoint
  <1> QED BY <1>1, CalendarAlways, PTL

\* The active blocks of an apartment never overlap.
THEOREM BlocksDisjointAlways == Spec => []BlocksDisjoint
  <1>1. Disjoint => BlocksDisjoint
    BY DEF Disjoint
  <1> QED BY <1>1, CalendarAlways, PTL

-----------------------------------------------------------------------------
(* The abstract calendar. *)

StayEntry(i) == <<"stay", i>>
BlockEntry(b) == <<"block", b>>

\* A session that cancels or moves a stay has found it confirmed and holds it.
Standing(label, j) ==
  label \in {"cancel_commit", "change_check", "change_commit"} =>
    stays[j.stay].status = "confirmed"

StandingOK == \A s \in Sessions : Standing(pc[s], job[s])

-----------------------------------------------------------------------------
(* Stays keep their status while a session holds them. *)

\* Only its cancellation ends a confirmed stay.
LEMMA ConfirmedKept ==
  ASSUME Inv1, [Next]_vars, NEW i \in StayIds, stays[i].status = "confirmed",
         \A s \in Sessions : CancelCommit(s) => job[s].stay # i
  PROVE  stays'[i].status = "confirmed"
  <1>1. stays \in [StayIds -> Stay \cup {NoStay}]
    BY DEF Inv1, TablesOK
  <1>2. CASE UNCHANGED stays
    BY <1>2
  <1>3. ASSUME NEW k \in StayIds, NEW r, stays[k].status = "none",
               stays' = [stays EXCEPT ![k] = r]
        PROVE  stays'[i].status = "confirmed"
    BY <1>1, <1>3
  <1>4. ASSUME NEW s \in Sessions, CancelCommit(s), NEW r,
               stays' = [stays EXCEPT ![job[s].stay] = r]
        PROVE  stays'[i].status = "confirmed"
    BY <1>1, <1>4
  <1>5. ASSUME NEW k \in StayIds, stays[k] \in Stay, NEW d, NEW p,
               stays' = [stays EXCEPT ![k] =
                           [stays[k] EXCEPT !.dates = d, !.price = p]]
        PROVE  stays'[i].status = "confirmed"
    BY <1>1, <1>5 DEF Stay
  <1> QED BY <1>2, <1>3, <1>4, <1>5, StayWrites DEF Inv1

\* A session finds the stay confirmed when it takes the lock.
LEMMA StandingAhead ==
  ASSUME Inv1, StandingOK, NEW s \in Sessions,
         Start(s) \/ Continue(s) \/ Abort(s)
  PROVE  Standing(pc[s], job[s])'
  <1>0. /\ job[s] \in Job /\ Standing(pc[s], job[s])
        /\ pc \in [Sessions -> Labels] /\ job \in [Sessions -> Job]
    BY DEF Inv1, SessionsOK, StandingOK
  <1>1. CASE pc'[s] \notin {"cancel_commit", "change_check", "change_commit"}
    BY <1>1 DEF Standing
  <1>2. CASE Finish(s)
    BY <1>0, <1>1, <1>2 DEF Finish
  <1>3. ASSUME NEW i \in StayIds, CancelLockStay(s, i)
        PROVE  Standing(pc[s], job[s])'
    <2>1. job'[s].stay = i /\ UNCHANGED stays /\ stays[i].status = "confirmed"
      BY <1>0, <1>3 DEF CancelLockStay, NoJob, tables
    <2> QED BY <2>1 DEF Standing
  <1>4. ASSUME ProposeLockStay(s) \/ DecideLockStay(s), ~Finish(s)
        PROVE  Standing(pc[s], job[s])'
    <2>1. UNCHANGED stays /\ stays[job[s].stay].status = "confirmed"
      BY <1>4 DEF ProposeLockStay, DecideLockStay, Quotable, ChangeActive,
         StayActive, tables
    <2>2. job'[s].stay = job[s].stay
      BY <1>0, <1>4 DEF ProposeLockStay, DecideLockStay, Job
    <2> QED BY <2>1, <2>2 DEF Standing
  <1>5. ASSUME ChangeCheck(s), ~Finish(s) PROVE Standing(pc[s], job[s])'
    BY <1>0, <1>5 DEF ChangeCheck, Standing, tables
  <1>6. ASSUME \/ StartBook(s) \/ StartBlock(s) \/ StartUnblock(s)
               \/ StartPropose(s) \/ StartDecide(s)
               \/ \E l \in Listings, o \in Offers : ListStart(s, l, o)
               \/ \E u \in Users, l \in Listings, o \in Offers :
                    EditLockListing(s, u, l, o)
               \/ \E v \in Venues : ResourceLockVenue(s, v)
        PROVE  Standing(pc[s], job[s])'
    <2>1. pc'[s] \in {"book_listing", "block_venue", "change_listing",
                      "edit_venue", "edit_check", "edit_commit",
                      "resource_insert"}
      BY <1>0, <1>6 DEF StartBook, StartBlock, StartUnblock, StartPropose,
         StartDecide, BookLockUser, BlockLockListing, ChangeLockUsers,
         ListStart, EditLockListing, ResourceLockVenue, Goto
    <2> QED BY <1>1, <2>1
  <1>7. ASSUME \/ BookLockListing(s) \/ BookLockVenue(s) \/ BookCheck(s)
               \/ BlockLockVenue(s) \/ BlockCheck(s) \/ ChangeLockListing(s)
               \/ ChangeLockVenue(s) \/ EditLockVenue(s) \/ EditCheck(s),
               ~Finish(s)
        PROVE  Standing(pc[s], job[s])'
    <2>1. pc'[s] \notin {"cancel_commit", "change_check", "change_commit"}
      BY <1>0, <1>7 DEF BookLockListing, BookLockVenue, BookCheck,
         BlockLockVenue, BlockCheck, ChangeLockListing, ChangeLockVenue,
         EditLockVenue, EditCheck, Goto
    <2> QED BY <1>1, <2>1
  <1>8. ASSUME \/ BookInsert(s) \/ CancelCommit(s) \/ BlockInsert(s)
               \/ Unblock(s) \/ ProposeCommit(s) \/ DecideCommit(s)
               \/ EditCommit(s) \/ ResourceInsert(s) \/ Abort(s)
        PROVE  Finish(s)
    BY <1>8 DEF BookInsert, CancelCommit, BlockInsert, Unblock, ProposeCommit,
       DecideCommit, EditCommit, ResourceInsert, Abort
  <1> QED BY <1>2, <1>3, <1>4, <1>5, <1>6, <1>7, <1>8 DEF Start, Continue

\* No session cancels a stay that another one is about to move or cancel.
LEMMA StandingStep ==
  ASSUME Inv1, StandingOK, [Next]_vars
  PROVE  StandingOK'
  <1>1. ASSUME NEW t \in Sessions, pc'[t] = pc[t], job'[t] = job[t]
        PROVE  Standing(pc[t], job[t])'
    <2> SUFFICES ASSUME pc[t] \in {"cancel_commit", "change_check",
                                   "change_commit"}
                 PROVE  stays'[job[t].stay].status = "confirmed"
      BY <1>1 DEF Standing
    <2>1. /\ held[t].stay = job[t].stay /\ job[t].stay \in StayIds
          /\ stays[job[t].stay].status = "confirmed"
      BY DEF Inv1, SessionsOK, Owns, Known, ChangeLabels, StandingOK, Standing
    <2>2. ASSUME NEW s \in Sessions, CancelCommit(s)
          PROVE  job[s].stay # job[t].stay
      <3>1. s # t
        BY <1>1, <2>2 DEF CancelCommit, Finish, Inv1, SessionsOK
      <3>2. /\ held[s].stay = job[s].stay /\ job[s].stay \in StayIds
            /\ Compatible(s, held[s])
        BY <2>2 DEF CancelCommit, Inv1, SessionsOK, Owns, Known
      <3> QED BY <2>1, <3>1, <3>2, NoneAssumption DEF Compatible, StayFree
    <2> QED BY <2>1, <2>2, ConfirmedKept
  <1>2. ASSUME NEW t \in Sessions PROVE Standing(pc[t], job[t])'
    BY <1>1, StandingAhead, OthersStay DEF Inv1
  <1> QED BY <1>2 DEF StandingOK

-----------------------------------------------------------------------------
(* The tables read as a calendar. *)

\* The entries of the calendar are the rows of the two tables.
LEMMA EntriesAreRows ==
  /\ \A i \in StayIds :
       /\ StayEntry(i) \in StayEntries \cup BlockEntries
       /\ StayEntry(i) \in StayEntries
       /\ Calendar[StayEntry(i)] = EntryOf(stays[i], "confirmed")
       /\ Calendar'[StayEntry(i)] = EntryOf(stays'[i], "confirmed")
  /\ \A b \in BlockIds :
       /\ BlockEntry(b) \in StayEntries \cup BlockEntries
       /\ Calendar[BlockEntry(b)] = EntryOf(blocks[b], "active")
       /\ Calendar'[BlockEntry(b)] = EntryOf(blocks'[b], "active")
  /\ \A e \in StayEntries \cup BlockEntries :
       \/ \E i \in StayIds : e = StayEntry(i)
       \/ \E b \in BlockIds : e = BlockEntry(b)
  /\ \A i \in StayIds, b \in BlockIds : StayEntry(i) # BlockEntry(b)
  /\ \A i, k \in StayIds : StayEntry(i) = StayEntry(k) => i = k
  /\ \A a, b \in BlockIds : BlockEntry(a) = BlockEntry(b) => a = b
  <1>1. /\ \A i \in StayIds : StayEntry(i) \in StayEntries
        /\ \A b \in BlockIds : /\ BlockEntry(b) \in BlockEntries
                               /\ BlockEntry(b) \notin StayEntries
    BY DEF StayEntry, BlockEntry, StayEntries, BlockEntries
  <1>2. \A i : StayEntry(i)[2] = i /\ BlockEntry(i)[2] = i
    BY DEF StayEntry, BlockEntry
  <1>3. \A e \in StayEntries \cup BlockEntries :
          \/ \E i \in StayIds : e = StayEntry(i)
          \/ \E b \in BlockIds : e = BlockEntry(b)
    BY DEF StayEntry, BlockEntry, StayEntries, BlockEntries
  <1>4. \A i \in StayIds :
          /\ Calendar[StayEntry(i)] = EntryOf(stays[i], "confirmed")
          /\ Calendar'[StayEntry(i)] = EntryOf(stays'[i], "confirmed")
    BY <1>1, <1>2 DEF Calendar
  <1>5. \A b \in BlockIds :
          /\ Calendar[BlockEntry(b)] = EntryOf(blocks[b], "active")
          /\ Calendar'[BlockEntry(b)] = EntryOf(blocks'[b], "active")
    BY <1>1, <1>2 DEF Calendar
  <1> QED BY <1>1, <1>2, <1>3, <1>4, <1>5

\* A row is placed exactly while it is confirmed or active.
LEMMA RowsAsEntries ==
  ASSUME NEW row, NEW live, live # "none"
  PROVE  /\ row.status = "none" => EntryOf(row, live) = Abstract!Free
         /\ row.status = live =>
              EntryOf(row, live) =
                [state |-> "placed", venue |-> row.venue, dates |-> row.dates]
         /\ row.status \notin {"none", live} =>
              EntryOf(row, live) = Abstract!Gone
         /\ EntryOf(row, live).state = "placed" => row.status = live
  BY DEF EntryOf, Abstract!Free, Abstract!Gone

\* A step that touches one entry of the calendar.
LEMMA OneEntry ==
  ASSUME NEW e \in StayEntries \cup BlockEntries,
         \A f \in (StayEntries \cup BlockEntries) \ {e} :
           Calendar'[f] = Calendar[f]
  PROVE  Calendar' = [Calendar EXCEPT ![e] = Calendar'[e]]
  BY DEF Calendar

\* Dates that the check finds free are free on the calendar.
LEMMA FreeDates ==
  ASSUME Inv1, NEW v \in Venues, NEW d \in Dates, NEW x,
         NEW e \in StayEntries \cup BlockEntries,
         ~Occupied(v, d, 0, x), x \in StayIds => e = StayEntry(x)
  PROVE  Abstract!FreeFor(e, v, d)
  <1> SUFFICES ASSUME NEW f \in (StayEntries \cup BlockEntries) \ {e},
                      Calendar[f].state = "placed", Calendar[f].venue = v
               PROVE  ~Abstract!Shares(Calendar[f].dates, d)
    BY DEF Abstract!FreeFor
  <1>1. ASSUME NEW i \in StayIds, f = StayEntry(i)
        PROVE  ~Abstract!Shares(Calendar[f].dates, d)
    <2>1. Calendar[f] = EntryOf(stays[i], "confirmed")
      BY <1>1, EntriesAreRows
    <2>2. /\ stays[i].status = "confirmed" /\ stays[i].venue = v
          /\ Calendar[f].dates = stays[i].dates
      BY <2>1, RowsAsEntries
    <2>3. ~Near(stays[i].dates, d, 0)
      BY <1>1, <2>2 DEF Occupied
    <2>4. stays[i].dates \in Dates
      BY <2>2 DEF Inv1, TablesOK, Stay, NoStay
    <2> QED BY <2>2, <2>3, <2>4, DatesAssumption DEF Near, Abstract!Shares
  <1>2. ASSUME NEW b \in BlockIds, f = BlockEntry(b)
        PROVE  ~Abstract!Shares(Calendar[f].dates, d)
    <2>1. Calendar[f] = EntryOf(blocks[b], "active")
      BY <1>2, EntriesAreRows
    <2>2. /\ blocks[b].status = "active" /\ blocks[b].venue = v
          /\ Calendar[f].dates = blocks[b].dates
      BY <2>1, RowsAsEntries
    <2>3. ~Near(blocks[b].dates, d, 0)
      BY <2>2 DEF Occupied
    <2>4. blocks[b].dates \in Dates
      BY <2>2 DEF Inv1, TablesOK, Block, NoBlock
    <2> QED BY <2>2, <2>3, <2>4, DatesAssumption DEF Near, Abstract!Shares
  <1> QED BY <1>1, <1>2, EntriesAreRows

-----------------------------------------------------------------------------
(* Every commit is a step of the calendar. *)

\* A booking reserves the nights of its stay.
LEMMA BookingReserves ==
  ASSUME Inv1, CalendarOK, NEW s \in Sessions, BookInsert(s)
  PROVE  Abstract!Next
  <1> DEFINE j == job[s]
  <1>1. PICK i \in StayIds :
          /\ stays[i].status = "none"
          /\ stays' = [stays EXCEPT ![i] =
               [status |-> "confirmed", listing |-> j.listing,
                venue |-> j.venue, user |-> j.user, request |-> j.request,
                dates |-> j.dates, price |-> j.price]]
    BY DEF BookInsert
  <1>2. /\ UNCHANGED blocks /\ j.venue \in Venues /\ j.dates \in Dates
        /\ ~Occupied(j.venue, j.dates, 0, None)
    BY DEF BookInsert, CalendarOK, Cleared, Inv1, SessionsOK, Known, BookLabels
  <1>3. /\ stays'[i].status = "confirmed" /\ stays'[i].venue = j.venue
        /\ stays'[i].dates = j.dates
        /\ \A k \in StayIds \ {i} : stays'[k] = stays[k]
    BY <1>1 DEF Inv1, TablesOK
  <1> DEFINE e == StayEntry(i)
  <1>4. e \in StayEntries \cup BlockEntries
    BY EntriesAreRows
  <1>5. Calendar[e] = Abstract!Free
    BY <1>1, EntriesAreRows, RowsAsEntries
  <1>6. Calendar'[e] = [state |-> "placed", venue |-> j.venue, dates |-> j.dates]
    <2>1. Calendar'[e] = EntryOf(stays'[i], "confirmed")
      BY EntriesAreRows
    <2> QED BY <1>3, <2>1, RowsAsEntries
  <1>7. \A f \in (StayEntries \cup BlockEntries) \ {e} : Calendar'[f] = Calendar[f]
    BY <1>2, <1>3, EntriesAreRows
  <1>8. Abstract!FreeFor(e, j.venue, j.dates)
    <2>1. None \notin StayIds
      BY NoneAssumption
    <2> QED BY <1>2, <1>4, <2>1, FreeDates
  <1>9. Calendar' = [Calendar EXCEPT ![e] =
                       [state |-> "placed", venue |-> j.venue, dates |-> j.dates]]
    BY <1>4, <1>6, <1>7, OneEntry
  <1> HIDE DEF e, j
  <1> QED BY <1>2, <1>4, <1>5, <1>8, <1>9
          DEF Abstract!Next, Abstract!Reserve, Abstract!Place

\* A block reserves the nights its owner closes.
LEMMA BlockReserves ==
  ASSUME Inv1, CalendarOK, NEW s \in Sessions, BlockInsert(s)
  PROVE  Abstract!Next
  <1> DEFINE j == job[s]
  <1>1. PICK b \in BlockIds :
          /\ blocks[b].status = "none"
          /\ blocks' = [blocks EXCEPT ![b] =
               [status |-> "active", venue |-> j.venue, request |-> j.request,
                dates |-> j.dates]]
    BY DEF BlockInsert
  <1>2. /\ UNCHANGED stays /\ j.venue \in Venues /\ j.dates \in Dates
        /\ ~Occupied(j.venue, j.dates, 0, None)
    BY DEF BlockInsert, CalendarOK, Cleared, Inv1, SessionsOK, Known,
       BlockLabels
  <1>3. /\ blocks'[b].status = "active" /\ blocks'[b].venue = j.venue
        /\ blocks'[b].dates = j.dates
        /\ \A k \in BlockIds \ {b} : blocks'[k] = blocks[k]
    BY <1>1 DEF Inv1, TablesOK
  <1> DEFINE e == BlockEntry(b)
  <1>4. e \in StayEntries \cup BlockEntries
    BY EntriesAreRows
  <1>5. Calendar[e] = Abstract!Free
    BY <1>1, EntriesAreRows, RowsAsEntries
  <1>6. Calendar'[e] = [state |-> "placed", venue |-> j.venue, dates |-> j.dates]
    <2>1. Calendar'[e] = EntryOf(blocks'[b], "active")
      BY EntriesAreRows
    <2> QED BY <1>3, <2>1, RowsAsEntries
  <1>7. \A f \in (StayEntries \cup BlockEntries) \ {e} : Calendar'[f] = Calendar[f]
    BY <1>2, <1>3, EntriesAreRows
  <1>8. Abstract!FreeFor(e, j.venue, j.dates)
    <2>1. None \notin StayIds
      BY NoneAssumption
    <2> QED BY <1>2, <1>4, <2>1, FreeDates
  <1>9. Calendar' = [Calendar EXCEPT ![e] =
                       [state |-> "placed", venue |-> j.venue, dates |-> j.dates]]
    BY <1>4, <1>6, <1>7, OneEntry
  <1> HIDE DEF e, j
  <1> QED BY <1>2, <1>4, <1>5, <1>8, <1>9
          DEF Abstract!Next, Abstract!Reserve, Abstract!Place

\* An accepted change moves the stay on the calendar of its venue.
LEMMA AcceptMoves ==
  ASSUME Inv1, CalendarOK, StandingOK, NEW s \in Sessions, DecideCommit(s),
         job[s].op = "accept"
  PROVE  Abstract!Next
  <1> DEFINE j == job[s]
             i == j.stay
  <1>1. /\ pc[s] = "change_commit" /\ UNCHANGED blocks
        /\ ~Occupied(j.venue, j.dates, 0, i)
        /\ stays' = [stays EXCEPT ![i] = [stays[i] EXCEPT !.dates = j.dates,
                                                          !.price = j.price]]
    BY DEF DecideCommit, CalendarOK, Cleared
  <1>2. /\ i \in StayIds /\ j.dates \in Dates /\ j.venue \in Venues
        /\ stays[i].venue = j.venue /\ stays[i].status = "confirmed"
    BY <1>1 DEF Inv1, SessionsOK, RowsOK, Known, Refers, ChangeLabels,
       StandingOK, Standing
  <1>3. stays[i] \in Stay
    BY <1>2 DEF Inv1, TablesOK, NoStay
  <1>4. /\ stays'[i].status = "confirmed" /\ stays'[i].venue = j.venue
        /\ stays'[i].dates = j.dates
        /\ \A k \in StayIds \ {i} : stays'[k] = stays[k]
    BY <1>1, <1>2, <1>3 DEF Inv1, TablesOK, Stay
  <1> DEFINE e == StayEntry(i)
  <1>5. e \in StayEntries \cup BlockEntries /\ e \in StayEntries
    BY <1>2, EntriesAreRows
  <1>6. Calendar[e].state = "placed" /\ Calendar[e].venue = j.venue
    <2>1. Calendar[e] = EntryOf(stays[i], "confirmed")
      BY <1>2, EntriesAreRows
    <2> QED BY <1>2, <2>1, RowsAsEntries
  <1>7. Calendar'[e] = [state |-> "placed", venue |-> j.venue, dates |-> j.dates]
    <2>1. Calendar'[e] = EntryOf(stays'[i], "confirmed")
      BY <1>2, EntriesAreRows
    <2> QED BY <1>4, <2>1, RowsAsEntries
  <1>8. \A f \in (StayEntries \cup BlockEntries) \ {e} : Calendar'[f] = Calendar[f]
    BY <1>1, <1>2, <1>4, EntriesAreRows
  <1>9. Abstract!FreeFor(e, j.venue, j.dates)
    BY <1>1, <1>2, <1>5, FreeDates
  <1>10. Calendar' = [Calendar EXCEPT ![e] =
                       [state |-> "placed", venue |-> j.venue, dates |-> j.dates]]
    BY <1>5, <1>7, <1>8, OneEntry
  <1> HIDE DEF e, i, j
  <1> QED BY <1>2, <1>5, <1>6, <1>9, <1>10
          DEF Abstract!Next, Abstract!Move, Abstract!Place

\* A cancellation releases the nights of its stay.
LEMMA CancellationReleases ==
  ASSUME Inv1, StandingOK, NEW s \in Sessions, CancelCommit(s)
  PROVE  Abstract!Next
  <1> DEFINE i == job[s].stay
  <1>1. /\ i \in StayIds /\ stays[i].status = "confirmed" /\ UNCHANGED blocks
        /\ stays' = [stays EXCEPT ![i].status = "cancelled"]
    BY DEF CancelCommit, Inv1, SessionsOK, Known, StandingOK, Standing
  <1>2. stays[i] \in Stay
    BY <1>1 DEF Inv1, TablesOK, NoStay
  <1>3. /\ stays'[i].status = "cancelled"
        /\ \A k \in StayIds \ {i} : stays'[k] = stays[k]
    BY <1>1, <1>2 DEF Inv1, TablesOK, Stay
  <1> DEFINE e == StayEntry(i)
  <1>4. e \in StayEntries \cup BlockEntries
    BY <1>1, EntriesAreRows
  <1>5. Calendar[e].state = "placed"
    <2>1. Calendar[e] = EntryOf(stays[i], "confirmed")
      BY <1>1, EntriesAreRows
    <2> QED BY <1>1, <2>1, RowsAsEntries
  <1>6. Calendar'[e] = Abstract!Gone
    <2>1. Calendar'[e] = EntryOf(stays'[i], "confirmed")
      BY <1>1, EntriesAreRows
    <2> QED BY <1>3, <2>1, RowsAsEntries
  <1>7. \A f \in (StayEntries \cup BlockEntries) \ {e} : Calendar'[f] = Calendar[f]
    BY <1>1, <1>3, EntriesAreRows
  <1> HIDE DEF e
  <1>8. Calendar' = [Calendar EXCEPT ![e] = Abstract!Gone]
    BY <1>4, <1>6, <1>7, OneEntry
  <1> QED BY <1>4, <1>5, <1>8 DEF Abstract!Next, Abstract!Release

\* Removing a block releases its nights; removing it again changes nothing.
LEMMA RemovalReleases ==
  ASSUME Inv1, NEW s \in Sessions, Unblock(s), ~UNCHANGED blocks
  PROVE  Abstract!Next \/ UNCHANGED Calendar
  <1> DEFINE b == job[s].row
  <1>1. /\ b \in BlockIds /\ blocks[b].status # "none" /\ UNCHANGED stays
        /\ blocks' = [blocks EXCEPT ![b].status = "removed"]
    BY DEF Unblock, Inv1, SessionsOK, Known, BlockLabels
  <1>2. blocks[b] \in Block
    BY <1>1 DEF Inv1, TablesOK, NoBlock
  <1>3. /\ blocks'[b].status = "removed"
        /\ \A k \in BlockIds \ {b} : blocks'[k] = blocks[k]
    BY <1>1, <1>2 DEF Inv1, TablesOK, Block
  <1> DEFINE e == BlockEntry(b)
  <1>4. e \in StayEntries \cup BlockEntries
    BY <1>1, EntriesAreRows
  <1>5. Calendar'[e] = Abstract!Gone
    <2>1. Calendar'[e] = EntryOf(blocks'[b], "active")
      BY <1>1, EntriesAreRows
    <2> QED BY <1>3, <2>1, RowsAsEntries
  <1>6. \A f \in (StayEntries \cup BlockEntries) \ {e} : Calendar'[f] = Calendar[f]
    BY <1>1, <1>3, EntriesAreRows
  <1>7. Calendar[e] = EntryOf(blocks[b], "active")
    BY <1>1, EntriesAreRows
  <1>8. CASE blocks[b].status = "active"
    <2>1. Calendar[e].state = "placed"
      BY <1>7, <1>8, RowsAsEntries
    <2> HIDE DEF e
    <2>2. Calendar' = [Calendar EXCEPT ![e] = Abstract!Gone]
      BY <1>4, <1>5, <1>6, OneEntry
    <2> QED BY <1>4, <2>1, <2>2 DEF Abstract!Next, Abstract!Release
  <1>9. CASE blocks[b].status # "active"
    <2>1. Calendar[e] = Abstract!Gone
      BY <1>1, <1>7, <1>9, RowsAsEntries
    <2> HIDE DEF e
    <2>2. \A f \in StayEntries \cup BlockEntries : Calendar'[f] = Calendar[f]
      BY <1>5, <1>6, <2>1
    <2> QED BY <2>2 DEF Calendar
  <1> QED BY <1>8, <1>9

\* Every step of a handler is a step of the calendar or leaves it alone.
LEMMA StepImplements ==
  ASSUME Inv1, CalendarOK, StandingOK, [Next]_vars
  PROVE  Abstract!Next \/ UNCHANGED Calendar
  <1>1. CASE UNCHANGED <<stays, blocks>>
    BY <1>1 DEF Calendar
  <1>2. ASSUME NEW s \in Sessions,
               \/ ProposeCommit(s) \/ EditCommit(s) \/ ResourceInsert(s)
               \/ DecideCommit(s) /\ job[s].op # "accept"
               \/ Unblock(s) /\ UNCHANGED blocks
        PROVE  UNCHANGED <<stays, blocks>>
    BY <1>2 DEF ProposeCommit, EditCommit, ResourceInsert, DecideCommit, Unblock
  <1>3. (\E v \in Venues : ResourceDelete(v)) \/ NextDay
          => UNCHANGED <<stays, blocks>>
    BY DEF ResourceDelete, NextDay
  <1>4. UNCHANGED tables => UNCHANGED <<stays, blocks>>
    BY DEF tables
  <1>5. ASSUME NEW s \in Sessions,
               \/ BookInsert(s) \/ CancelCommit(s) \/ BlockInsert(s)
               \/ Unblock(s) \/ ProposeCommit(s) \/ DecideCommit(s)
               \/ EditCommit(s) \/ ResourceInsert(s)
        PROVE  Abstract!Next \/ UNCHANGED Calendar
    <2>1. CASE BookInsert(s)
      BY <2>1, BookingReserves
    <2>2. CASE BlockInsert(s)
      BY <2>2, BlockReserves
    <2>3. CASE DecideCommit(s) /\ job[s].op = "accept"
      BY <2>3, AcceptMoves
    <2>4. CASE CancelCommit(s)
      BY <2>4, CancellationReleases
    <2>5. CASE Unblock(s) /\ ~UNCHANGED blocks
      BY <2>5, RemovalReleases
    <2> QED BY <1>1, <1>2, <1>5, <2>1, <2>2, <2>3, <2>4, <2>5
  <1> QED BY <1>1, <1>3, <1>4, <1>5, Commits

\* The calendars of the apartments start empty.
LEMMA InitImplements == Init => Abstract!Init
  <1> SUFFICES ASSUME Init PROVE Abstract!Init
    OBVIOUS
  <1>1. \A e \in StayEntries \cup BlockEntries : Calendar[e] = Abstract!Free
    BY EntriesAreRows, RowsAsEntries DEF Init, NoStay, NoBlock
  <1>2. Calendar = [e \in StayEntries \cup BlockEntries |-> Calendar[e]]
    BY DEF Calendar
  <1> QED BY <1>1, <1>2 DEF Abstract!Init

\* The handlers of stays, date changes and blocks, interleaved in any way and
\* by any number of sessions, implement the atomic calendar.
THEOREM ImplementsCalendarAlways == Spec => ImplementsCalendar
  <1>1. Init => CalendarOK /\ StandingOK
    BY NoneAssumption DEF Init, CalendarOK, Disjoint, NoDoubleBooking,
       StaysClearOfBlocks, BlocksDisjoint, Cleared, NoStay, NoBlock,
       StandingOK, Standing
  <1>2. Inv1 /\ Inv1' /\ CalendarOK /\ StandingOK /\ [Next]_vars
          => CalendarOK' /\ StandingOK'
    BY CalendarStep, StandingStep
  <1>3. Inv1 /\ CalendarOK /\ StandingOK /\ [Next]_vars
          => [Abstract!Next]_Calendar
    BY StepImplements
  <1> QED BY <1>1, <1>2, <1>3, InitImplements, Inv1Always, PTL
          DEF Spec, ImplementsCalendar, Abstract!Spec

-----------------------------------------------------------------------------
(* The abstract calendar keeps its promise. *)

CalendarInv == Abstract!TypeOK /\ Abstract!NoSharedNight

\* Placing an entry where it meets no other keeps the calendar shared by none.
LEMMA PlaceKeeps ==
  ASSUME CalendarInv, NEW e \in StayEntries \cup BlockEntries,
         NEW v \in Venues, NEW d \in Dates, Abstract!Place(e, v, d)
  PROVE  CalendarInv'
  <1> DEFINE new == [state |-> "placed", venue |-> v, dates |-> d]
  <1>1. Calendar' = [Calendar EXCEPT ![e] = new]
    BY DEF Abstract!Place
  <1>2. new \in Abstract!Placed
    BY DEF Abstract!Placed
  <1>3. Abstract!TypeOK'
    BY <1>1, <1>2 DEF CalendarInv, Abstract!TypeOK
  <1>4. /\ Calendar'[e] = new
        /\ \A f \in (StayEntries \cup BlockEntries) \ {e} :
             Calendar'[f] = Calendar[f]
    BY <1>1 DEF CalendarInv, Abstract!TypeOK
  <1>5. \A f \in (StayEntries \cup BlockEntries) \ {e} :
          Calendar[f].state = "placed" /\ Calendar[f].venue = v
          => ~Abstract!Shares(Calendar[f].dates, d)
    BY DEF Abstract!Place, Abstract!FreeFor
  <1>6. Abstract!NoSharedNight'
    BY <1>4, <1>5 DEF CalendarInv, Abstract!NoSharedNight, Abstract!Shares
  <1> QED BY <1>3, <1>6 DEF CalendarInv

\* Every step of the abstract calendar does.
LEMMA AbstractStep ==
  CalendarInv /\ [Abstract!Next]_Calendar => CalendarInv'
  <1> SUFFICES ASSUME CalendarInv, [Abstract!Next]_Calendar PROVE CalendarInv'
    OBVIOUS
  <1>1. CASE UNCHANGED Calendar
    BY <1>1 DEF CalendarInv, Abstract!TypeOK, Abstract!NoSharedNight
  <1>2. ASSUME NEW e \in StayEntries \cup BlockEntries, NEW v \in Venues,
               NEW d \in Dates, Abstract!Reserve(e, v, d)
        PROVE  CalendarInv'
    BY <1>2, PlaceKeeps DEF Abstract!Reserve
  <1>3. ASSUME NEW e \in StayEntries \cup BlockEntries, NEW d \in Dates,
               Abstract!Move(e, d)
        PROVE  CalendarInv'
    <2>1. Calendar[e] \in Abstract!Placed
      BY <1>3 DEF Abstract!Move, CalendarInv, Abstract!TypeOK, Abstract!Free,
         Abstract!Gone
    <2>2. Calendar[e].venue \in Venues
      BY <2>1 DEF Abstract!Placed
    <2> QED BY <1>3, <2>2, PlaceKeeps DEF Abstract!Move
  <1>4. ASSUME NEW e \in StayEntries \cup BlockEntries, Abstract!Release(e)
        PROVE  CalendarInv'
    <2>1. Abstract!TypeOK'
      BY <1>4 DEF Abstract!Release, CalendarInv, Abstract!TypeOK
    <2>2. /\ Calendar'[e].state = "gone"
          /\ \A f \in (StayEntries \cup BlockEntries) \ {e} :
               Calendar'[f] = Calendar[f]
      BY <1>4 DEF Abstract!Release, CalendarInv, Abstract!TypeOK, Abstract!Gone
    <2>3. Abstract!NoSharedNight'
      BY <2>2 DEF CalendarInv, Abstract!NoSharedNight
    <2> QED BY <2>1, <2>3 DEF CalendarInv
  <1> QED BY <1>1, <1>2, <1>3, <1>4 DEF Abstract!Next

\* Whatever implements the abstract calendar never gives a night of an
\* apartment to two entries (stay_repository.py:45); the nightly handlers do.
THEOREM NoSharedNightAlways == Spec => []Abstract!NoSharedNight
  <1>1. Abstract!Init => CalendarInv
    BY DEF Abstract!Init, CalendarInv, Abstract!TypeOK, Abstract!NoSharedNight,
       Abstract!Free
  <1>2. CalendarInv => Abstract!NoSharedNight
    BY DEF CalendarInv
  <1> QED BY <1>1, <1>2, AbstractStep, ImplementsCalendarAlways, PTL
          DEF ImplementsCalendar, Abstract!Spec

-----------------------------------------------------------------------------
(* Cancelled stays. *)

\* Whoever cancels or moves a stay has it confirmed, in every reachable state.
LEMMA StandingAlways == Spec => []StandingOK
  <1>1. Init => StandingOK
    BY DEF Init, StandingOK, Standing
  <1>2. Inv1 /\ StandingOK /\ [Next]_vars => StandingOK'
    BY StandingStep
  <1> QED BY <1>1, <1>2, Inv1Always, PTL DEF Spec

\* A step writes a new row of stays, or one that is confirmed.
LEMMA CancelledKept ==
  ASSUME Inv1, StandingOK, [Next]_vars
  PROVE  CancelledStays
  <1> SUFFICES ASSUME NEW i \in StayIds, stays[i].status = "cancelled"
               PROVE  stays'[i] = stays[i]
    BY DEF CancelledStays
  <1>1. ASSUME NEW k \in StayIds, NEW r, stays[k].status # "cancelled",
               stays' = [stays EXCEPT ![k] = r]
        PROVE  stays'[i] = stays[i]
    BY <1>1 DEF Inv1, TablesOK
  <1>2. ASSUME NEW s \in Sessions, CancelCommit(s) \/ DecideCommit(s)
        PROVE  stays[job[s].stay].status # "cancelled"
    BY <1>2 DEF CancelCommit, DecideCommit, StandingOK, Standing
  <1> QED BY <1>1, <1>2, StayWrites DEF Inv1

\* A cancelled stay never changes again, whatever owners and guests ask for at
\* the same time (cancel, decide).
THEOREM CancelledIsFinalAlways == Spec => CancelledIsFinal
  <1>1. Inv1 /\ StandingOK /\ [Next]_vars => [CancelledStays]_vars
    BY CancelledKept
  <1> QED BY <1>1, Inv1Always, StandingAlways, PTL DEF Spec, CancelledIsFinal

-----------------------------------------------------------------------------
(* Agreed terms. *)

\* Between its check and its commit, an acceptance holds the stay and the
\* listing it has compared the request with.
Agreed(label, j) ==
  label \in {"change_check", "change_commit"} /\ j.op = "accept" =>
    /\ changes[j.row].status = "pending" /\ changes[j.row].stay = j.stay
    /\ changes[j.row].dates = j.dates /\ changes[j.row].price = j.price
    /\ changes[j.row].oldDates = stays[j.stay].dates
    /\ changes[j.row].oldPrice = stays[j.stay].price
    /\ Bookable(j.listing) /\ listing[j.listing].price = j.price

AgreedOK == \A s \in Sessions : Agreed(pc[s], job[s])

\* A change row is written only by a session that holds its stay.
LEMMA ChangeWrites ==
  ASSUME Inv1, [Next]_vars, NEW c \in ChangeIds, changes[c].status # "none"
  PROVE  \/ changes'[c] = changes[c]
         \/ \E s \in Sessions : /\ ProposeCommit(s) \/ DecideCommit(s)
                                /\ job[s].stay = changes[c].stay
  <1>1. CASE UNCHANGED changes
    BY <1>1
  <1>2. ASSUME NEW s \in Sessions, ProposeCommit(s)
        PROVE  changes'[c] = changes[c] \/ job[s].stay = changes[c].stay
    <2>1. PICK k \in ChangeIds :
            /\ changes[k].status = "none"
            /\ changes' = [m \in ChangeIds |->
              IF m = k THEN
                [status |-> "pending", stay |-> job[s].stay,
                 request |-> job[s].request, dates |-> job[s].dates,
                 price |-> job[s].price,
                 oldDates |-> stays[job[s].stay].dates,
                 oldPrice |-> stays[job[s].stay].price]
              ELSE IF m \in PendingOf(job[s].stay)
                THEN [changes[m] EXCEPT !.status = "expired"]
              ELSE changes[m]]
      BY <1>2 DEF ProposeCommit
    <2> QED BY <2>1 DEF PendingOf
  <1>3. ASSUME NEW s \in Sessions, DecideCommit(s)
        PROVE  changes'[c] = changes[c] \/ job[s].stay = changes[c].stay
    <2>1. job[s].row \in ChangeIds /\ changes[job[s].row].stay = job[s].stay
      BY <1>3 DEF DecideCommit, Inv1, SessionsOK, RowsOK, Known, Refers,
         ChangeLabels
    <2>2. PICK t : changes' = [changes EXCEPT ![job[s].row] =
                                 [changes[job[s].row] EXCEPT !.status = t]]
      BY <1>3 DEF DecideCommit
    <2> QED BY <2>1, <2>2 DEF Inv1, TablesOK
  <1>4. ASSUME NEW s \in Sessions,
               \/ BookInsert(s) \/ CancelCommit(s) \/ BlockInsert(s)
               \/ Unblock(s) \/ EditCommit(s) \/ ResourceInsert(s)
        PROVE  UNCHANGED changes
    BY <1>4 DEF BookInsert, CancelCommit, BlockInsert, Unblock, EditCommit,
       ResourceInsert
  <1>5. (\E v \in Venues : ResourceDelete(v)) \/ NextDay => UNCHANGED changes
    BY DEF ResourceDelete, NextDay
  <1> QED BY <1>1, <1>2, <1>3, <1>4, <1>5, Commits DEF tables

\* A stay is written only by a session that holds it.
LEMMA HeldStayWrites ==
  ASSUME Inv1, [Next]_vars, NEW i \in StayIds, stays[i].status # "none"
  PROVE  \/ stays'[i] = stays[i]
         \/ \E s \in Sessions : /\ CancelCommit(s) \/ DecideCommit(s)
                                /\ job[s].stay = i
  BY StayWrites DEF Inv1, TablesOK

\* Two sessions never hold the same stay or the same listing.
LEMMA HoldersApart ==
  ASSUME Inv1, NEW s \in Sessions, NEW t \in Sessions, s # t
  PROVE  /\ /\ pc[s] \in {"cancel_commit", "change_check", "change_commit"}
            /\ pc[t] \in {"cancel_commit", "change_check", "change_commit"}
            => job[s].stay # job[t].stay
         /\ /\ pc[s] = "edit_commit" /\ pc[t] \in {"change_check", "change_commit"}
            => job[s].listing # job[t].listing
  <1>0. /\ Known(pc[s], job[s]) /\ Owns(pc[s], job[s], held[s])
        /\ Owns(pc[t], job[t], held[t]) /\ Compatible(s, held[s])
    BY DEF Inv1, SessionsOK
  <1>1. ASSUME pc[s] \in {"cancel_commit", "change_check", "change_commit"},
               pc[t] \in {"cancel_commit", "change_check", "change_commit"}
        PROVE  job[s].stay # job[t].stay
    <2>1. job[s].stay \in StayIds /\ held[s].stay = job[s].stay
          /\ held[t].stay = job[t].stay
      BY <1>0, <1>1 DEF Known, Owns, ChangeLabels
    <2> QED BY <1>0, <2>1, NoneAssumption DEF Compatible, StayFree
  <1>2. ASSUME pc[s] = "edit_commit", pc[t] \in {"change_check", "change_commit"}
        PROVE  job[s].listing # job[t].listing
    <2>1. job[s].listing \in Listings /\ held[s].listing = job[s].listing
          /\ held[t].listing = job[t].listing
      BY <1>0, <1>2 DEF Known, Owns, EditLabels
    <2> QED BY <1>0, <2>1, NoneAssumption DEF Compatible, ListingFree
  <1> QED BY <1>1, <1>2

\* The terms stand while others move.
LEMMA AgreedKept ==
  ASSUME Inv1, [Next]_vars, NEW t \in Sessions, Agreed(pc[t], job[t]),
         pc'[t] = pc[t], job'[t] = job[t]
  PROVE  Agreed(pc[t], job[t])'
  <1> SUFFICES ASSUME pc[t] \in {"change_check", "change_commit"},
                      job[t].op = "accept"
               PROVE  Agreed(pc[t], job[t])'
    BY DEF Agreed
  <1> DEFINE i == job[t].stay
             c == job[t].row
             l == job[t].listing
  <1>1. /\ i \in StayIds /\ stays[i].status # "none" /\ l \in Listings
        /\ c \in ChangeIds /\ changes[c].status # "none" /\ changes[c].stay = i
    BY DEF Inv1, SessionsOK, RowsOK, Known, Refers, ChangeLabels, Deciding
  <1>2. ASSUME NEW s \in Sessions,
               \/ ProposeCommit(s) \/ DecideCommit(s) \/ CancelCommit(s)
        PROVE  job[s].stay # i
    <2>1. /\ pc[s] \in {"cancel_commit", "change_commit"}
          /\ pc[s] # "idle" /\ pc'[s] = "idle"
      BY <1>2 DEF ProposeCommit, DecideCommit, CancelCommit, Finish, Inv1,
         SessionsOK
    <2>2. s # t
      BY <2>1
    <2> QED BY <2>1, <2>2, HoldersApart
  <1>3. ASSUME NEW s \in Sessions, EditCommit(s) PROVE job[s].listing # l
    <2>1. pc[s] = "edit_commit"
      BY <1>3 DEF EditCommit
    <2> QED BY <2>1, HoldersApart
  <1>4. changes'[c] = changes[c]
    BY <1>1, <1>2, ChangeWrites
  <1>5. stays'[i] = stays[i]
    BY <1>1, <1>2, HeldStayWrites
  <1>6. listing'[l] = listing[l]
    BY <1>1, <1>3, ListingWrites, EditWrites
  <1> QED BY <1>4, <1>5, <1>6 DEF Agreed, Bookable

\* An acceptance has just compared them.
LEMMA AgreedAhead ==
  ASSUME Inv1, AgreedOK, NEW s \in Sessions, Start(s) \/ Continue(s) \/ Abort(s)
  PROVE  Agreed(pc[s], job[s])'
  <1>0. /\ job[s] \in Job /\ Agreed(pc[s], job[s]) /\ Known(pc[s], job[s])
        /\ Refers(pc[s], job[s])
        /\ pc \in [Sessions -> Labels] /\ job \in [Sessions -> Job]
    BY DEF Inv1, SessionsOK, RowsOK, AgreedOK
  <1>1. CASE pc'[s] \notin {"change_check", "change_commit"}
    BY <1>1 DEF Agreed
  <1>2. CASE Finish(s)
    BY <1>0, <1>1, <1>2 DEF Finish
  <1>3. ASSUME ProposeLockStay(s), ~Finish(s) PROVE Agreed(pc[s], job[s])'
    <2>1. job[s].op = "propose" /\ job'[s].op = job[s].op
      BY <1>0, <1>3 DEF ProposeLockStay, Job
    <2> QED BY <2>1 DEF Agreed
  <1>4. ASSUME DecideLockStay(s), ~Finish(s) PROVE Agreed(pc[s], job[s])'
    <2> DEFINE k == job[s]
    <2>1. PICK g \in PreparationDays(k.venue) :
            job' = [job EXCEPT ![s] =
                      [k EXCEPT !.gap = g, !.dates = changes[k.row].dates,
                                !.price = changes[k.row].price]]
      BY <1>4 DEF DecideLockStay
    <2>2. job'[s] = [k EXCEPT !.gap = g, !.dates = changes[k.row].dates,
                              !.price = changes[k.row].price]
      BY <1>0, <2>1
    <2>3. /\ job'[s].stay = k.stay /\ job'[s].row = k.row
          /\ job'[s].op = k.op /\ job'[s].listing = k.listing
          /\ job'[s].dates = changes[k.row].dates
          /\ job'[s].price = changes[k.row].price
      BY <1>0, <2>2 DEF Job
    <2>4. /\ UNCHANGED <<listing, stays, changes>>
          /\ changes[k.row].status = "pending" /\ changes[k.row].stay = k.stay
          /\ changes[k.row].oldDates = stays[k.stay].dates
          /\ changes[k.row].oldPrice = stays[k.stay].price
          /\ k.op = "accept" =>
               /\ Bookable(stays[k.stay].listing)
               /\ listing[stays[k.stay].listing].price = changes[k.row].price
          /\ pc[s] = "change_stay"
      BY <1>4 DEF DecideLockStay, ChangeActive, Quotable, tables
    <2>5. stays[k.stay].listing = k.listing
      BY <1>0, <2>4 DEF Refers, ChangeLabels
    <2> HIDE DEF k
    <2> QED BY <2>3, <2>4, <2>5 DEF Agreed, Bookable
  <1>5. ASSUME ChangeCheck(s), ~Finish(s) PROVE Agreed(pc[s], job[s])'
    <2>1. /\ pc[s] = "change_check" /\ job'[s] = job[s]
          /\ UNCHANGED <<listing, stays, changes>>
      BY <1>5 DEF ChangeCheck, tables
    <2> QED BY <1>0, <2>1 DEF Agreed, Bookable
  <1>6. ASSUME Start(s) PROVE Agreed(pc[s], job[s])'
    <2>1. pc'[s] \notin {"change_check", "change_commit"}
      BY <1>0, <1>6 DEF Start, StartBook, StartBlock, StartUnblock,
         StartPropose, StartDecide, BookLockUser, CancelLockStay,
         BlockLockListing, ChangeLockUsers, ListStart, EditLockListing,
         ResourceLockVenue, Goto
    <2> QED BY <1>1, <2>1
  <1>7. ASSUME \/ BookLockListing(s) \/ BookLockVenue(s) \/ BookCheck(s)
               \/ BlockLockVenue(s) \/ BlockCheck(s) \/ ChangeLockListing(s)
               \/ ChangeLockVenue(s) \/ EditLockVenue(s) \/ EditCheck(s),
               ~Finish(s)
        PROVE  Agreed(pc[s], job[s])'
    <2>1. pc'[s] \notin {"change_check", "change_commit"}
      BY <1>0, <1>7 DEF BookLockListing, BookLockVenue, BookCheck,
         BlockLockVenue, BlockCheck, ChangeLockListing, ChangeLockVenue,
         EditLockVenue, EditCheck, Goto
    <2> QED BY <1>1, <2>1
  <1>8. ASSUME \/ BookInsert(s) \/ CancelCommit(s) \/ BlockInsert(s)
               \/ Unblock(s) \/ ProposeCommit(s) \/ DecideCommit(s)
               \/ EditCommit(s) \/ ResourceInsert(s) \/ Abort(s)
        PROVE  Finish(s)
    BY <1>8 DEF BookInsert, CancelCommit, BlockInsert, Unblock, ProposeCommit,
       DecideCommit, EditCommit, ResourceInsert, Abort
  <1> QED BY <1>2, <1>3, <1>4, <1>5, <1>6, <1>7, <1>8 DEF Continue

\* Every step keeps the terms the acceptances have compared.
LEMMA AgreedStep ==
  ASSUME Inv1, AgreedOK, [Next]_vars
  PROVE  AgreedOK'
  <1>1. ASSUME NEW t \in Sessions PROVE Agreed(pc[t], job[t])'
    BY AgreedKept, AgreedAhead, OthersStay DEF Inv1, AgreedOK
  <1> QED BY <1>1 DEF AgreedOK

LEMMA AgreedAlways == Spec => []AgreedOK
  <1>1. Init => AgreedOK
    BY DEF Init, AgreedOK, Agreed
  <1>2. Inv1 /\ AgreedOK /\ [Next]_vars => AgreedOK'
    BY AgreedStep
  <1> QED BY <1>1, <1>2, Inv1Always, PTL DEF Spec

\* Only an acceptance changes the terms of a stay, and it writes what it has
\* compared.
LEMMA TermsAgreed ==
  ASSUME Inv1, AgreedOK, [Next]_vars
  PROVE  AgreedTerms
  <1> SUFFICES ASSUME NEW i \in StayIds, stays[i].status # "none",
                      \/ stays'[i].dates # stays[i].dates
                      \/ stays'[i].price # stays[i].price
               PROVE  /\ Bookable(stays[i].listing)
                      /\ stays'[i].price = listing[stays[i].listing].price
                      /\ \E c \in ChangeIds :
                           /\ changes[c].status = "pending"
                           /\ changes'[c].status = "accepted"
                           /\ changes[c].stay = i
                           /\ stays'[i].dates = changes[c].dates
                           /\ stays'[i].price = changes[c].price
                           /\ changes[c].oldDates = stays[i].dates
                           /\ changes[c].oldPrice = stays[i].price
    BY DEF AgreedTerms
  <1>0. stays \in [StayIds -> Stay \cup {NoStay}]
    BY DEF Inv1, TablesOK
  <1>1. ASSUME NEW s \in Sessions, job[s].stay \in StayIds,
               stays[job[s].stay] \in Stay
        PROVE  stays' # [stays EXCEPT ![job[s].stay] =
                           [stays[job[s].stay] EXCEPT !.status = "cancelled"]]
    <2>1. stays[job[s].stay].dates =
            [stays[job[s].stay] EXCEPT !.status = "cancelled"].dates
          /\ stays[job[s].stay].price =
            [stays[job[s].stay] EXCEPT !.status = "cancelled"].price
      BY <1>1 DEF Stay
    <2> QED BY <1>0, <1>1, <2>1
  <1>2. ASSUME NEW k \in StayIds, NEW r, stays[k].status = "none"
        PROVE  stays' # [stays EXCEPT ![k] = r]
    BY <1>0, <1>2
  <1>3. PICK s \in Sessions :
          /\ DecideCommit(s) /\ job[s].op = "accept"
          /\ job[s].stay \in StayIds /\ stays[job[s].stay] \in Stay
          /\ stays' = [stays EXCEPT ![job[s].stay] =
                         [stays[job[s].stay] EXCEPT !.dates = job[s].dates,
                                                    !.price = job[s].price]]
    BY <1>1, <1>2, StayWrites DEF Inv1
  <1> DEFINE c == job[s].row
             r == [stays[job[s].stay] EXCEPT !.dates = job[s].dates,
                                             !.price = job[s].price]
  <1>4. r.dates = job[s].dates /\ r.price = job[s].price
    BY <1>3 DEF Stay
  <1> HIDE DEF r
  <1>5. stays' = [stays EXCEPT ![job[s].stay] = r]
    BY <1>3 DEF r
  <1>6. i = job[s].stay
    BY <1>0, <1>3, <1>5
  <1>7. stays'[i].dates = job[s].dates /\ stays'[i].price = job[s].price
    BY <1>0, <1>4, <1>5, <1>6
  <1>8. /\ pc[s] = "change_commit" /\ c \in ChangeIds
        /\ stays[i].listing = job[s].listing
        /\ Agreed(pc[s], job[s]) /\ changes[c].status # "none"
    BY <1>3, <1>6 DEF DecideCommit, Inv1, SessionsOK, RowsOK, Known, Refers,
       ChangeLabels, AgreedOK, Deciding
  <1>9. changes[c] \in Change
    BY <1>8 DEF Inv1, TablesOK, NoChange
  <1>10. changes' = [changes EXCEPT ![c].status = "accepted"]
    BY <1>3 DEF DecideCommit
  <1>11. changes'[c].status = "accepted"
    BY <1>8, <1>9, <1>10 DEF Inv1, TablesOK, Change
  <1> HIDE DEF c
  <1>12. /\ changes[c].status = "pending" /\ changes[c].stay = i
         /\ changes[c].dates = job[s].dates /\ changes[c].price = job[s].price
         /\ changes[c].oldDates = stays[i].dates
         /\ changes[c].oldPrice = stays[i].price
         /\ Bookable(stays[i].listing)
         /\ listing[stays[i].listing].price = job[s].price
    BY <1>3, <1>6, <1>8 DEF Agreed, c
  <1> QED BY <1>7, <1>8, <1>11, <1>12

\* A stay changes its dates and price only by a request its owner accepts while
\* it is open, made for the stay as it is, at the listing's price (decide).
THEOREM AgreedTermsOnlyAlways == Spec => AgreedTermsOnly
  <1>1. Inv1 /\ AgreedOK /\ [Next]_vars => [AgreedTerms]_vars
    BY TermsAgreed
  <1> QED BY <1>1, Inv1Always, AgreedAlways, PTL DEF Spec, AgreedTermsOnly

-----------------------------------------------------------------------------
(* Preparation days. *)

\* A session that has read the preparation days of its venue and holds it knows
\* a gap that no listing there exceeds, and, once it has checked the calendar,
\* that its dates keep that gap.
Spaced(label, j) ==
  /\ \/ label \in {"book_check", "book_insert"}
     \/ label \in {"change_check", "change_commit"} /\ j.op = "accept"
     => \A l \in OnVenue(j.venue) :
          listing[l].short /\ listing[l].enabled => listing[l].gap <= j.gap
  /\ label = "book_insert" => ~Occupied(j.venue, j.dates, j.gap, None)
  /\ label = "change_commit" /\ j.op = "accept" =>
       ~Occupied(j.venue, j.dates, j.gap, j.stay)

SpacedOK == \A s \in Sessions : Spaced(pc[s], job[s])

\* What the three placing commits add lies on their own venue, which they hold.
LEMMA PlacesAdd ==
  ASSUME Inv1, NEW s \in Sessions, Places(s)
  PROVE  /\ AddsOnlyOn(job[s].venue) /\ pc[s] # "idle" /\ pc'[s] = "idle"
         /\ pc[s] \in {"book_insert", "block_insert", "change_commit"}
  <1>0. /\ Known(pc[s], job[s]) /\ Refers(pc[s], job[s])
        /\ stays \in [StayIds -> Stay \cup {NoStay}]
        /\ blocks \in [BlockIds -> Block \cup {NoBlock}]
        /\ pc \in [Sessions -> Labels]
    BY DEF Inv1, SessionsOK, TablesOK, RowsOK
  <1>1. ASSUME BookInsert(s) PROVE AddsOnlyOn(job[s].venue)
    <2>1. PICK i \in StayIds :
            stays' = [stays EXCEPT ![i] =
              [status |-> "confirmed", listing |-> job[s].listing,
               venue |-> job[s].venue, user |-> job[s].user,
               request |-> job[s].request, dates |-> job[s].dates,
               price |-> job[s].price]]
      BY <1>1 DEF BookInsert
    <2>2. stays'[i].venue = job[s].venue /\ UNCHANGED blocks
          /\ \A k \in StayIds \ {i} : stays'[k] = stays[k]
      BY <1>0, <1>1, <2>1 DEF BookInsert
    <2> QED BY <2>2 DEF AddsOnlyOn
  <1>2. ASSUME BlockInsert(s) PROVE AddsOnlyOn(job[s].venue)
    <2>1. PICK b \in BlockIds :
            blocks' = [blocks EXCEPT ![b] =
              [status |-> "active", venue |-> job[s].venue,
               request |-> job[s].request, dates |-> job[s].dates]]
      BY <1>2 DEF BlockInsert
    <2>2. blocks'[b].venue = job[s].venue /\ UNCHANGED stays
          /\ \A k \in BlockIds \ {b} : blocks'[k] = blocks[k]
      BY <1>0, <1>2, <2>1 DEF BlockInsert
    <2> QED BY <2>2 DEF AddsOnlyOn
  <1>3. ASSUME DecideCommit(s), job[s].op = "accept"
        PROVE  AddsOnlyOn(job[s].venue)
    <2> DEFINE i == job[s].stay
               r == [stays[i] EXCEPT !.dates = job[s].dates,
                                     !.price = job[s].price]
    <2>1. /\ i \in StayIds /\ stays[i].status # "none"
          /\ stays[i].venue = job[s].venue
          /\ stays' = [stays EXCEPT ![i] = r] /\ UNCHANGED blocks
      BY <1>0, <1>3 DEF DecideCommit, Known, Refers, ChangeLabels
    <2>2. stays[i] \in Stay
      BY <1>0, <2>1 DEF NoStay
    <2>3. r.venue = stays[i].venue
      BY <2>2 DEF Stay
    <2> HIDE DEF r
    <2>4. stays'[i].venue = job[s].venue
          /\ \A k \in StayIds \ {i} : stays'[k] = stays[k]
      BY <1>0, <2>1, <2>3
    <2> HIDE DEF i
    <2> QED BY <2>1, <2>4 DEF AddsOnlyOn
  <1>4. /\ pc[s] \in {"book_insert", "block_insert", "change_commit"}
        /\ Finish(s)
    BY DEF Places, BookInsert, BlockInsert, DecideCommit
  <1> QED BY <1>0, <1>1, <1>2, <1>3, <1>4 DEF Places, Finish

\* Freeing dates leaves free what was free, for every gap.
LEMMA FreedStaysFree ==
  ASSUME OnlyFrees, NEW v, NEW d, NEW g, NEW x, ~Occupied(v, d, g, x)
  PROVE  ~Occupied(v, d, g, x)'
  BY DEF OnlyFrees, Occupied

\* An edit that brings a gap to a venue holds the venue.
LEMMA GapsApart ==
  ASSUME Inv1, NEW s \in Sessions, NEW t \in Sessions, s # t,
         pc[s] = "edit_commit", job[s].offer.enabled,
         pc[t] \in {"book_check", "book_insert", "change_check", "change_commit"}
  PROVE  job[s].venue # job[t].venue
  <1>1. /\ held[s].venue = job[s].venue /\ job[s].venue \in Venues
        /\ held[t].venue = job[t].venue
    BY DEF Inv1, SessionsOK, Owns, Known, EditLabels
  <1>2. held[s].venue # None => VenueFree(s, held[s].venue)
    BY DEF Inv1, SessionsOK, Compatible
  <1> QED BY <1>1, <1>2, NoneAssumption DEF VenueFree

\* What a session knows of the gap and the calendar stands while others move.
LEMMA SpacedKept ==
  ASSUME Inv1, [Next]_vars, NEW t \in Sessions, Spaced(pc[t], job[t]),
         pc'[t] = pc[t], job'[t] = job[t]
  PROVE  Spaced(pc[t], job[t])'
  <1> DEFINE v == job[t].venue
             Reads == \/ pc[t] \in {"book_check", "book_insert"}
                      \/ /\ pc[t] \in {"change_check", "change_commit"}
                         /\ job[t].op = "accept"
  <1>1. ASSUME Reads, NEW l \in OnVenue(v)',
               listing'[l].short, listing'[l].enabled
        PROVE  listing'[l].gap <= job[t].gap
    <2>1. l \in Listings /\ listing'[l] # None /\ listing'[l].venue = v
      BY <1>1 DEF OnVenue
    <2>2. CASE listing'[l] = listing[l]
      BY <1>1, <2>1, <2>2 DEF Spaced, OnVenue
    <2>3. ASSUME NEW s \in Sessions, EditCommit(s), l = job[s].listing
          PROVE  FALSE
      <3>1. /\ pc[s] = "edit_commit" /\ job[s].offer.enabled
            /\ job[s].venue = v
        BY <1>1, <2>1, <2>3, EditWrites
      <3>2. s # t
        BY <1>1, <3>1
      <3> QED BY <1>1, <3>1, <3>2, GapsApart
    <2> QED BY <2>1, <2>2, <2>3, ListingWrites, EditWrites
  <1>2. ASSUME pc[t] \in {"book_insert", "change_commit"},
               NEW w, w = v, NEW d, NEW g, NEW x, ~Occupied(w, d, g, x)
        PROVE  ~Occupied(w, d, g, x)'
    <2>1. ASSUME NEW s \in Sessions, Places(s)
          PROVE  AddsOnlyOn(job[s].venue) /\ job[s].venue # w
      <3>1. /\ AddsOnlyOn(job[s].venue) /\ s # t
            /\ pc[s] \in {"book_insert", "block_insert", "change_commit"}
        BY <2>1, PlacesAdd
      <3> QED BY <1>2, <3>1, VenuesApart DEF Inv1
    <2>2. CASE \A s \in Sessions : ~Places(s)
      BY <1>2, <2>2, OtherStepsFree, FreedStaysFree
    <2>3. CASE \E s \in Sessions : Places(s)
      BY <1>2, <2>1, <2>3, OccupiedElsewhere
    <2> QED BY <2>2, <2>3
  <1>3. pc[t] = "book_insert" => ~Occupied(v, job[t].dates, job[t].gap, None)'
    BY <1>2 DEF Spaced
  <1>4. pc[t] = "change_commit" /\ job[t].op = "accept"
          => ~Occupied(v, job[t].dates, job[t].gap, job[t].stay)'
    BY <1>2 DEF Spaced
  <1>5. Reads => \A l \in OnVenue(v)' : listing'[l].short /\ listing'[l].enabled
                                         => listing'[l].gap <= job[t].gap
    BY <1>1
  <1> QED BY <1>3, <1>4, <1>5 DEF Spaced, OnVenue, Occupied

\* A gap that was read is the longest of the venue.
LEMMA LongestGap ==
  ASSUME TablesOK, NEW v, NEW g \in PreparationDays(v), NEW l \in OnVenue(v),
         listing[l].short, listing[l].enabled
  PROVE  listing[l].gap <= g
  BY DEF PreparationDays

\* A session that moves on has just read the gap, or checked the calendar with
\* it.
LEMMA SpacedAhead ==
  ASSUME Inv1, SpacedOK, NEW s \in Sessions, Start(s) \/ Continue(s) \/ Abort(s)
  PROVE  Spaced(pc[s], job[s])'
  <1>0. /\ job[s] \in Job /\ Spaced(pc[s], job[s]) /\ TablesOK
        /\ pc \in [Sessions -> Labels] /\ job \in [Sessions -> Job]
    BY DEF Inv1, SessionsOK, SpacedOK
  <1>1. CASE pc'[s] \notin {"book_check", "book_insert", "change_check",
                            "change_commit"}
    BY <1>1 DEF Spaced
  <1>2. CASE Finish(s)
    BY <1>0, <1>1, <1>2 DEF Finish
  <1>3. ASSUME BookLockVenue(s), ~Finish(s) PROVE Spaced(pc[s], job[s])'
    <2>1. PICK g \in PreparationDays(job[s].venue) :
            job' = [job EXCEPT ![s].gap = g]
      BY <1>3 DEF BookLockVenue
    <2>2. pc'[s] = "book_check" /\ UNCHANGED listing
      BY <1>0, <1>3 DEF BookLockVenue, Goto, tables
    <2>3. job'[s].gap = g /\ job'[s].venue = job[s].venue
      BY <1>0, <2>1 DEF Job
    <2> QED BY <1>0, <2>2, <2>3, LongestGap DEF Spaced, OnVenue
  <1>4. ASSUME ProposeLockStay(s), ~Finish(s) PROVE Spaced(pc[s], job[s])'
    <2>1. job'[s].op = "propose" /\ pc'[s] = "change_check"
      BY <1>0, <1>4 DEF ProposeLockStay, Job, Goto
    <2> QED BY <2>1 DEF Spaced
  <1>5. ASSUME DecideLockStay(s), ~Finish(s) PROVE Spaced(pc[s], job[s])'
    <2> DEFINE k == job[s]
    <2>1. PICK g \in PreparationDays(k.venue) :
            job' = [job EXCEPT ![s] =
                      [k EXCEPT !.gap = g, !.dates = changes[k.row].dates,
                                !.price = changes[k.row].price]]
      BY <1>5 DEF DecideLockStay
    <2>2. job'[s] = [k EXCEPT !.gap = g, !.dates = changes[k.row].dates,
                              !.price = changes[k.row].price]
      BY <1>0, <2>1
    <2>3. /\ job'[s].gap = g /\ job'[s].op = k.op
          /\ job'[s].venue = k.venue
      BY <1>0, <2>2 DEF Job
    <2>4. /\ UNCHANGED listing
          /\ pc'[s] = (IF k.op = "accept" THEN "change_check"
                                          ELSE "change_commit")
      BY <1>0, <1>5 DEF DecideLockStay, Goto, tables
    <2> HIDE DEF k
    <2> QED BY <1>0, <2>3, <2>4, LongestGap DEF Spaced, OnVenue
  <1>6. ASSUME BookCheck(s), ~Finish(s) PROVE Spaced(pc[s], job[s])'
    <2>1. /\ pc[s] = "book_check" /\ pc'[s] = "book_insert"
          /\ job'[s] = job[s] /\ UNCHANGED <<listing, stays, blocks>>
          /\ ~Occupied(job[s].venue, job[s].dates, job[s].gap, None)
      BY <1>0, <1>6 DEF BookCheck, Goto, tables
    <2> QED BY <1>0, <2>1 DEF Spaced, OnVenue, Occupied
  <1>7. ASSUME ChangeCheck(s), ~Finish(s) PROVE Spaced(pc[s], job[s])'
    <2>1. /\ pc[s] = "change_check" /\ pc'[s] = "change_commit"
          /\ job'[s] = job[s] /\ UNCHANGED <<listing, stays, blocks>>
          /\ ~Occupied(job[s].venue, job[s].dates, job[s].gap, job[s].stay)
      BY <1>0, <1>7 DEF ChangeCheck, Goto, tables
    <2> QED BY <1>0, <2>1 DEF Spaced, OnVenue, Occupied
  <1>8. ASSUME Start(s) PROVE Spaced(pc[s], job[s])'
    <2>1. pc'[s] \notin {"book_check", "book_insert", "change_check",
                         "change_commit"}
      BY <1>0, <1>8 DEF Start, StartBook, StartBlock, StartUnblock,
         StartPropose, StartDecide, BookLockUser, CancelLockStay,
         BlockLockListing, ChangeLockUsers, ListStart, EditLockListing,
         ResourceLockVenue, Goto
    <2> QED BY <1>1, <2>1
  <1>9. ASSUME \/ BookLockListing(s) \/ BlockLockVenue(s) \/ BlockCheck(s)
               \/ ChangeLockListing(s) \/ ChangeLockVenue(s)
               \/ EditLockVenue(s) \/ EditCheck(s),
               ~Finish(s)
        PROVE  Spaced(pc[s], job[s])'
    <2>1. pc'[s] \notin {"book_check", "book_insert", "change_check",
                         "change_commit"}
      BY <1>0, <1>9 DEF BookLockListing, BlockLockVenue, BlockCheck,
         ChangeLockListing, ChangeLockVenue, EditLockVenue, EditCheck, Goto
    <2> QED BY <1>1, <2>1
  <1>10. ASSUME \/ BookInsert(s) \/ CancelCommit(s) \/ BlockInsert(s)
                \/ Unblock(s) \/ ProposeCommit(s) \/ DecideCommit(s)
                \/ EditCommit(s) \/ ResourceInsert(s) \/ Abort(s)
         PROVE  Finish(s)
    BY <1>10 DEF BookInsert, CancelCommit, BlockInsert, Unblock, ProposeCommit,
       DecideCommit, EditCommit, ResourceInsert, Abort
  <1> QED BY <1>2, <1>3, <1>4, <1>5, <1>6, <1>7, <1>8, <1>9, <1>10 DEF Continue

LEMMA SpacedAlways == Spec => []SpacedOK
  <1>1. Init => SpacedOK
    BY DEF Init, SpacedOK, Spaced
  <1>2. ASSUME Inv1, SpacedOK, [Next]_vars PROVE SpacedOK'
    <2>1. ASSUME NEW t \in Sessions PROVE Spaced(pc[t], job[t])'
      BY <1>2, SpacedKept, SpacedAhead, OthersStay DEF Inv1, SpacedOK
    <2> QED BY <2>1 DEF SpacedOK
  <1> QED BY <1>1, <1>2, Inv1Always, PTL DEF Spec

\* Dates that keep the longer gap keep the shorter.
LEMMA NearShorter ==
  ASSUME NEW d \in Dates, NEW e \in Dates, NEW g \in Nat, NEW h \in Nat,
         h <= g, ~Near(d, e, g)
  PROVE  ~Near(d, e, h)
  BY DatesAssumption DEF Near

\* The dates of a commit keep the gap of the venue from the other stays.
LEMMA GapStep ==
  ASSUME Inv1, Inv1', SpacedOK, [Next]_vars
  PROVE  GapKept
  <1> SUFFICES ASSUME NEW i \in StayIds, NEW k \in StayIds, i # k,
                      stays'[i].venue = stays'[k].venue,
                      stays'[i].status = "confirmed",
                      stays'[i].dates # stays[i].dates,
                      stays'[k].status = "confirmed",
                      NEW gap \in PreparationDays(stays'[i].venue)
               PROVE  ~Near(stays'[k].dates, stays'[i].dates, gap)
    BY DEF GapKept
  <1>0. /\ stays \in [StayIds -> Stay \cup {NoStay}]
        /\ stays'[i] \in Stay /\ stays'[k] \in Stay
    BY DEF Inv1, TablesOK, NoStay
  <1>1. ASSUME NEW s \in Sessions, NEW x,
               ~Occupied(job[s].venue, job[s].dates, job[s].gap, x),
               x # k, stays'[k] = stays[k], stays'[i].venue = job[s].venue,
               stays'[i].dates = job[s].dates,
               \A l \in OnVenue(job[s].venue) :
                 listing[l].short /\ listing[l].enabled
                   => listing[l].gap <= job[s].gap
        PROVE  ~Near(stays'[k].dates, stays'[i].dates, gap)
    <2>1. job[s].gap \in Nat /\ gap \in Nat /\ gap <= job[s].gap
      <3>1. job[s].gap \in Nat
        BY DEF Inv1, SessionsOK, Job
      <3>2. gap = 0 \/ \E l \in OnVenue(job[s].venue) :
              listing[l].short /\ listing[l].enabled /\ gap = listing[l].gap
        BY <1>1 DEF PreparationDays
      <3>3. \A l \in OnVenue(job[s].venue) : listing[l].gap \in Nat
        BY OffersAssumption DEF OnVenue, Inv1, TablesOK, Offer
      <3> QED BY <1>1, <3>1, <3>2, <3>3
    <2>2. ~Near(stays'[k].dates, stays'[i].dates, job[s].gap)
      BY <1>1 DEF Occupied
    <2>3. stays'[k].dates \in Dates /\ stays'[i].dates \in Dates
      BY <1>0 DEF Stay
    <2> QED BY <2>1, <2>2, <2>3, NearShorter
  <1>2. ASSUME NEW s \in Sessions, NEW m \in StayIds, BookInsert(s),
               stays' = [stays EXCEPT ![m] =
                   [status |-> "confirmed", listing |-> job[s].listing,
                    venue |-> job[s].venue, user |-> job[s].user,
                    request |-> job[s].request, dates |-> job[s].dates,
                    price |-> job[s].price]]
        PROVE  ~Near(stays'[k].dates, stays'[i].dates, gap)
    <2>1. /\ m = i /\ stays'[k] = stays[k] /\ stays'[i].venue = job[s].venue
          /\ stays'[i].dates = job[s].dates
      BY <1>0, <1>2
    <2>2. pc[s] = "book_insert" /\ Spaced(pc[s], job[s]) /\ None # k
      BY <1>2, NoneAssumption DEF BookInsert, SpacedOK
    <2> QED BY <1>1, <2>1, <2>2 DEF Spaced
  <1>3. ASSUME NEW s \in Sessions, CancelCommit(s), job[s].stay \in StayIds,
               stays[job[s].stay] \in Stay,
               stays' = [stays EXCEPT ![job[s].stay] =
                           [stays[job[s].stay] EXCEPT !.status = "cancelled"]]
        PROVE  FALSE
    <2>1. [stays[job[s].stay] EXCEPT !.status = "cancelled"].dates
            = stays[job[s].stay].dates
      BY <1>3 DEF Stay
    <2> QED BY <1>0, <1>3, <2>1
  <1>4. ASSUME NEW s \in Sessions, DecideCommit(s), job[s].op = "accept",
               job[s].stay \in StayIds, stays[job[s].stay] \in Stay,
               stays' = [stays EXCEPT ![job[s].stay] =
                             [stays[job[s].stay] EXCEPT !.dates = job[s].dates,
                                                        !.price = job[s].price]]
        PROVE  ~Near(stays'[k].dates, stays'[i].dates, gap)
    <2> DEFINE m == job[s].stay
               r == [stays[m] EXCEPT !.dates = job[s].dates,
                                     !.price = job[s].price]
    <2>1. r.dates = job[s].dates /\ r.venue = stays[m].venue
      BY <1>4 DEF Stay
    <2> HIDE DEF r
    <2>2. stays' = [stays EXCEPT ![m] = r]
      BY <1>4 DEF r
    <2>3. /\ m = i /\ stays'[k] = stays[k] /\ stays'[i].dates = job[s].dates
          /\ stays'[i].venue = stays[m].venue
      BY <1>0, <1>4, <2>1, <2>2
    <2>4. /\ pc[s] = "change_commit" /\ Spaced(pc[s], job[s])
          /\ stays[m].venue = job[s].venue
      BY <1>4 DEF DecideCommit, SpacedOK, Inv1, RowsOK, Refers, ChangeLabels
    <2> QED BY <1>1, <1>4, <2>3, <2>4 DEF Spaced
  <1>5. stays' # stays
    OBVIOUS
  <1> QED BY <1>2, <1>3, <1>4, <1>5, StayWrites DEF Inv1

\* Dates that a commit gives to a stay keep the preparation days in force from
\* the other stays of the apartment, however owners edit its listings while
\* guests book and owners accept (create, decide, update).
THEOREM GapRespectedAlways == Spec => GapRespected
  <1>1. Inv1 /\ Inv1' /\ SpacedOK /\ [Next]_vars => [GapKept]_vars
    BY GapStep
  <1> QED BY <1>1, Inv1Always, SpacedAlways, PTL DEF Spec, GapRespected

-----------------------------------------------------------------------------
(* Deadlocks. *)

ListingLabels == {"book_venue", "book_check", "book_insert"} \cup BlockLabels
                   \cup {"change_venue", "change_stay", "change_check",
                         "change_commit"} \cup EditLabels
VenueLabels == {"book_check", "book_insert", "block_check", "block_insert",
                "change_stay", "change_check", "change_commit", "edit_check",
                "edit_commit", "resource_insert"}
StayLabels == {"cancel_commit", "change_check", "change_commit"}

\* The request a label belongs to, and the converse of Owns: a session at a
\* label holds no other row lock than the label says.
OnlyHolds(label, j, h) ==
  /\ j.op \in {"propose"} \cup Deciding => label \in ChangeLabels
  /\ label \in {"block_check", "block_insert"} => j.op = "block"
  /\ label \in EditLabels => j.op \in {"list", "edit"}
  /\ h.user # None => label \in BookLabels
  /\ h.listing # None => label \in ListingLabels
  /\ h.venue # None => label \in VenueLabels /\ h.venue = j.venue
  /\ h.stay # None => label \in StayLabels

\* What a session that holds a listing, a venue or two account keys knows of
\* their owners.
Placed(label, j, h) ==
  /\ label \in ChangeLabels => h.shares = Recipients(j.stay)
  /\ label \in BlockLabels =>
       listing[j.listing] # None /\ listing[j.listing].venue = j.venue
  /\ label \in {"block_check", "block_insert"} => MayManage(j.user, j.venue)
  /\ label \in EditLabels /\ j.op = "list" => listing[j.listing] = None
  /\ label \in EditLabels /\ j.op = "edit" =>
       /\ MayManage(j.user, listing[j.listing].venue)
       /\ MayManage(j.user, j.venue)

HoldsOK == \A s \in Sessions : /\ OnlyHolds(pc[s], job[s], held[s])
                               /\ Placed(pc[s], job[s], held[s])
\* A session that moves on takes the locks of its next label, and no other.
LEMMA OnlyHoldsAhead ==
  ASSUME Inv1, NEW s \in Sessions, OnlyHolds(pc[s], job[s], held[s]),
         Start(s) \/ Continue(s) \/ Abort(s)
  PROVE  OnlyHolds(pc'[s], job'[s], held'[s])
  <1> DEFINE k == job[s]
             h == held[s]
             Goal == OnlyHolds(pc'[s], job'[s], held'[s])
  <1>0. /\ k \in Job /\ h \in Locks /\ OnlyHolds(pc[s], k, h)
        /\ Known(pc[s], k)
        /\ pc \in [Sessions -> Labels] /\ job \in [Sessions -> Job]
        /\ held \in [Sessions -> Locks]
    BY DEF Inv1, SessionsOK
  <1>1. ASSUME Finish(s) PROVE Goal
    <2>1. pc'[s] = "idle" /\ job'[s] = NoJob /\ held'[s] = NoLocks
      BY <1>0, <1>1 DEF Finish
    <2> QED BY <2>1 DEF OnlyHolds, NoJob, NoLocks, BookLabels, BlockLabels,
               ChangeLabels, EditLabels, ListingLabels, VenueLabels, StayLabels,
               Deciding
  <1>2. pc[s] = "idle" =>
          h.user = None /\ h.listing = None /\ h.venue = None /\ h.stay = None
    BY <1>0 DEF OnlyHolds, BookLabels, BlockLabels, ChangeLabels, EditLabels,
       ListingLabels, VenueLabels, StayLabels
  <1>3. ASSUME NEW u, NEW l, NEW r, NEW d, NEW p, BookLockUser(s, u, l, r, d, p)
        PROVE  Goal
    <2>1. /\ pc[s] = "idle" /\ pc'[s] = "book_listing"
          /\ job'[s].op = "book"
          /\ held'[s].listing = h.listing /\ held'[s].venue = h.venue
          /\ held'[s].stay = h.stay
      BY <1>0, <1>3 DEF BookLockUser, Goto, NoJob, Locks
    <2> QED BY <1>2, <2>1 DEF OnlyHolds, BookLabels, BlockLabels, EditLabels,
               Deciding
  <1>4. ASSUME NEW i, CancelLockStay(s, i) PROVE Goal
    <2>1. /\ pc[s] = "idle" /\ pc'[s] = "cancel_commit"
          /\ job'[s].op = "cancel"
          /\ held'[s].listing = h.listing /\ held'[s].venue = h.venue
          /\ held'[s].user = h.user
      BY <1>0, <1>4 DEF CancelLockStay, Goto, NoJob, Locks
    <2> QED BY <1>2, <2>1 DEF OnlyHolds, BlockLabels, EditLabels, StayLabels,
               Deciding
  <1>5. ASSUME NEW op \in {"block", "unblock"}, NEW u, NEW l, NEW b, NEW r, NEW d,
               BlockLockListing(s, op, u, l, b, r, d)
        PROVE  Goal
    <2>1. /\ pc[s] = "idle" /\ pc'[s] = "block_venue" /\ job'[s].op = op
          /\ held'[s].stay = h.stay /\ held'[s].venue = h.venue
          /\ held'[s].user = h.user
      BY <1>0, <1>5 DEF BlockLockListing, Goto, NoJob, Locks
    <2> QED BY <1>2, <2>1 DEF OnlyHolds, BlockLabels, EditLabels,
               ListingLabels, Deciding
  <1>6. ASSUME NEW op \in {"propose"} \cup Deciding, NEW i, NEW c, NEW r, NEW d,
               NEW p, ChangeLockUsers(s, op, i, c, r, d, p)
        PROVE  Goal
    <2>1. /\ pc[s] = "idle" /\ pc'[s] = "change_listing" /\ job'[s].op = op
          /\ held'[s].stay = h.stay /\ held'[s].venue = h.venue
          /\ held'[s].user = h.user /\ held'[s].listing = h.listing
      BY <1>0, <1>6 DEF ChangeLockUsers, Goto, NoJob, Locks
    <2> QED BY <1>2, <2>1 DEF OnlyHolds, BlockLabels, EditLabels, ChangeLabels
  <1>7. ASSUME NEW op \in {"list", "edit"}, NEW label \in EditLabels, NEW l,
               NEW j, j.op = op, pc[s] = "idle", Goto(s, label),
               job' = [job EXCEPT ![s] = j],
               held' = [held EXCEPT ![s].listing = l]
        PROVE  Goal
    <2>1. /\ pc'[s] = label /\ job'[s].op = op
          /\ held'[s].stay = h.stay /\ held'[s].venue = h.venue
          /\ held'[s].user = h.user
      BY <1>0, <1>7 DEF Goto, Locks
    <2> QED BY <1>2, <1>7, <2>1 DEF OnlyHolds, EditLabels, ListingLabels,
               Deciding
  <1>8. ASSUME NEW l, NEW o, ListStart(s, l, o) PROVE Goal
    <2> DEFINE j == [NoJob EXCEPT !.op = "list", !.listing = l,
                       !.user = Owner[o.venue], !.venue = o.venue, !.offer = o]
    <2>1. j.op = "list"
      BY DEF NoJob
    <2>2. /\ pc[s] = "idle" /\ job' = [job EXCEPT ![s] = j]
          /\ held' = [held EXCEPT ![s].listing = l]
          /\ Goto(s, "edit_venue") \/ Goto(s, "edit_commit")
      BY <1>8 DEF ListStart
    <2> HIDE DEF j, Goal
    <2> QED BY <1>7, <2>1, <2>2 DEF EditLabels
  <1>9. ASSUME NEW u, NEW l, NEW o, EditLockListing(s, u, l, o) PROVE Goal
    <2> DEFINE j == [NoJob EXCEPT !.op = "edit", !.listing = l, !.user = u,
                       !.venue = o.venue, !.offer = o]
    <2>1. j.op = "edit"
      BY DEF NoJob
    <2>2. /\ pc[s] = "idle" /\ job' = [job EXCEPT ![s] = j]
          /\ held' = [held EXCEPT ![s].listing = l]
          /\ Goto(s, "edit_venue") \/ Goto(s, "edit_check")
      BY <1>9 DEF EditLockListing
    <2> HIDE DEF j, Goal
    <2> QED BY <1>7, <2>1, <2>2 DEF EditLabels
  <1>10. ASSUME NEW v, ResourceLockVenue(s, v) PROVE Goal
    <2>1. /\ pc[s] = "idle" /\ pc'[s] = "resource_insert"
          /\ job'[s].op = "resource" /\ job'[s].venue = v
          /\ held'[s].venue = v /\ held'[s].stay = h.stay
          /\ held'[s].listing = h.listing /\ held'[s].user = h.user
      BY <1>0, <1>10 DEF ResourceLockVenue, Goto, NoJob, Locks
    <2> QED BY <1>2, <2>1 DEF OnlyHolds, BlockLabels, EditLabels, VenueLabels,
               Deciding
  <1>11. ASSUME BookLockListing(s), ~Finish(s) PROVE Goal
    <2>1. /\ pc[s] = "book_listing" /\ pc'[s] = "book_venue"
          /\ job'[s].op = k.op /\ held'[s].stay = h.stay
          /\ held'[s].venue = h.venue /\ held'[s].user = h.user
      BY <1>0, <1>11 DEF BookLockListing, Goto, Job, Locks
    <2> QED BY <1>0, <2>1 DEF OnlyHolds, BookLabels, BlockLabels, ChangeLabels,
               EditLabels, ListingLabels, VenueLabels, StayLabels
  <1>12. ASSUME BookLockVenue(s), ~Finish(s) PROVE Goal
    <2>1. /\ pc[s] = "book_venue" /\ pc'[s] = "book_check"
          /\ job'[s].op = k.op /\ job'[s].venue = k.venue
          /\ held'[s].venue = k.venue /\ held'[s].stay = h.stay
          /\ held'[s].listing = h.listing /\ held'[s].user = h.user
      BY <1>0, <1>12 DEF BookLockVenue, Goto, Job, Locks
    <2> QED BY <1>0, <2>1 DEF OnlyHolds, BookLabels, BlockLabels, ChangeLabels,
               EditLabels, ListingLabels, VenueLabels, StayLabels
  <1>13. ASSUME \/ BookCheck(s) \/ BlockCheck(s) \/ ChangeCheck(s)
                \/ EditCheck(s),
                ~Finish(s)
         PROVE  Goal
    <2>1. /\ job'[s] = k /\ held'[s] = h
          /\ \/ pc[s] = "book_check" /\ pc'[s] = "book_insert"
             \/ pc[s] = "block_check" /\ pc'[s] = "block_insert"
             \/ pc[s] = "change_check" /\ pc'[s] = "change_commit"
             \/ pc[s] = "edit_check" /\ pc'[s] = "edit_commit"
      BY <1>0, <1>13 DEF BookCheck, BlockCheck, ChangeCheck, EditCheck, Goto
    <2> QED BY <1>0, <2>1 DEF OnlyHolds, BookLabels, BlockLabels, ChangeLabels,
               EditLabels, ListingLabels, VenueLabels, StayLabels, Deciding
  <1>14. ASSUME BlockLockVenue(s), ~Finish(s) PROVE Goal
    <2>1. /\ pc[s] = "block_venue" /\ pc'[s] = "block_check"
          /\ job'[s] = k /\ k.op = "block"
          /\ held'[s].venue = k.venue /\ held'[s].stay = h.stay
          /\ held'[s].listing = h.listing /\ held'[s].user = h.user
      BY <1>0, <1>14 DEF BlockLockVenue, Goto, Locks
    <2> QED BY <1>0, <2>1 DEF OnlyHolds, BookLabels, BlockLabels, ChangeLabels,
               EditLabels, ListingLabels, VenueLabels, StayLabels
  <1>15. ASSUME ChangeLockListing(s) PROVE Goal
    <2>1. /\ pc[s] = "change_listing" /\ pc'[s] = "change_venue"
          /\ job'[s] = k /\ held'[s].venue = h.venue
          /\ held'[s].stay = h.stay /\ held'[s].user = h.user
      BY <1>0, <1>15 DEF ChangeLockListing, Goto, Locks
    <2> QED BY <1>0, <2>1 DEF OnlyHolds, BookLabels, BlockLabels, ChangeLabels,
               EditLabels, ListingLabels, VenueLabels, StayLabels
  <1>16. ASSUME ChangeLockVenue(s) PROVE Goal
    <2>1. /\ pc[s] = "change_venue" /\ pc'[s] = "change_stay"
          /\ job'[s] = k /\ held'[s].venue = k.venue
          /\ held'[s].stay = h.stay /\ held'[s].user = h.user
          /\ held'[s].listing = h.listing
      BY <1>0, <1>16 DEF ChangeLockVenue, Goto, Locks
    <2> QED BY <1>0, <2>1 DEF OnlyHolds, BookLabels, BlockLabels, ChangeLabels,
               EditLabels, ListingLabels, VenueLabels, StayLabels
  <1>17. ASSUME ProposeLockStay(s), ~Finish(s) PROVE Goal
    <2>1. /\ pc[s] = "change_stay" /\ pc'[s] = "change_check"
          /\ job'[s].op = k.op /\ job'[s].venue = k.venue
          /\ held'[s].venue = h.venue /\ held'[s].user = h.user
          /\ held'[s].listing = h.listing
      BY <1>0, <1>17 DEF ProposeLockStay, Goto, Job, Locks
    <2> QED BY <1>0, <2>1 DEF OnlyHolds, BookLabels, BlockLabels, ChangeLabels,
               EditLabels, ListingLabels, VenueLabels, StayLabels
  <1>18. ASSUME DecideLockStay(s), ~Finish(s) PROVE Goal
    <2>1. PICK g \in PreparationDays(k.venue) :
            job' = [job EXCEPT ![s] =
                      [k EXCEPT !.gap = g, !.dates = changes[k.row].dates,
                                !.price = changes[k.row].price]]
      BY <1>18 DEF DecideLockStay
    <2>2. job'[s] = [k EXCEPT !.gap = g, !.dates = changes[k.row].dates,
                              !.price = changes[k.row].price]
      BY <1>0, <2>1
    <2>3. job'[s].op = k.op /\ job'[s].venue = k.venue
      BY <1>0, <2>2 DEF Job
    <2>4. /\ pc[s] = "change_stay"
          /\ pc'[s] \in {"change_check", "change_commit"}
          /\ held' = [held EXCEPT ![s].stay = k.stay]
      BY <1>0, <1>18 DEF DecideLockStay, Goto
    <2>5. /\ held'[s].venue = h.venue /\ held'[s].user = h.user
          /\ held'[s].listing = h.listing
      BY <1>0, <2>4 DEF Locks
    <2> QED BY <1>0, <2>3, <2>4, <2>5 DEF OnlyHolds, BookLabels, BlockLabels,
               ChangeLabels, EditLabels, ListingLabels, VenueLabels, StayLabels
  <1>19. ASSUME EditLockVenue(s), ~Finish(s) PROVE Goal
    <2>1. /\ pc[s] = "edit_venue" /\ pc'[s] \in {"edit_check", "edit_commit"}
          /\ job'[s] = k /\ held'[s].venue = k.venue
          /\ held'[s].stay = h.stay /\ held'[s].user = h.user
          /\ held'[s].listing = h.listing
      BY <1>0, <1>19 DEF EditLockVenue, Goto, Locks
    <2> QED BY <1>0, <2>1 DEF OnlyHolds, BookLabels, BlockLabels, ChangeLabels,
               EditLabels, ListingLabels, VenueLabels, StayLabels, Deciding
  <1>20. ASSUME \/ BookInsert(s) \/ CancelCommit(s) \/ BlockInsert(s)
                \/ Unblock(s) \/ ProposeCommit(s) \/ DecideCommit(s)
                \/ EditCommit(s) \/ ResourceInsert(s) \/ Abort(s)
         PROVE  Finish(s)
    BY <1>20 DEF BookInsert, CancelCommit, BlockInsert, Unblock, ProposeCommit,
       DecideCommit, EditCommit, ResourceInsert, Abort
  <1> HIDE DEF Goal
  <1>21. ASSUME Start(s) PROVE Goal
    BY <1>3, <1>4, <1>5, <1>6, <1>8, <1>9, <1>10, <1>21 DEF Start, StartBook,
       StartBlock, StartUnblock, StartPropose, StartDecide
  <1>22. ASSUME Continue(s) \/ Abort(s) PROVE Goal
    BY <1>1, <1>11, <1>12, <1>13, <1>14, <1>15, <1>16, <1>17, <1>18, <1>19,
       <1>20, <1>22 DEF Continue
  <1>23. Goal
    BY <1>21, <1>22
  <1> QED BY <1>23 DEF Goal
\* A session that moves on has read who the property it has locked is of.
LEMMA PlacedAhead ==
  ASSUME Inv1, NEW s \in Sessions, OnlyHolds(pc[s], job[s], held[s]),
         Placed(pc[s], job[s], held[s]), Start(s) \/ Continue(s) \/ Abort(s)
  PROVE  Placed(pc[s], job[s], held[s])'
  <1> DEFINE k == job[s]
             h == held[s]
             Goal == Placed(pc[s], job[s], held[s])'
  <1>0. /\ k \in Job /\ h \in Locks /\ Placed(pc[s], k, h)
        /\ OnlyHolds(pc[s], k, h)
        /\ pc \in [Sessions -> Labels] /\ job \in [Sessions -> Job]
        /\ held \in [Sessions -> Locks]
    BY DEF Inv1, SessionsOK
  <1>1. CASE pc'[s] \notin ChangeLabels \cup BlockLabels \cup EditLabels
    BY <1>1 DEF Placed, BlockLabels
  <1>2. ASSUME Finish(s) PROVE Goal
    <2>1. pc'[s] = "idle"
      BY <1>0, <1>2 DEF Finish
    <2> QED BY <1>1, <2>1 DEF ChangeLabels, BlockLabels, EditLabels
  <1>3. ASSUME NEW op \in {"block", "unblock"}, NEW u, NEW l, NEW b, NEW r, NEW d,
               BlockLockListing(s, op, u, l, b, r, d)
        PROVE  Goal
    <2>1. /\ pc'[s] = "block_venue" /\ job'[s].listing = l
          /\ job'[s].venue = listing[l].venue /\ listing[l] # None
          /\ UNCHANGED listing
      BY <1>0, <1>3 DEF BlockLockListing, Goto, NoJob, tables
    <2> QED BY <2>1 DEF Placed, BlockLabels, EditLabels, ChangeLabels
  <1>4. ASSUME NEW op, NEW i, NEW c, NEW r, NEW d, NEW p,
               ChangeLockUsers(s, op, i, c, r, d, p)
        PROVE  Goal
    <2>1. /\ pc'[s] = "change_listing" /\ job'[s].stay = i
          /\ held'[s].shares = Recipients(i) /\ UNCHANGED stays
      BY <1>0, <1>4 DEF ChangeLockUsers, Goto, NoJob, Locks, tables
    <2> QED BY <2>1 DEF Placed, BlockLabels, EditLabels, ChangeLabels, Recipients
  <1>5. ASSUME NEW l, NEW o, ListStart(s, l, o) PROVE Goal
    <2>1. /\ pc'[s] \in {"edit_venue", "edit_commit"} /\ job'[s].listing = l
          /\ job'[s].op = "list" /\ listing[l] = None /\ UNCHANGED listing
      BY <1>0, <1>5 DEF ListStart, Goto, NoJob, tables
    <2> QED BY <2>1 DEF Placed, BlockLabels, EditLabels, ChangeLabels
  <1>6. ASSUME NEW u, NEW l, NEW o, EditLockListing(s, u, l, o) PROVE Goal
    <2>1. /\ pc'[s] \in {"edit_venue", "edit_check"} /\ job'[s].listing = l
          /\ job'[s].op = "edit" /\ job'[s].user = u /\ job'[s].venue = o.venue
          /\ MayManage(u, listing[l].venue) /\ MayManage(u, o.venue)
          /\ UNCHANGED listing
      BY <1>0, <1>6 DEF EditLockListing, Goto, NoJob, tables
    <2> QED BY <2>1 DEF Placed, BlockLabels, EditLabels, ChangeLabels, MayManage
  <1>7. ASSUME \/ StartBook(s) \/ \E i \in StayIds : CancelLockStay(s, i)
               \/ \E v \in Venues : ResourceLockVenue(s, v)
        PROVE  Goal
    <2>1. pc'[s] \in {"book_listing", "cancel_commit", "resource_insert"}
      BY <1>0, <1>7 DEF StartBook, BookLockUser, CancelLockStay,
         ResourceLockVenue, Goto
    <2> QED BY <1>1, <2>1 DEF ChangeLabels, BlockLabels, EditLabels
  <1>8. ASSUME BookLockListing(s) \/ BookLockVenue(s) \/ BookCheck(s), ~Finish(s)
        PROVE  Goal
    <2>1. pc'[s] \in {"book_venue", "book_check", "book_insert"}
      BY <1>0, <1>8 DEF BookLockListing, BookLockVenue, BookCheck, Goto
    <2> QED BY <1>1, <2>1 DEF ChangeLabels, BlockLabels, EditLabels
  <1>9. ASSUME BlockLockVenue(s), ~Finish(s) PROVE Goal
    <2>1. /\ pc[s] = "block_venue" /\ pc'[s] = "block_check" /\ job'[s] = k
          /\ MayManage(k.user, k.venue) /\ UNCHANGED listing
      BY <1>0, <1>9 DEF BlockLockVenue, Goto, tables
    <2> QED BY <1>0, <2>1 DEF Placed, BlockLabels, EditLabels, ChangeLabels,
               MayManage
  <1>10. ASSUME BlockCheck(s), ~Finish(s) PROVE Goal
    <2>1. /\ pc[s] = "block_check" /\ pc'[s] = "block_insert" /\ job'[s] = k
          /\ UNCHANGED listing
      BY <1>0, <1>10 DEF BlockCheck, Goto, tables
    <2> QED BY <1>0, <2>1 DEF Placed, BlockLabels, EditLabels, ChangeLabels,
               MayManage
  <1>11. ASSUME ChangeLockListing(s) \/ ChangeLockVenue(s) PROVE Goal
    <2>1. /\ pc[s] \in {"change_listing", "change_venue"}
          /\ pc'[s] \in {"change_venue", "change_stay"} /\ job'[s] = k
          /\ held'[s].shares = h.shares /\ UNCHANGED stays
      BY <1>0, <1>11 DEF ChangeLockListing, ChangeLockVenue, Goto, Locks, tables
    <2> QED BY <1>0, <2>1 DEF Placed, BlockLabels, EditLabels, ChangeLabels,
               Recipients
  <1>12. ASSUME ProposeLockStay(s), ~Finish(s) PROVE Goal
    <2>1. /\ pc[s] = "change_stay" /\ pc'[s] = "change_check"
          /\ job'[s].stay = k.stay
          /\ held'[s].shares = h.shares /\ UNCHANGED stays
      BY <1>0, <1>12 DEF ProposeLockStay, Goto, Job, Locks, tables
    <2> QED BY <1>0, <2>1 DEF Placed, BlockLabels, EditLabels, ChangeLabels,
               Recipients
  <1>13. ASSUME DecideLockStay(s), ~Finish(s) PROVE Goal
    <2>1. PICK g \in PreparationDays(k.venue) :
            job' = [job EXCEPT ![s] =
                      [k EXCEPT !.gap = g, !.dates = changes[k.row].dates,
                                !.price = changes[k.row].price]]
      BY <1>13 DEF DecideLockStay
    <2>2. job'[s] = [k EXCEPT !.gap = g, !.dates = changes[k.row].dates,
                              !.price = changes[k.row].price]
      BY <1>0, <2>1
    <2>3. job'[s].stay = k.stay
      BY <1>0, <2>2 DEF Job
    <2>4. /\ pc[s] = "change_stay" /\ UNCHANGED stays
          /\ pc'[s] \in {"change_check", "change_commit"}
          /\ held' = [held EXCEPT ![s].stay = k.stay]
      BY <1>0, <1>13 DEF DecideLockStay, Goto, tables
    <2>5. held'[s].shares = h.shares
      BY <1>0, <2>4 DEF Locks
    <2> QED BY <1>0, <2>3, <2>4, <2>5 DEF Placed, BlockLabels, EditLabels,
               ChangeLabels, Recipients
  <1>14. ASSUME ChangeCheck(s), ~Finish(s) PROVE Goal
    <2>1. /\ pc[s] = "change_check" /\ pc'[s] = "change_commit"
          /\ job'[s] = k /\ held'[s] = h /\ UNCHANGED stays
      BY <1>0, <1>14 DEF ChangeCheck, Goto, tables
    <2> QED BY <1>0, <2>1 DEF Placed, BlockLabels, EditLabels, ChangeLabels,
               Recipients
  <1>15. ASSUME EditLockVenue(s) \/ EditCheck(s), ~Finish(s) PROVE Goal
    <2>1. /\ pc[s] \in EditLabels /\ pc'[s] \in EditLabels /\ job'[s] = k
          /\ UNCHANGED listing
      BY <1>0, <1>15 DEF EditLockVenue, EditCheck, Goto, EditLabels, tables
    <2> QED BY <1>0, <2>1 DEF Placed, BlockLabels, EditLabels, ChangeLabels,
               MayManage
  <1>16. ASSUME \/ BookInsert(s) \/ CancelCommit(s) \/ BlockInsert(s)
                \/ Unblock(s) \/ ProposeCommit(s) \/ DecideCommit(s)
                \/ EditCommit(s) \/ ResourceInsert(s) \/ Abort(s)
         PROVE  Finish(s)
    BY <1>16 DEF BookInsert, CancelCommit, BlockInsert, Unblock, ProposeCommit,
       DecideCommit, EditCommit, ResourceInsert, Abort
  <1> HIDE DEF Goal
  <1>17. ASSUME Start(s) PROVE Goal
    BY <1>3, <1>4, <1>5, <1>6, <1>7, <1>17 DEF Start, StartBlock, StartUnblock,
       StartPropose, StartDecide
  <1>18. ASSUME Continue(s) \/ Abort(s) PROVE Goal
    BY <1>2, <1>8, <1>9, <1>10, <1>11, <1>12, <1>13, <1>14, <1>15, <1>16,
       <1>18 DEF Continue
  <1>19. Goal
    BY <1>17, <1>18
  <1> QED BY <1>19 DEF Goal

\* It stays so while others move: a stay keeps its guest and its venue, and a
\* listing is written only by the session that holds it.
LEMMA PlacedKept ==
  ASSUME Inv1, [Next]_vars, NEW t \in Sessions,
         Placed(pc[t], job[t], held[t]),
         pc'[t] = pc[t], job'[t] = job[t], held'[t] = held[t]
  PROVE  Placed(pc[t], job[t], held[t])'
  <1>0. /\ Known(pc[t], job[t]) /\ Owns(pc[t], job[t], held[t])
        /\ Refers(pc[t], job[t])
    BY DEF Inv1, SessionsOK, RowsOK
  <1>1. pc[t] \in ChangeLabels => Recipients(job[t].stay)' = Recipients(job[t].stay)
    BY <1>0, StaysKept DEF Inv1, Known, Refers, StayKept, Recipients, ChangeLabels
  <1>2. ASSUME pc[t] \in BlockLabels \cup EditLabels
        PROVE  listing'[job[t].listing] = listing[job[t].listing]
    <2>1. job[t].listing \in Listings /\ held[t].listing = job[t].listing
      BY <1>0, <1>2 DEF Known, Owns, BlockLabels, EditLabels
    <2>2. ASSUME NEW s \in Sessions, EditCommit(s)
          PROVE  job[s].listing # job[t].listing
      <3>1. s # t /\ pc[s] = "edit_commit"
        BY <2>2, <1>2 DEF EditCommit, Finish, Inv1, SessionsOK, BlockLabels,
           EditLabels
      <3>2. held[s].listing = job[s].listing /\ Compatible(s, held[s])
        BY <3>1 DEF Inv1, SessionsOK, Owns, EditLabels
      <3> QED BY <2>1, <3>1, <3>2, NoneAssumption DEF Compatible, ListingFree
    <2> QED BY <2>1, <2>2, ListingWrites, EditWrites
  <1> QED BY <1>1, <1>2 DEF Placed, MayManage, BlockLabels

LEMMA HoldsAlways == Spec => []HoldsOK
  <1>1. Init => HoldsOK
    BY DEF Init, HoldsOK, OnlyHolds, Placed, NoJob, NoLocks, BookLabels,
       BlockLabels, ChangeLabels, EditLabels, Deciding
  <1>2. ASSUME Inv1, HoldsOK, [Next]_vars PROVE HoldsOK'
    <2>1. ASSUME NEW t \in Sessions
          PROVE  OnlyHolds(pc'[t], job'[t], held'[t])
                 /\ Placed(pc[t], job[t], held[t])'
      <3>1. OnlyHolds(pc[t], job[t], held[t]) /\ Placed(pc[t], job[t], held[t])
        BY <1>2 DEF HoldsOK
      <3>2. CASE pc'[t] = pc[t] /\ job'[t] = job[t] /\ held'[t] = held[t]
        BY <1>2, <3>1, <3>2, PlacedKept
      <3>3. CASE Start(t) \/ Continue(t) \/ Abort(t)
        BY <1>2, <3>1, <3>3, OnlyHoldsAhead, PlacedAhead
      <3> QED BY <1>2, <3>2, <3>3, OthersStay DEF Inv1
    <2> QED BY <2>1 DEF HoldsOK, OnlyHolds
  <1> QED BY <1>1, <1>2, Inv1Always, PTL DEF Spec
\* Sessions each of which waits for another of them.
Closed(C) == /\ C \in SUBSET Sessions
             /\ \A t \in C : \E u \in C : WaitsFor(t, u)

\* While a date change is under way, nobody has locked the account of its guest
\* or of its owner.
LEMMA KeysFree ==
  ASSUME Inv1, HoldsOK, NEW r \in Sessions, pc[r] \in ChangeLabels,
         NEW u \in Recipients(job[r].stay), NEW t \in Sessions
  PROVE  held[t].user # u
  <1>1. /\ held[r].shares = Recipients(job[r].stay) /\ held[r].user = None
        /\ Compatible(r, held[r])
    BY DEF HoldsOK, OnlyHolds, Placed, Inv1, SessionsOK, BookLabels, ChangeLabels
  <1>2. u \in Users /\ u # None
    BY <1>1, NoneAssumption DEF Inv1, SessionsOK, Locks
  <1>3. CASE t = r
    BY <1>1, <1>2, <1>3
  <1>4. CASE t # r
    BY <1>1, <1>4 DEF Compatible, UserShareable
  <1> QED BY <1>3, <1>4

\* Whoever holds the stay of a date change does not wait.
LEMMA StayQuiet ==
  ASSUME Inv1, HoldsOK, NEW C, Closed(C), NEW r \in Sessions,
         pc[r] \in ChangeLabels, NEW t \in C, held[t].stay = job[r].stay
  PROVE  FALSE
  <1>1. PICK u \in C : WaitsFor(t, u)
    BY DEF Closed
  <1>2. t \in Sessions /\ u \in Sessions
    BY DEF Closed
  <1>3. job[r].stay \in StayIds /\ job[r].stay # None
    BY NoneAssumption DEF Inv1, SessionsOK, Known, ChangeLabels
  <1>4. pc[t] \in StayLabels /\ held[t].stay = job[t].stay
    BY <1>2, <1>3 DEF HoldsOK, OnlyHolds, Inv1, SessionsOK, Owns, StayLabels
  <1>5. held[u].user \in KeysShared(t) /\ pc[t] # "change_check"
    BY <1>1, <1>4 DEF WaitsFor, StayLabels, KeysShared
  <1>6. KeysShared(t) = Recipients(job[r].stay)
    BY <1>4, <1>5 DEF KeysShared, StayLabels
  <1> QED BY <1>2, <1>5, <1>6, KeysFree

\* Whoever holds a venue of the owner of a date change waits at most for a stay,
\* and so for nobody who waits.
LEMMA VenueQuiet ==
  ASSUME Inv1, HoldsOK, ~AdminAtWork, NEW C, Closed(C), NEW r \in Sessions,
         pc[r] \in ChangeLabels, NEW v \in Venues,
         Owner[v] \in Recipients(job[r].stay), NEW t \in C, held[t].venue = v
  PROVE  FALSE
  <1>1. PICK u \in C : WaitsFor(t, u)
    BY DEF Closed
  <1>2. t \in Sessions /\ u \in Sessions /\ u # t
    BY <1>1 DEF Closed, WaitsFor
  <1>3. /\ pc[t] \in VenueLabels /\ job[t].venue = v /\ Compatible(t, held[t])
        /\ v # None
    BY <1>2, NoneAssumption DEF HoldsOK, OnlyHolds, Inv1, SessionsOK
  <1>4. held[u].venue # v
    BY <1>2, <1>3 DEF Compatible, VenueFree
  <1>5. CASE pc[t] = "book_insert"
    <2>1. held[u].user \in {job[t].user, Owner[v]}
      BY <1>1, <1>3, <1>5 DEF WaitsFor, KeysShared
    <2>2. held[t].user = job[t].user /\ job[t].user # None
      BY <1>2, <1>5, NoneAssumption DEF Inv1, SessionsOK, Owns, Known, BookLabels
    <2>3. held[u].user # job[t].user
      BY <1>2, <1>3, <2>2 DEF Compatible, UserFree
    <2> QED BY <1>2, <2>1, <2>3, KeysFree
  <1>6. CASE pc[t] = "block_insert"
    <2>1. held[u].user = job[t].user
      BY <1>1, <1>6 DEF WaitsFor, KeysShared
    <2>2. job[t].op = "block" /\ MayManage(job[t].user, v)
      BY <1>2, <1>3, <1>6 DEF HoldsOK, OnlyHolds, Placed
    <2>3. job[t].user = Owner[v]
      BY <1>2, <2>2 DEF AdminAtWork, MayManage
    <2> QED BY <1>2, <2>1, <2>3, KeysFree
  <1>7. CASE pc[t] = "change_stay"
    <2>1. held[u].stay = job[t].stay
      BY <1>1, <1>7 DEF WaitsFor, KeysShared
    <2> QED BY <1>2, <1>7, <2>1, StayQuiet DEF ChangeLabels
  <1>8. CASE pc[t] = "change_commit"
    <2>1. held[u].user \in Recipients(job[t].stay)
      BY <1>1, <1>8 DEF WaitsFor, KeysShared
    <2> QED BY <1>2, <1>8, <2>1, KeysFree DEF ChangeLabels
  <1>9. CASE pc[t] \in {"book_check", "block_check", "change_check",
                        "edit_check", "edit_commit", "resource_insert"}
    BY <1>1, <1>3, <1>4, <1>9 DEF WaitsFor, KeysShared
  <1> QED BY <1>3, <1>5, <1>6, <1>7, <1>8, <1>9 DEF VenueLabels

\* Whoever holds the listing of a date change waits at most for a venue of its
\* owner or for a stay.
LEMMA ListingQuiet ==
  ASSUME Inv1, HoldsOK, VenuesOK, ~AdminAtWork, NEW C, Closed(C),
         NEW r \in Sessions, pc[r] \in ChangeLabels,
         NEW t \in C, held[t].listing = job[r].listing
  PROVE  FALSE
  <1> DEFINE l == job[r].listing
             v == job[r].venue
  <1>1. PICK u \in C : WaitsFor(t, u)
    BY DEF Closed
  <1>2. t \in Sessions /\ u \in Sessions /\ u # t
    BY <1>1 DEF Closed, WaitsFor
  <1>3. /\ job[r].stay \in StayIds /\ l \in Listings /\ v \in Venues
        /\ stays[job[r].stay].status # "none"
        /\ stays[job[r].stay].listing = l /\ stays[job[r].stay].venue = v
    BY DEF Inv1, SessionsOK, RowsOK, Known, Refers, ChangeLabels
  <1>4. /\ listing[l] # None /\ listing[l].venue = v
        /\ Owner[v] \in Recipients(job[r].stay)
    BY <1>3 DEF VenuesOK, StaysOnListingVenue, Recipients
  <1>5. /\ pc[t] \in ListingLabels /\ job[t].listing = l
        /\ Known(pc[t], job[t]) /\ Settled(pc[t], job[t])
        /\ OnlyHolds(pc[t], job[t], held[t]) /\ Placed(pc[t], job[t], held[t])
    <2>1. l # None
      BY <1>3, NoneAssumption
    <2>2. /\ Known(pc[t], job[t]) /\ Settled(pc[t], job[t])
          /\ OnlyHolds(pc[t], job[t], held[t]) /\ Placed(pc[t], job[t], held[t])
          /\ Owns(pc[t], job[t], held[t])
      BY <1>2 DEF Inv1, SessionsOK, VenuesOK, HoldsOK
    <2>3. pc[t] \in ListingLabels
      BY <2>1, <2>2 DEF OnlyHolds
    <2> QED BY <2>2, <2>3 DEF Owns, ListingLabels
  <1> HIDE DEF l, v
  <1>6. ASSUME NEW w \in Venues, Owner[w] = Owner[v] PROVE held[u].venue # w
    BY <1>4, <1>6, VenueQuiet
  <1>7. CASE pc[t] \in {"book_venue", "block_venue"}
    <2>1. job[t].venue = v
      BY <1>4, <1>5, <1>7 DEF Settled, Placed, BlockLabels
    <2> QED BY <1>1, <1>3, <1>6, <1>7, <2>1 DEF WaitsFor, KeysShared, v
  <1>8. CASE pc[t] \in {"book_insert", "block_insert"}
    <2>1. job[t].venue = v
      BY <1>4, <1>5, <1>8 DEF Settled, Placed, BlockLabels
    <2>2. CASE pc[t] = "book_insert"
      <3>1. held[u].user \in {job[t].user, Owner[v]}
        BY <1>1, <2>1, <2>2 DEF WaitsFor, KeysShared
      <3>2. held[t].user = job[t].user /\ job[t].user # None
        BY <1>2, <2>2, NoneAssumption DEF Inv1, SessionsOK, Owns, Known,
           BookLabels
      <3>3. held[u].user # job[t].user
        BY <1>2, <3>2 DEF Inv1, SessionsOK, Compatible, UserFree
      <3> QED BY <1>2, <1>4, <3>1, <3>3, KeysFree
    <2>3. CASE pc[t] = "block_insert"
      <3>1. held[u].user = job[t].user
        BY <1>1, <2>3 DEF WaitsFor, KeysShared
      <3>2. job[t].op = "block" /\ MayManage(job[t].user, v)
        BY <1>5, <2>1, <2>3 DEF OnlyHolds, Placed
      <3>3. job[t].user = Owner[v]
        BY <1>2, <3>2 DEF AdminAtWork, MayManage
      <3> QED BY <1>2, <1>4, <3>1, <3>3, KeysFree
    <2> QED BY <1>8, <2>2, <2>3
  <1>9. CASE pc[t] = "change_venue"
    <2>1. /\ job[t].stay \in StayIds /\ job[t].venue \in Venues
          /\ stays[job[t].stay].venue = job[t].venue
      BY <1>2, <1>9 DEF Inv1, SessionsOK, RowsOK, Known, Refers, ChangeLabels
    <2>2. Owner[job[t].venue] \in Recipients(job[t].stay)
      BY <2>1 DEF Recipients
    <2>3. held[u].venue = job[t].venue
      BY <1>1, <1>9 DEF WaitsFor, KeysShared
    <2> QED BY <1>2, <1>9, <2>1, <2>2, <2>3, VenueQuiet DEF ChangeLabels
  <1>10. CASE pc[t] = "change_stay"
    <2>1. held[u].stay = job[t].stay
      BY <1>1, <1>10 DEF WaitsFor, KeysShared
    <2> QED BY <1>2, <1>10, <2>1, StayQuiet DEF ChangeLabels
  <1>11. CASE pc[t] = "change_commit"
    <2>1. held[u].user \in Recipients(job[t].stay)
      BY <1>1, <1>11 DEF WaitsFor, KeysShared
    <2> QED BY <1>2, <1>11, <2>1, KeysFree DEF ChangeLabels
  <1>12. CASE pc[t] \in {"edit_venue", "edit_commit"}
    <2>1. job[t].op = "edit" /\ job[t].venue \in Venues
      BY <1>4, <1>5, <1>12 DEF OnlyHolds, Placed, Known, EditLabels
    <2>2. MayManage(job[t].user, v) /\ MayManage(job[t].user, job[t].venue)
      BY <1>4, <1>5, <1>12, <2>1 DEF Placed, EditLabels
    <2>3. Owner[job[t].venue] = Owner[v]
      BY <1>2, <2>1, <2>2 DEF AdminAtWork, MayManage
    <2>4. held[u].venue = job[t].venue
      BY <1>1, <1>12 DEF WaitsFor, KeysShared
    <2> QED BY <1>6, <2>1, <2>3, <2>4
  <1>13. CASE pc[t] \in {"book_check", "block_check", "change_check",
                         "edit_check"}
    BY <1>1, <1>13 DEF WaitsFor, KeysShared
  <1> QED BY <1>5, <1>7, <1>8, <1>9, <1>10, <1>11, <1>12, <1>13
          DEF ListingLabels, BlockLabels, EditLabels

\* No date change is among sessions that wait for each other.
LEMMA ChangesAdvance ==
  ASSUME Inv1, HoldsOK, VenuesOK
  PROVE  ChangesNeverDeadlock
  <1> SUFFICES ASSUME ~AdminAtWork, NEW s \in Sessions,
                      job[s].op \in {"propose"} \cup Deciding,
                      NEW C \in SUBSET Sessions, s \in C,
                      \A t \in C : \E u \in C : WaitsFor(t, u)
               PROVE  FALSE
    BY DEF ChangesNeverDeadlock, Deadlocked
  <1>1. Closed(C) /\ pc[s] \in ChangeLabels
    BY DEF Closed, HoldsOK, OnlyHolds
  <1>2. PICK u \in C : WaitsFor(s, u)
    OBVIOUS
  <1>3. u \in Sessions
    OBVIOUS
  <1>4. /\ job[s].stay \in StayIds /\ job[s].venue \in Venues
        /\ stays[job[s].stay].venue = job[s].venue
    BY <1>1 DEF Inv1, SessionsOK, RowsOK, Known, Refers, ChangeLabels
  <1>5. Owner[job[s].venue] \in Recipients(job[s].stay)
    BY <1>4 DEF Recipients
  <1>6. CASE pc[s] = "change_listing"
    <2>1. held[u].listing = job[s].listing
      BY <1>2, <1>6 DEF WaitsFor, KeysShared
    <2> QED BY <1>1, <2>1, ListingQuiet
  <1>7. CASE pc[s] = "change_venue"
    <2>1. held[u].venue = job[s].venue
      BY <1>2, <1>7 DEF WaitsFor, KeysShared
    <2> QED BY <1>1, <1>4, <1>5, <2>1, VenueQuiet
  <1>8. CASE pc[s] = "change_stay"
    <2>1. held[u].stay = job[s].stay
      BY <1>2, <1>8 DEF WaitsFor, KeysShared
    <2> QED BY <1>1, <2>1, StayQuiet
  <1>9. CASE pc[s] \in {"change_check", "change_commit"}
    <2>1. held[u].user \in Recipients(job[s].stay)
      BY <1>2, <1>9 DEF WaitsFor, KeysShared
    <2> QED BY <1>1, <1>3, <2>1, KeysFree
  <1> QED BY <1>1, <1>6, <1>7, <1>8, <1>9 DEF ChangeLabels

\* A date change never waits for a deadlock, for any number of guests, owners,
\* apartments and concurrent requests (stay_date_change_service.py:28).
THEOREM ChangesNeverDeadlockAlways == Spec => []ChangesNeverDeadlock
  <1>1. Inv1 /\ HoldsOK /\ VenuesOK => ChangesNeverDeadlock
    BY ChangesAdvance
  <1> QED BY <1>1, Inv1Always, HoldsAlways, VenuesAlways, PTL
=============================================================================
