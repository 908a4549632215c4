------------------------- MODULE SavedSearchAlerts -------------------------
(***************************************************************************)
(* The searches that one user keeps and the job that tells about listings   *)
(* published since.  A listing is stamped when its first publication is     *)
(* decided, and seen by others only after its commit, so listings come into *)
(* sight out of the order of their stamps.                                  *)
(*                                                                         *)
(* Every handler locks the user first; the job skips a user who is locked.  *)
(***************************************************************************)
EXTENDS Integers, FiniteSets

CONSTANTS
  Searches,       \* rows of saved searches (bound): an identifier is used once
  MaxSaved,       \* searches a user may keep
  Listings,
  Own,            \* the listings of the user
  Sessions,       \* requests and jobs that are served at a time
  MaxFaults,      \* bound on the sessions that fail
  LastTick        \* bound on the clock

VARIABLES
  clock,
  listing,        \* each listing's first publication
  search,         \* each saved search
  decided,        \* per search, the listings that were processed
  alerts,         \* history: how often a search told about a listing
  optIn,          \* history: when each search's alerts were last switched on
  work,           \* what each session is doing
  faults          \* how many sessions failed

vars == <<clock, listing, search, decided, alerts, optIn, work, faults>>

Idle == [op |-> "idle"]

Init ==
  /\ clock = 1
  /\ listing = [l \in Listings |-> [stamp |-> 0, visible |-> FALSE, fits |-> TRUE]]
  /\ search = [q \in Searches |-> [state |-> "none", on |-> FALSE, since |-> 0]]
  /\ decided = [q \in Searches |-> {}]
  /\ alerts = [q \in Searches |-> [l \in Listings |-> 0]]
  /\ optIn = [q \in Searches |-> 0]
  /\ work = [s \in Sessions |-> Idle]
  /\ faults = 0

Tick ==
  /\ clock < LastTick /\ clock' = clock + 1
  /\ UNCHANGED <<listing, search, decided, alerts, optIn, work, faults>>

-----------------------------------------------------------------------------
(* Listings. *)

PublishDecide(l) ==
  /\ listing[l].stamp = 0 /\ listing' = [listing EXCEPT ![l].stamp = clock]
  /\ UNCHANGED <<clock, search, decided, alerts, optIn, work, faults>>

PublishCommit(l) ==
  /\ listing[l].stamp # 0 /\ ~listing[l].visible
  /\ listing' = [listing EXCEPT ![l].visible = TRUE]
  /\ UNCHANGED <<clock, search, decided, alerts, optIn, work, faults>>

\* An edit, a withdrawal or a booking: the listing answers the search or not.
Edit(l) ==
  /\ listing[l].visible /\ listing' = [listing EXCEPT ![l].fits = ~@]
  /\ UNCHANGED <<clock, search, decided, alerts, optIn, work, faults>>

-----------------------------------------------------------------------------
(* Searches.  A request locks the user, reads, and writes at its commit. *)

UserFree(s) == \A t \in Sessions \ {s} : work[t] = Idle

Saved == {q \in Searches : search[q].state = "saved"}

SaveLock(s) ==
  /\ work[s] = Idle /\ UserFree(s) /\ Cardinality(Saved) < MaxSaved
  /\ work' = [work EXCEPT ![s] = [op |-> "save"]]
  /\ UNCHANGED <<clock, listing, search, decided, alerts, optIn, faults>>

SaveCommit(s) ==
  /\ work[s].op = "save"
  /\ \E q \in Searches :
       /\ search[q].state = "none"
       /\ search' = [search EXCEPT ![q].state = "saved"]
  /\ work' = [work EXCEPT ![s] = Idle]
  /\ UNCHANGED <<clock, listing, decided, alerts, optIn, faults>>

Switched(row, on) ==
  [row EXCEPT !.on = on, !.since = IF on /\ ~row.on THEN clock ELSE @]

SetAlerts(q, on) ==
  /\ q \in Saved /\ search[q].on # on /\ \A s \in Sessions : work[s] = Idle
  /\ search' = [search EXCEPT ![q] = Switched(@, on)]
  /\ optIn' = [optIn EXCEPT ![q] = IF on THEN clock ELSE @]
  /\ UNCHANGED <<clock, listing, decided, alerts, work, faults>>

\* Removing a search removes its processing history with it.
Remove(q) ==
  /\ q \in Saved /\ \A s \in Sessions : work[s] = Idle
  /\ search' = [search EXCEPT ![q].state = "removed", ![q].on = FALSE]
  /\ decided' = [decided EXCEPT ![q] = {}]
  /\ UNCHANGED <<clock, listing, alerts, optIn, work, faults>>

-----------------------------------------------------------------------------
(* The job. *)

\* Defect: the listings after the newest one that was processed.
AfterNewest(q) ==
  {l \in Listings : /\ listing[l].visible /\ listing[l].stamp >= search[q].since
                    /\ \A k \in decided[q] : listing[l].stamp > listing[k].stamp}

Pending(q) ==
  {l \in Listings : listing[l].visible /\ listing[l].stamp >= search[q].since}
  \ decided[q]

\* The user and the search are locked; the search is read anew.
ProcessLock(s, q) ==
  /\ work[s] = Idle /\ UserFree(s) /\ search[q].on /\ Pending(q) # {}
  /\ work' = [work EXCEPT ![s] = [op |-> "process", search |-> q, todo |-> Pending(q)]]
  /\ UNCHANGED <<clock, listing, search, decided, alerts, optIn, faults>>

Matched(l) == listing[l].fits /\ l \notin Own

\* What did not match is recorded as well; all of it is one commit.
ProcessCommit(s) ==
  LET w == work[s] IN
  /\ w.op = "process"
  /\ decided' = [decided EXCEPT ![w.search] = @ \cup w.todo]
  /\ alerts' = [alerts EXCEPT ![w.search] = [l \in Listings |->
       IF l \in w.todo /\ Matched(l) THEN @[l] + 1 ELSE @[l]]]
  /\ work' = [work EXCEPT ![s] = Idle]
  /\ UNCHANGED <<clock, listing, search, optIn, faults>>

\* A session that fails is rolled back.
Abort(s) ==
  /\ work[s] # Idle /\ work' = [work EXCEPT ![s] = Idle]
  /\ faults < MaxFaults /\ faults' = faults + 1
  /\ UNCHANGED <<clock, listing, search, decided, alerts, optIn>>

Next ==
  \/ Tick
  \/ \E l \in Listings : PublishDecide(l) \/ PublishCommit(l) \/ Edit(l)
  \/ \E q \in Searches : Remove(q) \/ \E on \in BOOLEAN : SetAlerts(q, on)
  \/ \E s \in Sessions :
       \/ SaveLock(s) \/ SaveCommit(s) \/ ProcessCommit(s) \/ Abort(s)
       \/ \E q \in Searches : ProcessLock(s, q)

\* Beat starts the job every minute, what is begun ends, and not every run finds
\* the user locked.
Fairness ==
  /\ \A s \in Sessions : WF_vars(ProcessCommit(s)) /\ WF_vars(SaveCommit(s))
  /\ \A q \in Searches : SF_vars(\E s \in Sessions : ProcessLock(s, q))

Spec == Init /\ [][Next]_vars
LiveSpec == Spec /\ Fairness

-----------------------------------------------------------------------------
(* Properties. *)

\* "Retries and deleted inbox notifications cannot create duplicate alerts"
\* (docs/saved-search-alerts.md:49).
AlertedOnce == \A q \in Searches, l \in Listings : alerts[q][l] <= 1

\* Alerts reach back to the last opt-in and no further: publications made while
\* alerts were off are not caught up on, and a search that is switched off or
\* removed while the job runs is not written to.
SinceOptIn ==
  \A q \in Searches, l \in Listings : alerts'[q][l] > alerts[q][l] =>
    search[q].on /\ listing[l].stamp >= optIn[q]
OnlySinceOptIn == [][SinceOptIn]_vars

\* A publication that becomes visible late is still processed: every listing
\* first published since the opt-in is decided, unless alerts are switched off.
Behind(q) ==
  /\ search[q].on
  /\ \E l \in Listings \ decided[q] : listing[l].visible /\ listing[l].stamp >= optIn[q]
LateCommitsAreSeen == \A q \in Searches : Behind(q) ~> ~Behind(q)
=============================================================================
