------------------------- MODULE PropertyModeration -------------------------
(***************************************************************************)
(* Reports about a published listing, the decisions of administrators, the  *)
(* owner's appeals, and the owner's own edits of the listing in between.    *)
(*                                                                         *)
(* A report locks its user FOR UPDATE and then the listing.  A decision     *)
(* reads the owner, takes KEY SHARE locks on the users it will notify and   *)
(* then the listing; an edit locks the listing alone.  There is one         *)
(* listing: the limit of twenty open reports, which counts other listings   *)
(* too, is left out.                                                        *)
(***************************************************************************)
EXTENDS Integers, FiniteSets

CONSTANTS
  Owners, Reporters, Admins,
  Reports,        \* report rows (bound)
  Requests,       \* request identifiers of clients
  Sessions,       \* requests served at a time
  MaxVersion,     \* bound on the decisions about the listing
  None

VARIABLES
  listing,        \* the listing's row, with the owner of its venue
  report,         \* report rows
  events,         \* the moderation history
  work            \* what each session is doing

vars == <<listing, report, events, work>>

Users == Owners \cup Reporters \cup Admins
NoReport == [status |-> "none", user |-> None, request |-> None]
Idle == [op |-> "idle"]
Allowed ==
  [hide    |-> {"clear"},
   dismiss |-> {"clear", "suspended", "appealed"},
   appeal  |-> {"suspended"},
   restore |-> {"suspended", "appealed"},
   uphold  |-> {"appealed"}]

Init ==
  /\ listing \in [published : {TRUE}, state : {"clear"}, version : {0}, owner : Owners]
  /\ report = [p \in Reports |-> NoReport]
  /\ events = {}
  /\ work = [s \in Sessions |-> Idle]

Finish(s) == work' = [work EXCEPT ![s] = Idle]

-----------------------------------------------------------------------------
(* Locks. *)

\* The user row of a report is locked FOR UPDATE until its commit.
HoldsUser(s, u) == work[s].op = "report" /\ work[s].user = u
HoldsKey(s, u) == work[s].op = "act" /\ work[s].keys /\ u \in work[s].told
HoldsListing(s) == work[s].op = "edit" \/ (work[s].op = "act" /\ work[s].locked)

UserFree(s, u) == \A t \in Sessions \ {s} : ~HoldsUser(t, u) /\ ~HoldsKey(t, u)

KeyFree(s, u) == \A t \in Sessions \ {s} : ~HoldsUser(t, u)

ListingFree(s) == \A t \in Sessions \ {s} : ~HoldsListing(t)

-----------------------------------------------------------------------------
(* Reporting. *)

Filed(u, r) == \E p \in Reports : report[p].user = u /\ report[p].request = r

ReportLock(s, u, r) ==
  /\ work[s] = Idle /\ UserFree(s, u) /\ ~Filed(u, r)
  /\ work' = [work EXCEPT ![s] = [op |-> "report", user |-> u, request |-> r]]
  /\ UNCHANGED <<listing, report, events>>

PendingOf(u) == {p \in Reports : report[p].user = u /\ report[p].status = "pending"}

ReportCommit(s) ==
  LET w == work[s] IN
  /\ w.op = "report" /\ ListingFree(s)
  /\ listing.published /\ listing.owner # w.user
  /\ PendingOf(w.user) = {}
  /\ \E p \in Reports :
       /\ report[p] = NoReport
       /\ report' = [report EXCEPT ![p] =
            [status |-> "pending", user |-> w.user, request |-> w.request]]
  /\ Finish(s)
  /\ UNCHANGED <<listing, events>>

ReportRefuse(s) ==
  LET w == work[s] IN
  /\ w.op = "report" /\ ListingFree(s)
  /\ \/ ~listing.published \/ listing.owner = w.user \/ PendingOf(w.user) # {}
     \/ \A p \in Reports : report[p] # NoReport
  /\ Finish(s)
  /\ UNCHANGED <<listing, report, events>>

-----------------------------------------------------------------------------
(* Deciding and appealing. *)

\* The owner and the report are read without locks, by a client that showed the
\* version it is about to decide on.
ActRead(s, u, action, p) ==
  /\ work[s] = Idle /\ listing.version < MaxVersion
  /\ IF action = "appeal" THEN u = listing.owner ELSE u \in Admins
  /\ IF action \in {"hide", "dismiss"} THEN p # None ELSE p = None
  /\ p # None => report[p] # NoReport
  /\ work' = [work EXCEPT ![s] =
       [op |-> "act", user |-> u, action |-> action, report |-> p,
        owner |-> listing.owner, version |-> listing.version,
        told |-> {u, listing.owner} \cup (IF p = None THEN {} ELSE {report[p].user}),
        keys |-> FALSE, locked |-> FALSE]]
  /\ UNCHANGED <<listing, report, events>>

\* Defect: the users are not locked before the listing.
NoKeys(s) == TRUE

KeysHeld(s) == work[s].keys

LockKeys(s) ==
  /\ work[s].op = "act" /\ ~work[s].keys /\ ~work[s].locked
  /\ \A u \in work[s].told : KeyFree(s, u)
  /\ work' = [work EXCEPT ![s].keys = TRUE]
  /\ UNCHANGED <<listing, report, events>>

LockListing(s) ==
  /\ work[s].op = "act" /\ ~work[s].locked /\ KeysHeld(s) /\ ListingFree(s)
  /\ work' = [work EXCEPT ![s].locked = TRUE]
  /\ UNCHANGED <<listing, report, events>>

Decidable(w) ==
  /\ listing.owner = w.owner /\ listing.version = w.version
  /\ listing.state \in Allowed[w.action]
  /\ w.report # None => report[w.report].status = "pending"

Outcome(action) ==
  CASE action = "hide"    -> [listing EXCEPT !.published = FALSE, !.state = "suspended"]
    [] action = "dismiss" -> listing
    [] action = "appeal"  -> [listing EXCEPT !.state = "appealed"]
    [] action = "restore" -> [listing EXCEPT !.published = FALSE, !.state = "clear"]
    [] action = "uphold"  -> [listing EXCEPT !.published = FALSE, !.state = "suspended"]

\* The notifications refer to the users: writing them takes their key locks.
ActCommit(s) ==
  LET w == work[s] IN
  /\ w.op = "act" /\ w.locked /\ Decidable(w)
  /\ \A u \in w.told : KeyFree(s, u)
  /\ listing' = [Outcome(w.action) EXCEPT !.version = @ + 1]
  /\ report' = IF w.report = None THEN report ELSE
       [report EXCEPT ![w.report].status =
          IF w.action = "hide" THEN "action_taken" ELSE "dismissed"]
  /\ events' = events \cup {[user |-> w.user, action |-> w.action,
                             version |-> listing.version + 1, report |-> w.report]}
  /\ Finish(s)

ActRefuse(s) ==
  /\ work[s].op = "act" /\ work[s].locked /\ ~Decidable(work[s])
  /\ Finish(s)
  /\ UNCHANGED <<listing, report, events>>

-----------------------------------------------------------------------------
(* The owner's edits of the listing. *)

\* Publishing and moving to another owner's venue need a clear state.
EditLock(s, publish, owner) ==
  /\ work[s] = Idle /\ ListingFree(s)
  /\ publish \/ owner # listing.owner => listing.state = "clear"
  /\ work' = [work EXCEPT ![s] = [op |-> "edit", publish |-> publish, owner |-> owner]]
  /\ UNCHANGED <<listing, report, events>>

EditCommit(s) ==
  /\ work[s].op = "edit"
  /\ listing' = [listing EXCEPT !.published = work[s].publish, !.owner = work[s].owner]
  /\ Finish(s)
  /\ UNCHANGED <<report, events>>

Next ==
  \E s \in Sessions :
    \/ ReportCommit(s) \/ ReportRefuse(s) \/ LockKeys(s) \/ LockListing(s)
    \/ ActCommit(s) \/ ActRefuse(s) \/ EditCommit(s)
    \/ \E u \in Reporters \cup Owners, r \in Requests : ReportLock(s, u, r)
    \/ \E u \in Owners \cup Admins, a \in DOMAIN Allowed, p \in Reports \cup {None} :
         ActRead(s, u, a, p)
    \/ \E publish \in BOOLEAN, owner \in Owners : EditLock(s, publish, owner)

Spec == Init /\ [][Next]_vars

-----------------------------------------------------------------------------
(* Properties. *)

\* "A database check also prevents any suspended/appealed listing from being
\* published" (docs/property-moderation.md:32): no handler ever runs into it.
SuspendedIsHidden == listing.state # "clear" => ~listing.published

\* Only the owner's own edit publishes a listing; no decision does.
OwnersPublish ==
  ~listing.published /\ listing'.published => \E s \in Sessions : work[s].op = "edit"
OnlyOwnersPublish == [][OwnersPublish]_vars

\* Reports of one user sent at the same time leave one open report (the unique
\* index uq_pending_property_report is never met), filed once per request.
OneOpenReport ==
  /\ \A u \in Users : Cardinality(PendingOf(u)) <= 1
  /\ \A p, q \in Reports : p # q /\ report[p] # NoReport =>
       <<report[p].user, report[p].request>> # <<report[q].user, report[q].request>>

\* "Concurrent or stale decisions cannot overwrite each other"
\* (docs/property-moderation.md:54): of two administrators and an owner who act
\* on one version only the first is heard.
DecidesOnSight ==
  \A s \in Sessions : ActCommit(s) => work[s].version = listing.version
DecidedOnSight == [][DecidesOnSight]_vars

\* The history numbers the decisions, and no report is decided twice.
HistoryIsLinear ==
  /\ {e.version : e \in events} = 1..listing.version
  /\ Cardinality(events) = listing.version
  /\ \A e, f \in events : e # f /\ e.report # None => e.report # f.report

\* "Recipient key locks precede listing locks to avoid inversion": nobody waits
\* for a session that waits for it (docs/property-moderation.md:55).
Waits(s, t) ==
  \/ work[s].op = "report" /\ HoldsListing(t)
  \/ /\ work[s].op = "act" /\ \E u \in work[s].told : HoldsUser(t, u)
     /\ work[s].locked \/ ~work[s].keys
  \/ work[s].op = "act" /\ ~work[s].locked /\ work[s].keys /\ HoldsListing(t)

NoMutualWait == \A s, t \in Sessions : s # t => ~(Waits(s, t) /\ Waits(t, s))
=============================================================================
